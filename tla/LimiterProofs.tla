---------------------------- MODULE LimiterProofs -----------------------------
(***************************************************************************)
(* Proofs about the limits a request meets: the windows of its scopes and  *)
(* the slots of its key (Limiter), for any limits, callers and bounds.     *)
(***************************************************************************)
EXTENDS Limiter, FiniteSetTheorems, TLAPS

\* Most leaves are first-order reasoning: Zenon is tried before the SMT solver.
USE ZenonT(10), SMTT(30)

-----------------------------------------------------------------------------
(* The windows *)

\* A set of naturals has a least element.
LEMMA LeastNatural ==
    ASSUME NEW T, T \subseteq Nat, T # {}
    PROVE  \E x \in T : \A y \in T : x <= y
<1>1. PICK x \in T : \A y \in T : ~(<<y, x>> \in OpToRel(<, Nat))
  BY NatLessThanWellFounded, WFMin
<1>2. ASSUME NEW y \in T PROVE x <= y
  <2>1. ~(y < x)
    BY <1>1 DEF OpToRel
  <2> QED BY <2>1
<1> QED BY <1>2

Windows == LimitedScopes \X Kinds
Checks == (LimitedScopes \X Kinds) \cup (LimitedKeys \X {"slot"})

LimitedRecords ==
    [pc : {"checking", "script", "expire", "incr", "decr", "serving", "rejected", "done"},
     step : Nat \ {0}, holds : BOOLEAN, now : Nat, retry : Int, on : {<<>>} \cup Checks]

LimiterTyped ==
    /\ clock \in Nat
    /\ DOMAIN entries = Windows /\ DOMAIN granted = Windows
    /\ \A w \in Windows : /\ IsFiniteSet(granted[w]) /\ granted[w] \subseteq Nat \X Nat
                          /\ entries[w] \subseteq granted[w]
    /\ inflight \in [LimitedKeys -> [exists : BOOLEAN, value : Int, expires : Int]]
    /\ call \in [LimitedCalls -> LimitedRecords]

\* A script in flight goes by a reading that is at most MaxLag old.
ScriptOK(r) ==
    call[r].pc = "script" =>
        /\ NextCheck(r) <= Len(AllowSteps[r]) /\ CurrentStep(r)[2] # "slot"
        /\ call[r].now <= clock /\ clock - call[r].now <= MaxLag

\* Only a rejected call names the window that rejected it.
OnOK(r) == call[r].pc # "rejected" => call[r].on = <<>>

\* What a sorted set has lost is older than all it has and than every window
\* a script may still ask for; no stretch is overfull.
WindowOK(w) ==
    /\ Cardinality(entries[w]) <= WindowLimit[w]
    /\ \A m \in granted[w] \ entries[w] : m[1] <= clock - Window
    /\ \A m \in granted[w] \ entries[w], e \in entries[w] : m[1] < e[1]
    /\ \A t \in Int : Cardinality(GrantedIn(w, t - (Window - MaxLag), t)) <= WindowLimit[w]

\* INCR numbers the members of a window without a gap.
NumbersOK(w) == \A m \in granted[w] : m[2] \in 1 .. Cardinality(granted[w])

LimiterInv ==
    /\ LimiterTyped
    /\ \A r \in LimitedCalls : ScriptOK(r) /\ OnOK(r)
    /\ \A w \in Windows : WindowOK(w) /\ NumbersOK(w)

\* Every check of Allow is a window or the slot of a key.
LEMMA ChecksTyped ==
    ASSUME NEW r \in LimitedCalls
    PROVE  AllowSteps[r] \in Seq(Checks)
<1> DEFINE key == KeyOf[r]
           above == [i \in 1 .. 2 * Len(BudgetsOf[key]) |->
                       <<BudgetsOf[key][(i + 1) \div 2], IF i % 2 = 1 THEN "rpm" ELSE "tpm">>]
<1>1. /\ key \in LimitedKeys /\ key \in LimitedScopes /\ EndUserScope[key] \in LimitedScopes
      /\ BudgetsOf[key] \in Seq(LimitedScopes)
  BY LimiterAssumption DEF LimitedKeys, LimitedScopes, LimiterAssumption
<1>2. above \in Seq(Checks)
  <2>1. Len(BudgetsOf[key]) \in Nat
    BY <1>1
  <2>2. ASSUME NEW i \in 1 .. 2 * Len(BudgetsOf[key])
        PROVE  (i + 1) \div 2 \in 1 .. Len(BudgetsOf[key])
    BY <2>1
  <2>3. ASSUME NEW i \in 1 .. 2 * Len(BudgetsOf[key])
        PROVE  <<BudgetsOf[key][(i + 1) \div 2], IF i % 2 = 1 THEN "rpm" ELSE "tpm">> \in Checks
    <3>1. BudgetsOf[key][(i + 1) \div 2] \in LimitedScopes
      BY <1>1, <2>2
    <3> QED BY <3>1 DEF Checks, Kinds
  <2>4. PICK n \in Nat : n = 2 * Len(BudgetsOf[key])
    BY <2>1
  <2>5. above \in [1 .. n -> Checks]
    BY <2>3, <2>4
  <2> HIDE DEF above
  <2> QED BY <2>4, <2>5
<1> HIDE DEF above
<1>3. /\ <<<<EndUserScope[key], "rpm">>, <<EndUserScope[key], "tpm">>>> \in Seq(Checks)
      /\ <<<<key, "rpm">>, <<key, "tpm">>>> \in Seq(Checks)
      /\ <<<<key, "slot">>>> \in Seq(Checks)
  BY <1>1 DEF Checks, Kinds
<1>4. AllowSteps[r] = <<<<EndUserScope[key], "rpm">>, <<EndUserScope[key], "tpm">>>>
                        \o <<<<key, "rpm">>, <<key, "tpm">>>> \o <<<<key, "slot">>>> \o above
  BY DEF AllowSteps, above
<1> HIDE DEF key
<1> QED BY <1>2, <1>3, <1>4

\* The next check is one with a limit, or Allow is through.
LEMMA NextCheckLimited ==
    ASSUME LimiterTyped, NEW r \in LimitedCalls
    PROVE  /\ NextCheck(r) \in Nat
           /\ NextCheck(r) <= Len(AllowSteps[r]) =>
                  /\ CurrentStep(r) \in Checks /\ Limited(CurrentStep(r))
                  /\ CurrentStep(r)[2] # "slot" =>
                         CurrentStep(r) \in Windows /\ WindowLimit[CurrentStep(r)] > 0
<1> DEFINE S == {n \in call[r].step .. Len(AllowSteps[r]) : Limited(AllowSteps[r][n])}
                   \cup {Len(AllowSteps[r]) + 1}
<1>1. AllowSteps[r] \in Seq(Checks) /\ Len(AllowSteps[r]) \in Nat /\ call[r].step \in Nat \ {0}
  BY ChecksTyped DEF LimiterTyped, LimitedRecords
<1>2. S \subseteq Nat /\ S # {}
  BY <1>1
<1>3. \E x \in S : \A y \in S : x <= y
  BY <1>2, LeastNatural
<1>4. NextCheck(r) \in S
  BY <1>3 DEF NextCheck, Min
<1>5. NextCheck(r) \in Nat
  BY <1>2, <1>4
<1>6. NextCheck(r) <= Len(AllowSteps[r]) =>
        NextCheck(r) \in call[r].step .. Len(AllowSteps[r]) /\ Limited(CurrentStep(r))
  BY <1>1, <1>4, <1>5 DEF CurrentStep
<1>7. ASSUME NextCheck(r) <= Len(AllowSteps[r]) PROVE CurrentStep(r) \in Checks
  <2>1. NextCheck(r) \in 1 .. Len(AllowSteps[r])
    BY <1>1, <1>6, <1>7
  <2> QED BY <1>1, <2>1 DEF CurrentStep
<1>8. ASSUME NEW w \in Checks, Limited(w), w[2] # "slot"
      PROVE  w \in Windows /\ WindowLimit[w] > 0
  BY <1>8 DEF Checks, Windows, Limited
<1> QED BY <1>5, <1>6, <1>7, <1>8

\* The members a script adds are as many as its weight, and numbered anew.
LEMMA NewMembersCount ==
    ASSUME LimiterTyped, NEW w \in Windows, NEW now \in Nat
    PROVE  /\ IsFiniteSet(NewMembers(w, now))
           /\ Cardinality(NewMembers(w, now)) = Weight[w[2]]
           /\ NewMembers(w, now) \subseteq Nat \X Nat
           /\ \A m \in NewMembers(w, now) :
                 m[1] = now /\ m[2] \in Cardinality(granted[w]) + 1
                                         .. Cardinality(granted[w]) + Weight[w[2]]
           /\ Weight[w[2]] \in Nat \ {0} /\ Cardinality(granted[w]) \in Nat
<1>1. PICK k \in Nat \ {0} : k = Weight[w[2]]
  BY LimiterAssumption DEF Windows, LimiterAssumption
<1>2. PICK c \in Nat : c = Cardinality(granted[w])
  BY FS_CardinalityType DEF LimiterTyped
<1> DEFINE f == [n \in 1 .. k |-> <<now, c + n>>]
           N == NewMembers(w, now)
<1>3. N = {<<now, c + n>> : n \in 1 .. k}
  BY <1>1, <1>2 DEF NewMembers
<1> HIDE DEF N
<1>4. f \in Bijection(1 .. k, N)
  <2>1. f \in [1 .. k -> N] /\ \A n \in 1 .. k : f[n] = <<now, c + n>>
    BY <1>3
  <2> HIDE DEF f
  <2>2. ASSUME NEW a \in 1 .. k, NEW b \in 1 .. k, f[a] = f[b] PROVE a = b
    <3>1. c + a = c + b
      BY <2>1, <2>2
    <3> QED BY <3>1
  <2>3. \A m \in N : \E n \in 1 .. k : f[n] = m
    BY <1>3, <2>1
  <2> QED BY <2>1, <2>2, <2>3 DEF Bijection, Injection, IsInjective, Surjection
<1>5. IsFiniteSet(1 .. k) /\ Cardinality(1 .. k) = k
  BY FS_Interval
<1>6. IsFiniteSet(N) /\ Cardinality(N) = k
  BY <1>4, <1>5, FS_Bijection, ZenonT(30) DEF ExistsBijection
<1>7. N \subseteq Nat \X Nat /\ \A m \in N : m[1] = now /\ m[2] \in c + 1 .. c + k
  BY <1>3
<1> QED BY <1>1, <1>2, <1>6, <1>7 DEF N

\* A script that finds room keeps the window's promises: what a stretch holds
\* with the new entries was within the pruned set without them.
LEMMA EnterWindow ==
    ASSUME LimiterInv, NEW w \in Windows, NEW now \in Nat, NEW P, NEW N,
           P = Pruned(w, now), N = NewMembers(w, now),
           now <= clock, clock - now <= MaxLag,
           Cardinality(P) + Weight[w[2]] <= WindowLimit[w],
           entries' = [entries EXCEPT ![w] = P \cup N],
           granted' = [granted EXCEPT ![w] = granted[w] \cup N],
           UNCHANGED clock
    PROVE  /\ DOMAIN entries' = Windows /\ DOMAIN granted' = Windows
           /\ \A v \in Windows : /\ IsFiniteSet(granted'[v]) /\ granted'[v] \subseteq Nat \X Nat
                                 /\ entries'[v] \subseteq granted'[v]
           /\ \A v \in Windows : WindowOK(v)' /\ NumbersOK(v)'
           /\ Cardinality(granted'[w]) = Cardinality(granted[w]) + Weight[w[2]]
<1> USE DEF LimiterInv
<1>1. /\ IsFiniteSet(N) /\ Cardinality(N) = Weight[w[2]] /\ N \subseteq Nat \X Nat
      /\ \A m \in N : m[1] = now /\ m[2] \in Cardinality(granted[w]) + 1
                                              .. Cardinality(granted[w]) + Weight[w[2]]
      /\ Weight[w[2]] \in Nat \ {0} /\ Cardinality(granted[w]) \in Nat
  BY NewMembersCount
<1>2. /\ clock \in Nat /\ Window \in Nat \ {0} /\ MaxLag \in Nat /\ MaxLag < Window
      /\ WindowLimit \in [Windows -> Nat]
  BY LimiterAssumption DEF LimiterAssumption, LimiterTyped, Windows
<1>3. /\ IsFiniteSet(granted[w]) /\ granted[w] \subseteq Nat \X Nat
      /\ entries[w] \subseteq granted[w] /\ P \subseteq entries[w]
  BY DEF LimiterTyped, Pruned
<1>4. IsFiniteSet(P) /\ IsFiniteSet(entries[w]) /\ Cardinality(P) \in Nat
  BY <1>3, FS_Subset, FS_CardinalityType
<1>5. DOMAIN entries' = Windows /\ DOMAIN granted' = Windows
  BY DEF LimiterTyped
<1>6. /\ entries'[w] = P \cup N /\ granted'[w] = granted[w] \cup N
      /\ \A v \in Windows \ {w} : entries'[v] = entries[v] /\ granted'[v] = granted[v]
  BY DEF LimiterTyped
<1>7. IsFiniteSet(granted[w] \cup N) /\ granted[w] \cup N \subseteq Nat \X Nat
      /\ P \cup N \subseteq granted[w] \cup N
  BY <1>1, <1>3, FS_Union
<1>8. \A v \in Windows : /\ IsFiniteSet(granted'[v]) /\ granted'[v] \subseteq Nat \X Nat
                         /\ entries'[v] \subseteq granted'[v]
  BY <1>6, <1>7 DEF LimiterTyped
<1>9. Cardinality(granted'[w]) = Cardinality(granted[w]) + Weight[w[2]]
  <2>1. granted[w] \cap N = {}
    BY <1>1 DEF NumbersOK
  <2>2. Cardinality(granted[w] \cap N) = 0
    BY <2>1, FS_EmptySet
  <2>3. Cardinality(granted[w] \cup N)
          = Cardinality(granted[w]) + Cardinality(N) - Cardinality(granted[w] \cap N)
    BY <1>1, <1>3, FS_Union
  <2>4. Cardinality(granted[w] \cup N) = Cardinality(granted[w]) + Weight[w[2]]
    BY <1>1, <2>2, <2>3
  <2> QED BY <1>6, <2>4
<1>10. ASSUME NEW v \in Windows PROVE NumbersOK(v)'
  <2>1. CASE v = w
    <3>1. ASSUME NEW m \in granted[w] \cup N
          PROVE  m[2] \in 1 .. Cardinality(granted[w]) + Weight[w[2]]
      BY <1>1 DEF NumbersOK
    <3> QED BY <2>1, <3>1, <1>6, <1>9 DEF NumbersOK
  <2>2. CASE v # w
    BY <2>2, <1>6 DEF NumbersOK
  <2> QED BY <2>1, <2>2
<1>11. ASSUME NEW v \in Windows, v # w PROVE WindowOK(v)'
  BY <1>11, <1>6 DEF WindowOK, GrantedIn
<1>12. WindowOK(w)'
  <2>0. WindowOK(w)
    OBVIOUS
  <2>1. Cardinality(entries'[w]) <= WindowLimit[w]
    <3>1. /\ Cardinality(P \cup N) = Cardinality(P) + Cardinality(N) - Cardinality(P \cap N)
          /\ IsFiniteSet(P \cap N)
      BY <1>1, <1>4, FS_Union, FS_Subset
    <3>2. Cardinality(P \cap N) \in Nat
      BY <3>1, FS_CardinalityType
    <3>3. Cardinality(P \cup N) <= Cardinality(P) + Weight[w[2]]
      BY <1>1, <1>4, <3>1, <3>2
    <3>4. WindowLimit[w] \in Nat /\ Cardinality(P \cup N) \in Int
      BY <1>1, <1>2, <1>4, <3>1, <3>2
    <3>5. Cardinality(P \cup N) <= WindowLimit[w]
      BY <1>1, <1>4, <3>3, <3>4
    <3> QED BY <1>6, <3>5
  <2>2. ASSUME NEW m \in granted'[w] \ entries'[w]
        PROVE  m \in granted[w] /\ m[1] \in Nat /\ m[1] <= clock - Window
               /\ \/ m \notin entries[w]
                  \/ m[1] <= now - Window
    <3>1. m \in granted[w] /\ m \notin P
      BY <1>6
    <3>2. m[1] \in Nat
      BY <1>3, <3>1
    <3>3. m \notin entries[w] \/ m[1] <= now - Window
      BY <3>1, <3>2, <1>2 DEF Pruned
    <3> QED BY <2>0, <3>1, <3>2, <3>3, <1>2 DEF WindowOK
  <2>3. ASSUME NEW m \in granted'[w] \ entries'[w], NEW e \in entries'[w]
        PROVE  m[1] < e[1]
    <3>1. e[1] \in Nat
      BY <1>7, <1>6
    <3>2. CASE e \in N
      BY <3>1, <3>2, <1>1, <1>2, <2>2
    <3>3. CASE e \in P
      <4>1. e[1] > now - Window /\ e \in entries[w]
        BY <3>3 DEF Pruned
      <4>2. CASE m \notin entries[w]
        BY <2>0, <2>2, <4>1, <4>2 DEF WindowOK
      <4>3. CASE m[1] <= now - Window
        BY <2>2, <4>1, <4>3, <3>1, <1>2
      <4> QED BY <2>2, <4>2, <4>3
    <3> QED BY <1>6, <3>2, <3>3
  <2>4. ASSUME NEW t \in Int
        PROVE  Cardinality(GrantedIn(w, t - (Window - MaxLag), t)') <= WindowLimit[w]
    <3> DEFINE S == GrantedIn(w, t - (Window - MaxLag), t)
               S1 == {m \in granted'[w] : t - (Window - MaxLag) < m[1] /\ m[1] <= t}
    <3>1. CASE now <= t /\ t - (Window - MaxLag) < now
      <4>1. ASSUME NEW m \in S1 PROVE m \in P \cup N
        <5>1. SUFFICES ASSUME m \notin N PROVE m \in P
          OBVIOUS
        <5>2. m \in granted[w] /\ m[1] \in Nat /\ t - (Window - MaxLag) < m[1]
          BY <1>3, <1>6, <5>1
        <5>3. m[1] > clock - Window /\ m[1] > now - Window
          BY <5>2, <3>1, <1>2
        <5>4. m \in entries[w]
          BY <2>0, <5>2, <5>3, <1>2 DEF WindowOK
        <5> QED BY <5>3, <5>4 DEF Pruned
      <4>2. S1 \subseteq entries'[w] /\ IsFiniteSet(entries'[w])
        BY <4>1, <1>6, <1>8, FS_Subset
      <4>3. Cardinality(S1) <= Cardinality(entries'[w]) /\ Cardinality(S1) \in Nat
            /\ Cardinality(entries'[w]) \in Nat
        BY <4>2, FS_Subset, FS_CardinalityType
      <4> QED BY <4>3, <2>1, <1>2 DEF GrantedIn
    <3>2. CASE ~(now <= t /\ t - (Window - MaxLag) < now)
      <4>1. S1 = S
        BY <3>2, <1>1, <1>6 DEF GrantedIn
      <4>2. Cardinality(S) <= WindowLimit[w]
        BY <2>0 DEF WindowOK
      <4> QED BY <4>1, <4>2 DEF GrantedIn
    <3> QED BY <3>1, <3>2
  <2> QED BY <2>1, <2>2, <2>3, <2>4 DEF WindowOK
<1> QED BY <1>5, <1>8, <1>9, <1>10, <1>11, <1>12

\* A script that finds none only drops what has left the window.
LEMMA PruneWindow ==
    ASSUME LimiterInv, NEW w \in Windows, NEW now \in Nat, NEW P, P = Pruned(w, now),
           now <= clock, entries' = [entries EXCEPT ![w] = P], UNCHANGED <<granted, clock>>
    PROVE  /\ DOMAIN entries' = Windows
           /\ \A v \in Windows : entries'[v] \subseteq granted[v]
           /\ \A v \in Windows : WindowOK(v)' /\ NumbersOK(v)'
<1> USE DEF LimiterInv
<1>1. clock \in Nat /\ Window \in Nat \ {0}
  BY LimiterAssumption DEF LimiterAssumption, LimiterTyped
<1>2. /\ IsFiniteSet(granted[w]) /\ granted[w] \subseteq Nat \X Nat
      /\ entries[w] \subseteq granted[w] /\ P \subseteq entries[w]
  BY DEF LimiterTyped, Pruned
<1>3. /\ DOMAIN entries' = Windows /\ entries'[w] = P
      /\ \A v \in Windows \ {w} : entries'[v] = entries[v]
  BY DEF LimiterTyped
<1>4. \A v \in Windows : entries'[v] \subseteq granted[v]
  BY <1>2, <1>3 DEF LimiterTyped
<1>5. ASSUME NEW v \in Windows PROVE NumbersOK(v)'
  BY DEF NumbersOK
<1>6. ASSUME NEW v \in Windows, v # w PROVE WindowOK(v)'
  BY <1>6, <1>3 DEF WindowOK, GrantedIn
<1>7. WindowOK(w)'
  <2>0. WindowOK(w)
    OBVIOUS
  <2>1. Cardinality(entries'[w]) <= WindowLimit[w]
    <3>1. IsFiniteSet(entries[w])
      BY <1>2, FS_Subset
    <3>2. /\ Cardinality(P) <= Cardinality(entries[w])
          /\ Cardinality(P) \in Nat /\ Cardinality(entries[w]) \in Nat
      BY <1>2, <3>1, FS_Subset, FS_CardinalityType
    <3>3. WindowLimit[w] \in Nat /\ Cardinality(entries[w]) <= WindowLimit[w]
      BY <2>0, LimiterAssumption DEF LimiterAssumption, Windows, WindowOK
    <3> QED BY <1>3, <3>2, <3>3
  <2>2. ASSUME NEW m \in granted[w] \ P
        PROVE  /\ m[1] \in Nat /\ m[1] <= clock - Window
               /\ m \notin entries[w] \/ m[1] <= now - Window
    <3>2. m[1] \in Nat
      BY <1>2
    <3>3. m \notin entries[w] \/ m[1] <= now - Window
      BY <3>2, <1>1 DEF Pruned
    <3> QED BY <2>0, <3>2, <3>3, <1>1 DEF WindowOK
  <2>3. ASSUME NEW m \in granted[w] \ P, NEW e \in P
        PROVE  m[1] < e[1]
    <3>1. e[1] \in Nat /\ e[1] > now - Window /\ e \in entries[w]
      BY <1>2 DEF Pruned
    <3>2. CASE m \notin entries[w]
      BY <2>0, <2>2, <3>1, <3>2 DEF WindowOK
    <3>3. CASE m[1] <= now - Window
      BY <2>2, <3>1, <3>3, <1>1
    <3> QED BY <2>2, <3>2, <3>3
  <2>4. \A t \in Int : Cardinality(GrantedIn(w, t - (Window - MaxLag), t)) <= WindowLimit[w]
    BY <2>0 DEF WindowOK
  <2> QED BY <1>3, <2>1, <2>2, <2>3, <2>4 DEF WindowOK, GrantedIn
<1> QED BY <1>3, <1>4, <1>5, <1>6, <1>7

\* A step that leaves the windows alone, or the passing of time.
LEMMA SameWindows ==
    ASSUME LimiterInv, UNCHANGED <<entries, granted>>, clock' \in Nat, clock <= clock'
    PROVE  \A v \in Windows : WindowOK(v)' /\ NumbersOK(v)'
<1> USE DEF LimiterInv
<1> SUFFICES ASSUME NEW v \in Windows PROVE WindowOK(v)' /\ NumbersOK(v)'
  OBVIOUS
<1>1. NumbersOK(v)'
  BY DEF NumbersOK
<1>2. ASSUME NEW m \in granted[v] \ entries[v] PROVE m[1] <= clock' - Window
  <2>1. m[1] \in Nat /\ m[1] <= clock - Window /\ clock \in Nat /\ Window \in Nat
    BY LimiterAssumption DEF WindowOK, LimiterTyped, LimiterAssumption
  <2> QED BY <2>1
<1> QED BY <1>1, <1>2 DEF WindowOK, GrantedIn

\* A step that writes one call.
LEMMA OneCall ==
    ASSUME LimiterInv, NEW r \in LimitedCalls, NEW c \in LimitedRecords,
           call' = [call EXCEPT ![r] = c], UNCHANGED clock,
           c.pc # "rejected" => c.on = <<>>,
           c.pc = "script" => /\ c.step = call[r].step /\ c.now = clock
                              /\ NextCheck(r) <= Len(AllowSteps[r])
                              /\ CurrentStep(r)[2] # "slot"
    PROVE  /\ call' \in [LimitedCalls -> LimitedRecords]
           /\ \A s \in LimitedCalls : ScriptOK(s)' /\ OnOK(s)'
<1> USE DEF LimiterInv
<1>1. /\ call' \in [LimitedCalls -> LimitedRecords] /\ call'[r] = c
      /\ \A s \in LimitedCalls \ {r} : call'[s] = call[s]
  BY DEF LimiterTyped
<1>2. clock \in Nat /\ MaxLag \in Nat
  BY LimiterAssumption DEF LimiterAssumption, LimiterTyped
<1>3. ASSUME NEW s \in LimitedCalls PROVE ScriptOK(s)' /\ OnOK(s)'
  <2>1. CASE s = r
    <3>1. OnOK(r)'
      BY <1>1 DEF OnOK
    <3>2. ASSUME c.pc = "script" PROVE ScriptOK(r)'
      <4>1. NextCheck(r)' = NextCheck(r) /\ CurrentStep(r)' = CurrentStep(r)
        BY <1>1, <3>2 DEF NextCheck, CurrentStep
      <4> QED BY <4>1, <1>1, <1>2, <3>2 DEF ScriptOK
    <3>3. ASSUME c.pc # "script" PROVE ScriptOK(r)'
      BY <3>3, <1>1 DEF ScriptOK
    <3> QED BY <2>1, <3>1, <3>2, <3>3
  <2>2. CASE s # r
    <3>1. NextCheck(s)' = NextCheck(s) /\ CurrentStep(s)' = CurrentStep(s)
      BY <1>1, <2>2 DEF NextCheck, CurrentStep
    <3> QED BY <3>1, <2>2, <1>1 DEF ScriptOK, OnOK
  <2> QED BY <2>1, <2>2
<1> QED BY <1>1, <1>3

\* What a script in flight is about to look at.
LEMMA AtScript ==
    ASSUME LimiterInv, NEW r \in LimitedCalls, call[r].pc = "script"
    PROVE  /\ CurrentStep(r) \in Windows /\ CurrentStep(r) \in Checks
           /\ WindowLimit[CurrentStep(r)] > 0
           /\ call[r].now \in Nat /\ call[r].now <= clock /\ clock - call[r].now <= MaxLag
           /\ NextCheck(r) \in Nat
  BY NextCheckLimited DEF LimiterInv, ScriptOK, LimiterTyped, LimitedRecords

Counters == [exists : BOOLEAN, value : Int, expires : Int]

\* A step of one call outside the windows.
LEMMA QuietStep ==
    ASSUME LimiterInv, NEW r \in LimitedCalls, NEW c \in LimitedRecords,
           call' = [call EXCEPT ![r] = c], UNCHANGED <<clock, entries, granted>>,
           inflight' \in [LimitedKeys -> Counters],
           c.pc # "rejected" => c.on = <<>>,
           c.pc = "script" => /\ c.step = call[r].step /\ c.now = clock
                              /\ NextCheck(r) <= Len(AllowSteps[r])
                              /\ CurrentStep(r)[2] # "slot"
    PROVE  LimiterInv'
<1>1. /\ call' \in [LimitedCalls -> LimitedRecords]
      /\ \A s \in LimitedCalls : ScriptOK(s)' /\ OnOK(s)'
  BY OneCall
<1>2. clock' \in Nat /\ clock <= clock'
  BY DEF LimiterInv, LimiterTyped
<1>3. \A v \in Windows : WindowOK(v)' /\ NumbersOK(v)'
  BY <1>2, SameWindows
<1>4. LimiterTyped'
  BY <1>1, <1>2 DEF LimiterInv, LimiterTyped, Counters
<1> QED BY <1>1, <1>3, <1>4 DEF LimiterInv

\* The script of one call records it.
LEMMA EnterStep ==
    ASSUME LimiterInv, NEW r \in LimitedCalls, call[r].pc = "script", HasRoom(r), Entered(r),
           NEW c \in LimitedRecords, call' = [call EXCEPT ![r] = c], UNCHANGED <<clock, inflight>>,
           c.pc \in {"checking", "rejected"}, c.on = <<>>
    PROVE  /\ LimiterInv'
           /\ Cardinality(granted'[CurrentStep(r)])
                = Cardinality(granted[CurrentStep(r)]) + Weight[CurrentStep(r)[2]]
<1>1. PICK w \in Windows, now \in Nat :
        /\ w = CurrentStep(r) /\ now = call[r].now /\ now <= clock /\ clock - now <= MaxLag
  BY AtScript
<1>2. PICK P, N : P = Pruned(w, now) /\ N = NewMembers(w, now)
  OBVIOUS
<1>3. Cardinality(P) + Weight[w[2]] <= WindowLimit[w]
  BY <1>1, <1>2 DEF HasRoom
<1>4. /\ entries' = [entries EXCEPT ![w] = P \cup N]
      /\ granted' = [granted EXCEPT ![w] = granted[w] \cup N]
  BY <1>1, <1>2 DEF Entered
<1>5. /\ DOMAIN entries' = Windows /\ DOMAIN granted' = Windows
      /\ \A v \in Windows : /\ IsFiniteSet(granted'[v]) /\ granted'[v] \subseteq Nat \X Nat
                            /\ entries'[v] \subseteq granted'[v]
      /\ \A v \in Windows : WindowOK(v)' /\ NumbersOK(v)'
      /\ Cardinality(granted'[w]) = Cardinality(granted[w]) + Weight[w[2]]
  BY <1>1, <1>2, <1>3, <1>4, EnterWindow
<1>6. /\ call' \in [LimitedCalls -> LimitedRecords]
      /\ \A s \in LimitedCalls : ScriptOK(s)' /\ OnOK(s)'
  BY OneCall
<1>7. LimiterTyped'
  BY <1>5, <1>6 DEF LimiterInv, LimiterTyped
<1> QED BY <1>1, <1>5, <1>6, <1>7 DEF LimiterInv

\* The script of one call refuses it.
LEMMA NotEnteredStep ==
    ASSUME LimiterInv, NEW r \in LimitedCalls, call[r].pc = "script", NotEntered(r),
           NEW c \in LimitedRecords, call' = [call EXCEPT ![r] = c], UNCHANGED <<clock, inflight>>,
           c.pc = "rejected"
    PROVE  LimiterInv'
<1>1. PICK w \in Windows, now \in Nat :
        /\ w = CurrentStep(r) /\ now = call[r].now /\ now <= clock /\ clock - now <= MaxLag
  BY AtScript
<1>2. PICK P : P = Pruned(w, now)
  OBVIOUS
<1>3. entries' = [entries EXCEPT ![w] = P] /\ UNCHANGED <<granted, clock>>
  BY <1>1, <1>2 DEF NotEntered
<1>4. /\ DOMAIN entries' = Windows /\ \A v \in Windows : entries'[v] \subseteq granted[v]
      /\ \A v \in Windows : WindowOK(v)' /\ NumbersOK(v)'
  BY <1>1, <1>2, <1>3, PruneWindow
<1>5. /\ call' \in [LimitedCalls -> LimitedRecords]
      /\ \A s \in LimitedCalls : ScriptOK(s)' /\ OnOK(s)'
  BY OneCall
<1>6. LimiterTyped'
  BY <1>3, <1>4, <1>5 DEF LimiterInv, LimiterTyped
<1> QED BY <1>4, <1>5, <1>6 DEF LimiterInv

\* Redis counts up or down, whatever is there.
LEMMA AddedTyped ==
    ASSUME LimiterInv, NEW k, NEW n \in Int, Added(k, n)
    PROVE  /\ inflight' \in [LimitedKeys -> Counters]
           /\ k \in LimitedKeys => inflight'[k].value = inflight[k].value + n
           /\ \A j \in LimitedKeys : j # k => inflight'[j] = inflight[j]
<1>1. inflight \in [LimitedKeys -> Counters]
  BY DEF LimiterInv, LimiterTyped, Counters
<1>2. ASSUME NEW j \in LimitedKeys, j # k PROVE inflight'[j] = inflight[j]
  BY <1>1, <1>2 DEF Added
<1>3. ASSUME k \in LimitedKeys
      PROVE  inflight'[k] \in Counters /\ inflight'[k].value = inflight[k].value + n
  <2>1. PICK v \in Int : v = inflight[k].value + n
    BY <1>1, <1>3 DEF Counters
  <2>2. inflight'[k] = [inflight[k] EXCEPT !.exists = TRUE, !.value = v]
    BY <1>1, <1>3, <2>1 DEF Added
  <2>3. inflight[k] \in Counters
    BY <1>1, <1>3
  <2> QED BY <2>1, <2>2, <2>3 DEF Counters
<1>4. DOMAIN inflight' = LimitedKeys /\ inflight' = [j \in LimitedKeys |-> inflight'[j]]
  BY <1>1 DEF Added
<1> QED BY <1>1, <1>2, <1>3, <1>4

\* What a rejection reports is a number of seconds.
LEMMA EarliestTyped ==
    ASSUME NEW P \in SUBSET (Nat \X Nat), NEW now \in Nat
    PROVE  /\ Earliest(P, now) \in Nat
           /\ P # {} => \E e \in P : e[1] = Earliest(P, now)
<1>1. CASE P = {}
  BY <1>1 DEF Earliest
<1>2. CASE P # {}
  <2> DEFINE T == {m[1] : m \in P}
  <2>1. T \subseteq Nat /\ T # {}
    BY <1>2
  <2>2. \E x \in T : \A y \in T : x <= y
    BY <2>1, LeastNatural
  <2>3. Min(T) \in T
    BY <2>2 DEF Min
  <2>4. Earliest(P, now) = Min(T)
    BY <1>2 DEF Earliest
  <2> QED BY <2>1, <2>3, <2>4
<1> QED BY <1>1, <1>2

\* The limiter starts empty.
LEMMA LimiterInitOK == LimiterInit => LimiterInv
<1> SUFFICES ASSUME LimiterInit PROVE LimiterInv
  OBVIOUS
<1>1. DOMAIN WindowLimit = Windows /\ WindowLimit \in [Windows -> Nat]
  BY LimiterAssumption DEF LimiterAssumption, Windows
<1>2. NewCall \in LimitedRecords
  BY DEF NewCall, LimitedRecords
<1>3. LimiterTyped
  BY <1>1, <1>2, FS_EmptySet DEF LimiterInit, LimiterTyped, NoCounter
<1>4. ASSUME NEW w \in Windows PROVE WindowOK(w) /\ NumbersOK(w)
  <2>1. entries[w] = {} /\ granted[w] = {} /\ WindowLimit[w] \in Nat
    BY <1>1 DEF LimiterInit
  <2>2. \A t \in Int : GrantedIn(w, t - (Window - MaxLag), t) = {}
    BY <2>1 DEF GrantedIn
  <2> QED BY <2>1, <2>2, FS_EmptySet DEF WindowOK, NumbersOK
<1>5. \A r \in LimitedCalls : ScriptOK(r) /\ OnOK(r)
  BY DEF LimiterInit, NewCall, ScriptOK, OnOK
<1> QED BY <1>3, <1>4, <1>5 DEF LimiterInv

\* Every step of every call, and time, keep the limiter's invariant.
LEMMA LimiterStep == LimiterInv /\ [LimiterNext]_limiterVars => LimiterInv'
<1> SUFFICES ASSUME LimiterInv, [LimiterNext]_limiterVars PROVE LimiterInv'
  OBVIOUS
<1>t. /\ inflight \in [LimitedKeys -> Counters] /\ call \in [LimitedCalls -> LimitedRecords]
      /\ \A r \in LimitedCalls : call[r].pc # "rejected" => call[r].on = <<>>
      /\ clock \in Nat
  BY DEF LimiterInv, LimiterTyped, Counters, OnOK
<1>u. \A r \in LimitedCalls : KeyOf[r] \in LimitedKeys
  BY DEF LimitedKeys
<1>1. CASE UNCHANGED limiterVars
  BY <1>1 DEF limiterVars, LimiterInv, LimiterTyped, ScriptOK, OnOK, WindowOK, NumbersOK,
              NextCheck, CurrentStep, GrantedIn
<1>2. ASSUME NEW r \in LimitedCalls, ReadClock(r) PROVE LimiterInv'
  <2>1. PICK c : c = [call[r] EXCEPT !.pc = "script", !.now = clock]
    OBVIOUS
  <2>2. /\ c \in LimitedRecords /\ c.pc = "script" /\ c.step = call[r].step /\ c.now = clock
        /\ c.on = call[r].on
    BY <1>t, <2>1 DEF LimitedRecords
  <2>3. call' = [call EXCEPT ![r] = c] /\ call[r].pc = "checking"
    BY <1>t, <1>2, <2>1 DEF ReadClock, AtWindow
  <2>4. /\ UNCHANGED <<clock, entries, granted>> /\ inflight' \in [LimitedKeys -> Counters]
        /\ NextCheck(r) <= Len(AllowSteps[r]) /\ CurrentStep(r)[2] # "slot"
    BY <1>t, <1>2 DEF ReadClock, AtWindow
  <2>5. c.pc # "rejected" => c.on = <<>>
    BY <1>t, <2>2, <2>3
  <2> QED BY <2>2, <2>3, <2>4, <2>5, QuietStep
<1>3. ASSUME NEW r \in LimitedCalls, PassWindow(r) PROVE LimiterInv'
  <2>1. NextCheck(r) \in Nat
    BY <1>3, AtScript DEF PassWindow
  <2>2. PICK n : n = NextCheck(r) + 1
    OBVIOUS
  <2>3. PICK c : c = [call[r] EXCEPT !.pc = "checking", !.step = n, !.now = 0]
    OBVIOUS
  <2>4. n \in Nat \ {0}
    BY <2>1, <2>2
  <2>5. c \in LimitedRecords /\ c.pc = "checking" /\ c.on = call[r].on
    BY <1>t, <2>3, <2>4 DEF LimitedRecords
  <2>6. call' = [call EXCEPT ![r] = c]
    BY <1>t, <1>3, <2>2, <2>3 DEF PassWindow, NextStep
  <2> QED BY <1>t, <1>3, <2>5, <2>6, EnterStep DEF PassWindow
<1>4. ASSUME NEW r \in LimitedCalls, RejectByWindow(r) PROVE LimiterInv'
  <2>1. /\ CurrentStep(r) \in Windows /\ CurrentStep(r) \in Checks /\ call[r].now \in Nat
    BY <1>4, AtScript DEF RejectByWindow
  <2>2. Pruned(CurrentStep(r), call[r].now) \in SUBSET (Nat \X Nat)
    BY <2>1 DEF Pruned, LimiterInv, LimiterTyped
  <2>3. PICK e \in Nat : e = Earliest(Pruned(CurrentStep(r), call[r].now), call[r].now)
    BY <2>1, <2>2, EarliestTyped
  <2>4. PICK n : n = (e + Window - call[r].now) \div Second + 1
    OBVIOUS
  <2>5. n \in Int
    <3>1. Window \in Nat /\ Second \in Nat \ {0}
      BY LimiterAssumption DEF LimiterAssumption
    <3>2. PICK t \in Int : t = e + Window - call[r].now
      BY <2>1, <3>1
    <3> QED BY <2>4, <3>1, <3>2
  <2>6. PICK w : w = CurrentStep(r)
    OBVIOUS
  <2>7. PICK c : /\ c \in {[call[r] EXCEPT !.pc = "rejected", !.retry = n, !.on = w],
                           [call[r] EXCEPT !.pc = "rejected"]}
                 /\ call' = [call EXCEPT ![r] = c]
    BY <1>t, <1>4, <2>3, <2>4, <2>6 DEF RejectByWindow, Rejected
  <2>8. c \in LimitedRecords /\ c.pc = "rejected"
    <3>1. call[r] \in LimitedRecords /\ w \in {<<>>} \cup Checks
      BY <1>t, <2>1, <2>6
    <3> QED BY <2>5, <2>7, <3>1 DEF LimitedRecords
  <2>9. call' = [call EXCEPT ![r] = c]
    BY <2>7
  <2> QED BY <1>4, <2>8, <2>9, NotEnteredStep DEF RejectByWindow
<1>5. ASSUME NEW r \in LimitedCalls, NEW ran \in BOOLEAN, RejectByError(r, ran)
      PROVE  LimiterInv'
  <2>1. PICK c : c = [call[r] EXCEPT !.pc = "rejected"]
    OBVIOUS
  <2>2. c \in LimitedRecords /\ c.pc = "rejected" /\ c.on = call[r].on
    BY <1>t, <2>1 DEF LimitedRecords
  <2>3. call' = [call EXCEPT ![r] = c] /\ call[r].pc = "script" /\ UNCHANGED <<clock, inflight>>
    BY <1>t, <1>5, <2>1 DEF RejectByError
  <2>4. CASE HasRoom(r) /\ Entered(r)
    BY <1>t, <2>2, <2>3, <2>4, EnterStep
  <2>5. CASE NotEntered(r)
    BY <2>2, <2>3, <2>5, NotEnteredStep
  <2>6. CASE UNCHANGED <<entries, granted>>
    BY <1>t, <2>2, <2>3, <2>6, QuietStep
  <2> QED BY <1>5, <2>4, <2>5, <2>6 DEF RejectByError
<1>6. ASSUME NEW r \in LimitedCalls, LookupError(r) PROVE LimiterInv'
  <2>1. PICK n \in Nat \ {0} : n = Len(AllowSteps[r]) + 1
    BY ChecksTyped
  <2>2. PICK c : c = [call[r] EXCEPT !.step = n]
    OBVIOUS
  <2>3. c \in LimitedRecords /\ c.pc = call[r].pc /\ c.on = call[r].on /\ call[r].pc = "checking"
    BY <1>t, <1>6, <2>2 DEF LimitedRecords, LookupError
  <2>4. call' = [call EXCEPT ![r] = c]
    BY <1>t, <1>6, <2>1, <2>2 DEF LookupError
  <2> QED BY <1>t, <1>6, <2>3, <2>4, QuietStep DEF LookupError
<1>7. ASSUME NEW r \in LimitedCalls, NEW pc \in {"expire", "incr", "decr", "serving", "rejected", "done"},
             call[r].pc # "rejected",
             call' = [call EXCEPT ![r].pc = pc] \/ call' = [call EXCEPT ![r].pc = pc, ![r].holds = FALSE],
             UNCHANGED <<clock, entries, granted>>, inflight' \in [LimitedKeys -> Counters]
      PROVE  LimiterInv'
  <2>1. PICK c : /\ c \in {[call[r] EXCEPT !.pc = pc], [call[r] EXCEPT !.pc = pc, !.holds = FALSE]}
                 /\ call' = [call EXCEPT ![r] = c]
    BY <1>t, <1>7
  <2>2. c \in LimitedRecords /\ c.pc = pc /\ c.on = call[r].on
    <3>1. call[r] \in LimitedRecords
      BY <1>t
    <3>2. CASE c = [call[r] EXCEPT !.pc = pc]
      BY <3>1, <3>2 DEF LimitedRecords
    <3>3. CASE c = [call[r] EXCEPT !.pc = pc, !.holds = FALSE]
      BY <3>1, <3>3 DEF LimitedRecords
    <3> QED BY <2>1, <3>2, <3>3
  <2> QED BY <1>t, <1>7, <2>1, <2>2, QuietStep
<1>8. ASSUME NEW r \in LimitedCalls, AcquireTTL(r) PROVE LimiterInv'
  BY <1>t, <1>7, <1>8 DEF AcquireTTL, AtSlot
<1>9. ASSUME NEW r \in LimitedCalls, AcquireExpire(r) PROVE LimiterInv'
  <2>1. inflight' \in [LimitedKeys -> Counters]
    <3>1. PICK n \in Int : n = clock + 2 * Window
      BY <1>t, LimiterAssumption DEF LimiterAssumption
    <3>2. inflight' \in {inflight, [inflight EXCEPT ![Key(r)].expires = n]}
      BY <1>9, <3>1 DEF AcquireExpire
    <3> QED BY <1>t, <3>2, ZenonT(30) DEF Counters
  <2> QED BY <1>7, <1>9, <2>1 DEF AcquireExpire
<1>10. ASSUME NEW r \in LimitedCalls, AcquireIncr(r) PROVE LimiterInv'
  <2>1. inflight' \in [LimitedKeys -> Counters]
    BY <1>10, AddedTyped DEF AcquireIncr
  <2>2. CASE call' = [call EXCEPT ![r].pc = "decr"]
    BY <1>7, <1>10, <2>1, <2>2 DEF AcquireIncr
  <2>3. CASE call' = [call EXCEPT ![r] = [@ EXCEPT !.pc = "checking", !.step = NextCheck(r) + 1,
                                                   !.holds = TRUE]]
    <3>1. PICK n \in Nat \ {0} : n = NextCheck(r) + 1
      BY NextCheckLimited DEF LimiterInv
    <3>2. PICK c : c = [call[r] EXCEPT !.pc = "checking", !.step = n, !.holds = TRUE]
      OBVIOUS
    <3>3. c \in LimitedRecords /\ c.pc = "checking" /\ c.on = call[r].on
      BY <1>t, <3>2 DEF LimitedRecords
    <3>4. call' = [call EXCEPT ![r] = c]
      BY <1>t, <2>3, <3>1, <3>2
    <3> QED BY <1>t, <1>10, <2>1, <3>3, <3>4, QuietStep, ZenonT(30) DEF AcquireIncr
  <2> QED BY <1>t, <1>10, <2>2, <2>3 DEF AcquireIncr
<1>11. ASSUME NEW r \in LimitedCalls, NEW applied \in BOOLEAN, AcquireError(r, applied)
       PROVE  LimiterInv'
  <2>1. inflight' \in [LimitedKeys -> Counters]
    BY <1>t, <1>11, AddedTyped DEF AcquireError
  <2> QED BY <1>7, <1>11, <2>1 DEF AcquireError
<1>12. ASSUME NEW r \in LimitedCalls, AcquireDecr(r) PROVE LimiterInv'
  <2>1. inflight' \in [LimitedKeys -> Counters]
    BY <1>12, AddedTyped DEF AcquireDecr
  <2> QED BY <1>7, <1>12, <2>1 DEF AcquireDecr
<1>13. ASSUME NEW r \in LimitedCalls, Admit(r) PROVE LimiterInv'
  BY <1>t, <1>7, <1>13 DEF Admit
<1>14. ASSUME NEW r \in LimitedCalls, Done(r) PROVE LimiterInv'
  <2>1. inflight' \in [LimitedKeys -> Counters]
    BY <1>14, AddedTyped DEF Done
  <2> QED BY <1>7, <1>14, <2>1 DEF Done
<1>15. ASSUME NEW r \in LimitedCalls, DoneCancelled(r) PROVE LimiterInv'
  BY <1>t, <1>7, <1>15 DEF DoneCancelled
<1>16. CASE LimiterTick
  <2>1. clock' \in Nat /\ clock <= clock' /\ clock' = clock + 1 /\ UNCHANGED <<entries, call, granted>>
    BY <1>t, <1>16 DEF LimiterTick
  <2>2. \A v \in Windows : WindowOK(v)' /\ NumbersOK(v)'
    BY <2>1, SameWindows
  <2>3. inflight' \in [LimitedKeys -> Counters]
    BY <1>t, <1>16 DEF LimiterTick, NoCounter, Counters
  <2>4. LimiterTyped'
    BY <2>1, <2>3 DEF LimiterInv, LimiterTyped, Counters
  <2>5. ASSUME NEW r \in LimitedCalls PROVE ScriptOK(r)' /\ OnOK(r)'
    <3>1. NextCheck(r)' = NextCheck(r) /\ CurrentStep(r)' = CurrentStep(r)
      BY <2>1 DEF NextCheck, CurrentStep
    <3>2. call[r].pc = "script" => clock - call[r].now < MaxLag
      BY <1>16 DEF LimiterTick
    <3>3. call[r].now \in Nat /\ MaxLag \in Nat
      BY <1>t, LimiterAssumption DEF LimitedRecords, LimiterAssumption
    <3> QED BY <1>t, <2>1, <3>1, <3>2, <3>3 DEF LimiterInv, ScriptOK, OnOK
  <2> QED BY <2>2, <2>4, <2>5 DEF LimiterInv
<1> QED BY <1>1, <1>2, <1>3, <1>4, <1>5, <1>6, <1>8, <1>9, <1>10, <1>11, <1>12, <1>13, <1>14,
           <1>15, <1>16 DEF LimiterNext, LimitedStep, LimitedFault

\* The invariant of windows, counters and calls.
THEOREM LimiterInvariant == LimiterSpec => []LimiterInv
  BY LimiterInitOK, LimiterStep, PTL DEF LimiterSpec

\* windowScript, however the scripts of several gateways interleave and
\* whatever errors their callers see: no stretch of a window's length less the
\* age of a clock reading holds more than the limit.
THEOREM WindowsAreBounded == LimiterSpec => []WindowBound
<1>1. LimiterInv => WindowBound
  BY LimiterAssumption DEF LimiterInv, LimiterTyped, WindowOK, WindowBound, LimiterAssumption, Windows
<1> QED BY <1>1, LimiterInvariant, PTL

-----------------------------------------------------------------------------
(* The retry-after *)

\* A rejection of a window of requests, with the reading it went by.
RejectedByRPM(c) == c.pc = "rejected" /\ c.on # <<>> /\ c.on[2] = "rpm"

\* What counts against the request when it comes back after the wait.
Behind(c) == GrantedIn(c.on, (c.now + c.retry * Second) - Window, c.now)

\* The wait is at least a second, and it is long enough: either the window
\* has been full ever since, or one with a later reading has been let in.
RetryOK(c) ==
    RejectedByRPM(c) =>
        /\ c.on \in Windows /\ c.now + Second <= c.now + c.retry * Second
        /\ Cardinality(Behind(c)) < WindowLimit[c.on]
        /\ \/ Cardinality(Pruned(c.on, c.now)) >= WindowLimit[c.on]
           \/ \E m \in granted[c.on] : m[1] > c.now

RetryInv == LimiterInv /\ \A r \in LimitedCalls : RetryOK(call[r])

\* Rounded down and one more: later than the time it was computed from.
LEMMA RoundedUp ==
    ASSUME NEW x \in Nat, NEW n, n = x \div Second + 1
    PROVE  n \in Nat \ {0} /\ n * Second > x /\ n * Second >= Second
<1>1. Second \in Nat \ {0}
  BY LimiterAssumption DEF LimiterAssumption
<1>2. PICK q \in Nat : q = x \div Second
  BY <1>1
<1>3. x = Second * q + (x % Second) /\ x % Second < Second /\ x % Second \in Nat
  BY <1>1, <1>2
<1>4. n * Second = q * Second + Second
  BY <1>1, <1>2
<1>5. q * Second \in Nat
  BY <1>1, <1>2
<1> QED BY <1>1, <1>2, <1>3, <1>4, <1>5

\* Sets of members are counted by inclusion.
LEMMA Fewer ==
    ASSUME NEW S, NEW T, IsFiniteSet(T), S \subseteq T
    PROVE  /\ IsFiniteSet(S) /\ Cardinality(S) \in Nat /\ Cardinality(T) \in Nat
           /\ Cardinality(S) <= Cardinality(T)
           /\ \A x \in T \ S : Cardinality(S) + 1 <= Cardinality(T)
<1>1. IsFiniteSet(S) /\ Cardinality(S) <= Cardinality(T) /\ (Cardinality(S) = Cardinality(T) => S = T)
  BY FS_Subset
<1>2. Cardinality(S) \in Nat /\ Cardinality(T) \in Nat
  BY <1>1, FS_CardinalityType
<1> QED BY <1>1, <1>2

\* An admission does not take back the promise made to a rejected request.
LEMMA EnterKeepsRetry ==
    ASSUME RetryInv, MaxLag <= Second, NEW w \in Windows, NEW now \in Nat, NEW P, NEW N,
           P = Pruned(w, now), N = NewMembers(w, now),
           now <= clock, clock - now <= MaxLag,
           Cardinality(P) + Weight[w[2]] <= WindowLimit[w],
           entries' = [entries EXCEPT ![w] = P \cup N],
           granted' = [granted EXCEPT ![w] = granted[w] \cup N],
           NEW c \in LimitedRecords, RetryOK(c), RejectedByRPM(c)
    PROVE  RetryOK(c)'
<1> USE DEF RetryInv, LimiterInv
<1>t. /\ clock \in Nat /\ Window \in Nat \ {0} /\ MaxLag \in Nat /\ Second \in Nat \ {0}
      /\ WindowLimit \in [Windows -> Nat] /\ Weight["rpm"] = 1
      /\ c.now \in Nat /\ c.retry \in Int /\ c.retry * Second \in Int
      /\ c.on \in Windows /\ c.on[2] = "rpm" /\ c.now + Second <= c.now + c.retry * Second
  BY LimiterAssumption
     DEF LimiterAssumption, LimiterTyped, Windows, LimitedRecords, RetryOK, RejectedByRPM
<1>1. /\ \A v \in Windows \ {w} : entries'[v] = entries[v] /\ granted'[v] = granted[v]
      /\ entries'[w] = P \cup N /\ granted'[w] = granted[w] \cup N
  BY DEF LimiterTyped
<1>2. CASE c.on # w
  BY <1>t, <1>1, <1>2 DEF RetryOK, RejectedByRPM, Behind, GrantedIn, Pruned
<1>3. CASE c.on = w
  <2>1. /\ IsFiniteSet(N) /\ Cardinality(N) = 1 /\ \A m \in N : m[1] = now
    BY <1>t, <1>3, NewMembersCount
  <2>2. PICK x : N = {x} /\ x[1] = now
    BY <2>1, FS_Singleton
  <2>3. PICK later \in Int : later = c.now + c.retry * Second /\ c.now + Second <= later
    BY <1>t
  <2> DEFINE Q == {m \in granted[w] : later - Window < m[1] /\ m[1] <= c.now}
             Q1 == {m \in granted'[w] : later - Window < m[1] /\ m[1] <= c.now}
  <2>b. Behind(c) = Q /\ Behind(c)' = Q1
    <3>1. /\ Behind(c) = {m \in granted[w] :
                            (c.now + c.retry * Second) - Window < m[1] /\ m[1] <= c.now}
          /\ Behind(c)' = {m \in granted'[w] :
                            (c.now + c.retry * Second) - Window < m[1] /\ m[1] <= c.now}
      BY <1>3 DEF Behind, GrantedIn
    <3>2. (c.now + c.retry * Second) - Window = later - Window
      BY <1>t, <2>3
    <3> QED BY <3>1, <3>2
  <2>4. Cardinality(Q) < WindowLimit[w]
    BY <1>3, <2>b DEF RetryOK
  <2> HIDE DEF Q, Q1
  <2>5. SUFFICES /\ Cardinality(Q1) < WindowLimit[w]
                 /\ \E m \in granted'[w] : m[1] > c.now
    BY <1>t, <1>3, <2>b DEF RetryOK
  <2>6. CASE now > c.now
    <3>1. Q1 = Q
      BY <1>1, <1>t, <2>2, <2>6 DEF Q, Q1
    <3>2. x \in granted'[w] /\ x[1] > c.now
      BY <1>1, <2>2, <2>6
    <3> QED BY <2>4, <3>1, <3>2
  <2>7. CASE now <= c.now
    <3>0. /\ IsFiniteSet(P) /\ IsFiniteSet(granted[w]) /\ granted[w] \subseteq Nat \X Nat
          /\ Cardinality(P) \in Nat
      <4>1. P \subseteq granted[w] /\ IsFiniteSet(granted[w]) /\ granted[w] \subseteq Nat \X Nat
        BY DEF LimiterTyped, Pruned
      <4> QED BY <4>1, Fewer
    <3>1. Cardinality(P) + 1 <= WindowLimit[w] /\ WindowLimit[w] \in Nat
      BY <1>t, <1>3
    <3>2. ~(Cardinality(Pruned(w, c.now)) >= WindowLimit[w])
      <4>1. Pruned(w, c.now) \subseteq P
        <5>1. ASSUME NEW m \in Pruned(w, c.now) PROVE m \in P
          <6>1. m \in entries[w] /\ m[1] \in Nat /\ m[1] > c.now - Window
            BY <3>0 DEF Pruned, LimiterTyped
          <6>2. m[1] > now - Window
            BY <6>1, <2>7, <1>t
          <6> QED BY <6>1, <6>2 DEF Pruned
        <5> QED BY <5>1
      <4>2. Cardinality(Pruned(w, c.now)) <= Cardinality(P) /\ Cardinality(Pruned(w, c.now)) \in Nat
        BY <4>1, <3>0, Fewer
      <4> QED BY <3>0, <3>1, <4>2
    <3>3. PICK m \in granted[w] : m[1] > c.now
      BY <1>3, <3>2 DEF RetryOK
    <3>4. ASSUME NEW g \in granted[w], later - Window < g[1] PROVE g \in P
      <4>1. g[1] \in Nat
        BY <3>0
      <4>2. g[1] > clock - Window /\ g[1] > now - Window
        BY <4>1, <3>4, <2>3, <2>7, <1>t
      <4>3. g \in entries[w]
        BY <4>1, <4>2, <1>t DEF WindowOK
      <4> QED BY <4>2, <4>3 DEF Pruned
    <3>12. m \in granted'[w]
      BY <1>1
    <3>e. CASE later - Window >= c.now
      <4>1. \A g \in granted'[w] : g[1] \in Nat
        BY <1>1, <2>2, <3>0
      <4>2. Q1 = Q
        BY <1>1, <1>t, <2>2, <2>7, <3>0, <3>e, <4>1 DEF Q, Q1
      <4> QED BY <2>4, <3>3, <3>12, <4>2
    <3> SUFFICES ASSUME later - Window < c.now PROVE Cardinality(Q1) < WindowLimit[w]
      BY <1>t, <3>3, <3>12, <3>e
    <3>5. m \in P /\ m \notin Q
      <4>1. m[1] \in Nat /\ later - Window < m[1] /\ ~(m[1] <= c.now)
        BY <3>0, <3>3, <1>t
      <4> QED BY <3>4, <4>1 DEF Q
    <3>6. Q \subseteq P
      BY <3>4 DEF Q
    <3>7. Cardinality(Q) + 1 <= Cardinality(P) /\ IsFiniteSet(Q) /\ Cardinality(Q) \in Nat
      BY <3>0, <3>5, <3>6, Fewer
    <3>8. Q1 \subseteq Q \cup {x}
      BY <1>1, <2>2 DEF Q, Q1
    <3>9. IsFiniteSet(Q \cup {x}) /\ Cardinality(Q \cup {x}) <= Cardinality(Q) + 1
      <4>1. /\ IsFiniteSet(Q \cup {x})
            /\ Cardinality(Q \cup {x}) = IF x \in Q THEN Cardinality(Q) ELSE Cardinality(Q) + 1
        BY <3>7, FS_AddElement
      <4> QED BY <3>7, <4>1
    <3>10. Cardinality(Q1) <= Cardinality(Q \cup {x}) /\ Cardinality(Q1) \in Nat
           /\ Cardinality(Q \cup {x}) \in Nat
      BY <3>8, <3>9, Fewer
    <3>11. Cardinality(Q1) < WindowLimit[w]
      BY <3>0, <3>1, <3>7, <3>9, <3>10
    <3> QED BY <3>11
  <2> QED BY <1>t, <2>6, <2>7
<1> QED BY <1>2, <1>3

\* Nor does a rejection: a full window that loses members to it is still full.
LEMMA PruneKeepsRetry ==
    ASSUME RetryInv, NEW w \in Windows, NEW now \in Nat, NEW P, P = Pruned(w, now),
           ~(Cardinality(P) + Weight[w[2]] <= WindowLimit[w]),
           entries' = [entries EXCEPT ![w] = P], UNCHANGED granted,
           NEW c \in LimitedRecords, RetryOK(c), RejectedByRPM(c)
    PROVE  RetryOK(c)'
<1> USE DEF RetryInv, LimiterInv
<1>t. /\ Window \in Nat \ {0} /\ Weight["rpm"] = 1 /\ WindowLimit \in [Windows -> Nat]
      /\ c.now \in Nat /\ c.on \in Windows /\ c.on[2] = "rpm"
  BY LimiterAssumption
     DEF LimiterAssumption, LimiterTyped, Windows, LimitedRecords, RetryOK, RejectedByRPM
<1>1. (\A v \in Windows \ {w} : entries'[v] = entries[v]) /\ entries'[w] = P
  BY DEF LimiterTyped
<1>2. Behind(c)' = Behind(c)
  BY DEF Behind, GrantedIn
<1>3. SUFFICES ASSUME Cardinality(Pruned(c.on, c.now)) >= WindowLimit[c.on]
               PROVE  Cardinality(Pruned(c.on, c.now)') >= WindowLimit[c.on]
  BY <1>2 DEF RetryOK, RejectedByRPM
<1>4. CASE c.on # w
  BY <1>t, <1>1, <1>3, <1>4 DEF Pruned
<1>5. CASE c.on = w
  <2>0. \A m \in entries[w] : m[1] \in Nat
    BY DEF LimiterTyped
  <2>1. CASE now <= c.now
    <3>1. Pruned(c.on, c.now)' = Pruned(c.on, c.now)
      BY <1>t, <1>1, <1>5, <2>0, <2>1 DEF Pruned
    <3> QED BY <1>3, <3>1
  <2>2. CASE c.now < now
    <3>1. Pruned(c.on, c.now)' = P
      BY <1>t, <1>1, <1>5, <2>0, <2>2 DEF Pruned
    <3>2. Cardinality(P) \in Nat
      <4>1. P \subseteq granted[w] /\ IsFiniteSet(granted[w])
        BY DEF LimiterTyped, Pruned
      <4> QED BY <4>1, Fewer
    <3>3. Cardinality(P) >= WindowLimit[w]
      BY <1>t, <1>5, <3>2
    <3> QED BY <1>5, <3>1, <3>3
  <2> QED BY <1>t, <2>1, <2>2
<1> QED BY <1>4, <1>5

\* The promise as it is made: the oldest member will have left, and all that
\* is not in the set is older still.
LEMMA RejectionIsLongEnough ==
    ASSUME RetryInv, NEW w \in Windows, NEW now \in Nat, NEW P, P = Pruned(w, now),
           WindowLimit[w] > 0, ~(Cardinality(P) + Weight[w[2]] <= WindowLimit[w]),
           entries' = [entries EXCEPT ![w] = P], UNCHANGED granted,
           NEW c \in LimitedRecords, c.on = w, c.now = now,
           c.retry = (Earliest(P, now) + Window - now) \div Second + 1
    PROVE  RetryOK(c)'
<1> USE DEF RetryInv, LimiterInv
<1> SUFFICES ASSUME w[2] = "rpm" PROVE RetryOK(c)'
  BY DEF RetryOK, RejectedByRPM
<1>t. /\ Window \in Nat \ {0} /\ Weight["rpm"] = 1 /\ WindowLimit[w] \in Nat \ {0}
      /\ Second \in Nat \ {0}
  BY LimiterAssumption DEF LimiterAssumption, Windows
<1>1. /\ P \subseteq entries[w] /\ entries[w] \subseteq granted[w] /\ IsFiniteSet(granted[w])
      /\ granted[w] \subseteq Nat \X Nat /\ WindowOK(w)
  BY DEF LimiterTyped, Pruned
<1>2. /\ IsFiniteSet(entries[w]) /\ IsFiniteSet(P) /\ Cardinality(P) \in Nat
      /\ Cardinality(P) <= Cardinality(entries[w]) /\ Cardinality(entries[w]) \in Nat
  BY <1>1, Fewer
<1>3. Cardinality(P) >= WindowLimit[w] /\ Cardinality(P) <= WindowLimit[w]
  BY <1>t, <1>1, <1>2 DEF WindowOK
<1>4. P # {}
  <2>1. Cardinality(P) # 0
    BY <1>t, <1>2, <1>3
  <2> QED BY <2>1, FS_EmptySet
<1>5. PICK e \in P : e[1] = Earliest(P, now) /\ e[1] \in Nat
  <2>1. P \in SUBSET (Nat \X Nat)
    BY <1>1
  <2> QED BY <1>4, <2>1, EarliestTyped
<1>6. e[1] > now - Window
  BY DEF Pruned
<1>7. PICK d \in Nat : d = e[1] + Window - now
  BY <1>5, <1>6, <1>t
<1>8. c.retry \in Nat \ {0} /\ c.retry * Second > d /\ c.retry * Second >= Second
  BY <1>5, <1>7, RoundedUp
<1>9. PICK later \in Int : later = now + c.retry * Second
  BY <1>8, <1>t
<1>10. later - Window > e[1]
  BY <1>t, <1>5, <1>7, <1>8, <1>9
<1> DEFINE Q == {m \in granted[w] : later - Window < m[1] /\ m[1] <= now}
<1>11. Behind(c)' = Q
  <2>1. Behind(c)' = {m \in granted[w] :
                        (now + c.retry * Second) - Window < m[1] /\ m[1] <= now}
    BY DEF Behind, GrantedIn
  <2>2. (now + c.retry * Second) - Window = later - Window
    BY <1>t, <1>8, <1>9
  <2> QED BY <2>1, <2>2
<1>12. ASSUME NEW m \in Q PROVE m \in P /\ m # e
  <2>1. m[1] \in Nat /\ m[1] > e[1] /\ m \in granted[w]
    BY <1>1, <1>5, <1>10, <1>t
  <2>2. m \in entries[w]
    BY <1>1, <1>5, <2>1 DEF WindowOK
  <2>3. m[1] > now - Window
    BY <1>5, <1>6, <2>1, <1>t
  <2> QED BY <2>1, <2>2, <2>3, <1>5 DEF Pruned
<1> HIDE DEF Q
<1>13. Cardinality(Q) + 1 <= Cardinality(P) /\ Cardinality(Q) \in Nat
  BY <1>2, <1>12, Fewer
<1>14. entries'[w] = P
  BY DEF LimiterTyped
<1>15. Pruned(w, now)' = P
  BY <1>14 DEF Pruned
<1>16. Cardinality(Q) < WindowLimit[w]
  BY <1>t, <1>2, <1>3, <1>13
<1>17. now + Second <= now + c.retry * Second
  BY <1>t, <1>8
<1>18. Pruned(c.on, c.now)' = P
  BY <1>15
<1> QED BY <1>3, <1>11, <1>16, <1>17, <1>18 DEF RetryOK

\* One call moves on, the others stay, and no promise is broken.
LEMMA RetryOthers ==
    ASSUME RetryInv, NEW r \in LimitedCalls, call' \in [LimitedCalls -> LimitedRecords],
           \A s \in LimitedCalls \ {r} : call'[s] = call[s],
           RetryOK(call[r])',
           \A c \in LimitedRecords : RetryOK(c) /\ RejectedByRPM(c) => RetryOK(c)'
    PROVE  \A s \in LimitedCalls : RetryOK(call[s])'
<1> SUFFICES ASSUME NEW s \in LimitedCalls, s # r PROVE RetryOK(call[s])'
  OBVIOUS
<1>1. PICK c \in LimitedRecords : c = call[s] /\ c = call'[s] /\ RetryOK(c)
  BY DEF RetryInv, LimiterInv, LimiterTyped
<1>2. CASE RejectedByRPM(c)
  <2>1. RetryOK(c)'
    BY <1>1, <1>2
  <2> QED BY <1>1, <2>1
<1>3. CASE ~RejectedByRPM(c)
  BY <1>1, <1>3 DEF RetryOK, RejectedByRPM
<1> QED BY <1>2, <1>3

\* Outside the windows a call neither gets nor loses a promise.
LEMMA RetryQuiet ==
    ASSUME RetryInv, NEW r \in LimitedCalls, call' \in [LimitedCalls -> LimitedRecords],
           \A s \in LimitedCalls \ {r} : call'[s] = call[s],
           call'[r].on = <<>>, UNCHANGED <<entries, granted>>
    PROVE  \A s \in LimitedCalls : RetryOK(call[s])'
<1>1. RetryOK(call[r])'
  BY DEF RetryOK, RejectedByRPM
<1>2. \A c \in LimitedRecords : RetryOK(c) /\ RejectedByRPM(c) => RetryOK(c)'
  BY DEF RetryOK, RejectedByRPM, Behind, GrantedIn, Pruned
<1> QED BY <1>1, <1>2, RetryOthers

\* The promises hold from step to step.
LEMMA RetryStep ==
    ASSUME MaxLag <= Second, RetryInv, [LimiterNext]_limiterVars
    PROVE  RetryInv'
<1>i. LimiterInv /\ LimiterInv'
  BY LimiterStep DEF RetryInv
<1>t. /\ call \in [LimitedCalls -> LimitedRecords] /\ call' \in [LimitedCalls -> LimitedRecords]
      /\ \A r \in LimitedCalls : call[r].pc # "rejected" => call[r].on = <<>>
  BY <1>i DEF LimiterInv, LimiterTyped, OnOK
<1> SUFFICES \A s \in LimitedCalls : RetryOK(call[s])'
  BY <1>i DEF RetryInv
<1>1. CASE UNCHANGED <<entries, granted, call>>
  BY <1>1 DEF RetryInv, RetryOK, RejectedByRPM, Behind, GrantedIn, Pruned
<1>2. ASSUME NEW r \in LimitedCalls, call[r].pc # "rejected",
             DOMAIN call' = LimitedCalls,
             \A s \in LimitedCalls \ {r} : call'[s] = call[s],
             call'[r].on = call[r].on, UNCHANGED <<entries, granted>>
      PROVE  \A s \in LimitedCalls : RetryOK(call[s])'
  BY <1>t, <1>2, RetryQuiet
<1>3. ASSUME NEW r \in LimitedCalls, call[r].pc = "script", HasRoom(r), Entered(r),
             \A s \in LimitedCalls \ {r} : call'[s] = call[s], call'[r].on = <<>>
      PROVE  \A s \in LimitedCalls : RetryOK(call[s])'
  <2>1. PICK w \in Windows, now \in Nat :
          /\ w = CurrentStep(r) /\ now = call[r].now /\ now <= clock /\ clock - now <= MaxLag
    BY <1>i, <1>3, AtScript
  <2>2. PICK P, N : P = Pruned(w, now) /\ N = NewMembers(w, now)
    OBVIOUS
  <2>3. Cardinality(P) + Weight[w[2]] <= WindowLimit[w]
    BY <1>3, <2>1, <2>2 DEF HasRoom
  <2>4. /\ entries' = [entries EXCEPT ![w] = P \cup N]
        /\ granted' = [granted EXCEPT ![w] = granted[w] \cup N]
    BY <1>3, <2>1, <2>2 DEF Entered
  <2>5. \A c \in LimitedRecords : RetryOK(c) /\ RejectedByRPM(c) => RetryOK(c)'
    BY <2>1, <2>2, <2>3, <2>4, EnterKeepsRetry
  <2>6. RetryOK(call[r])'
    BY <1>3 DEF RetryOK, RejectedByRPM
  <2> QED BY <1>t, <1>3, <2>5, <2>6, RetryOthers
<1>4. ASSUME NEW r \in LimitedCalls, call[r].pc = "script", ~HasRoom(r), NotEntered(r),
             \A s \in LimitedCalls \ {r} : call'[s] = call[s],
             \/ call'[r].on = <<>>
             \/ /\ call'[r].on = CurrentStep(r) /\ call'[r].now = call[r].now
                /\ call'[r].retry = (Earliest(Pruned(CurrentStep(r), call[r].now), call[r].now)
                                       + Window - call[r].now) \div Second + 1
      PROVE  \A s \in LimitedCalls : RetryOK(call[s])'
  <2>1. PICK w \in Windows, now \in Nat :
          /\ w = CurrentStep(r) /\ now = call[r].now /\ WindowLimit[w] > 0
    BY <1>i, <1>4, AtScript
  <2>2. PICK P : P = Pruned(w, now)
    OBVIOUS
  <2>3. ~(Cardinality(P) + Weight[w[2]] <= WindowLimit[w])
    BY <1>4, <2>1, <2>2 DEF HasRoom
  <2>4. entries' = [entries EXCEPT ![w] = P] /\ UNCHANGED granted
    BY <1>4, <2>1, <2>2 DEF NotEntered
  <2>5. \A c \in LimitedRecords : RetryOK(c) /\ RejectedByRPM(c) => RetryOK(c)'
    BY <2>1, <2>2, <2>3, <2>4, PruneKeepsRetry
  <2>6. CASE call'[r].on = <<>>
    <3>1. RetryOK(call[r])'
      BY <2>6 DEF RetryOK, RejectedByRPM
    <3> QED BY <1>t, <1>4, <2>5, <3>1, RetryOthers
  <2>7. CASE /\ call'[r].on = CurrentStep(r) /\ call'[r].now = call[r].now
             /\ call'[r].retry = (Earliest(Pruned(CurrentStep(r), call[r].now), call[r].now)
                                    + Window - call[r].now) \div Second + 1
    <3>1. PICK c \in LimitedRecords : c = call'[r]
      BY <1>t
    <3>2. c.on = w /\ c.now = now /\ c.retry = (Earliest(P, now) + Window - now) \div Second + 1
      BY <2>1, <2>2, <2>7, <3>1
    <3>3. RetryOK(c)'
      BY <2>1, <2>2, <2>3, <2>4, <3>2, RejectionIsLongEnough
    <3>4. RetryOK(call[r])'
      BY <3>1, <3>3
    <3> QED BY <1>t, <1>4, <2>5, <3>4, RetryOthers
  <2> QED BY <1>4, <2>6, <2>7
<1>5. ASSUME NEW r \in LimitedCalls, ReadClock(r) PROVE \A s \in LimitedCalls : RetryOK(call[s])'
  <2>1. call[r].pc = "checking" /\ call'[r].on = call[r].on /\ DOMAIN call' = LimitedCalls
        /\ \A s \in LimitedCalls \ {r} : call'[s] = call[s]
    BY <1>t, <1>5 DEF ReadClock, AtWindow, LimitedRecords
  <2> QED BY <1>2, <1>5, <2>1 DEF ReadClock
<1>6. ASSUME NEW r \in LimitedCalls, PassWindow(r) PROVE \A s \in LimitedCalls : RetryOK(call[s])'
  <2>1. call'[r].on = call[r].on /\ \A s \in LimitedCalls \ {r} : call'[s] = call[s]
    BY <1>t, <1>6 DEF PassWindow, NextStep, LimitedRecords
  <2> QED BY <1>t, <1>3, <1>6, <2>1 DEF PassWindow
<1>7. ASSUME NEW r \in LimitedCalls, RejectByWindow(r) PROVE \A s \in LimitedCalls : RetryOK(call[s])'
  <2>1. PICK n : n = (Earliest(Pruned(CurrentStep(r), call[r].now), call[r].now)
                       + Window - call[r].now) \div Second + 1
    OBVIOUS
  <2>2. PICK w : w = CurrentStep(r)
    OBVIOUS
  <2>3. PICK c : /\ c \in {[call[r] EXCEPT !.pc = "rejected", !.retry = n, !.on = w],
                           [call[r] EXCEPT !.pc = "rejected"]}
                 /\ call' = [call EXCEPT ![r] = c]
    BY <1>7, <2>1, <2>2 DEF RejectByWindow, Rejected
  <2>c. \/ c.on = call[r].on
        \/ c.on = w /\ c.now = call[r].now /\ c.retry = n
    BY <1>t, <2>3 DEF LimitedRecords
  <2>4. /\ \/ call'[r].on = call[r].on
           \/ call'[r].on = w /\ call'[r].now = call[r].now /\ call'[r].retry = n
        /\ \A s \in LimitedCalls \ {r} : call'[s] = call[s]
    BY <1>t, <2>3, <2>c
  <2>5. call[r].pc = "script" /\ ~HasRoom(r) /\ NotEntered(r)
    BY <1>7 DEF RejectByWindow
  <2>6. call[r].on = <<>>
    BY <1>t, <2>5
  <2> QED BY <1>4, <2>1, <2>2, <2>4, <2>5, <2>6
<1>8. ASSUME NEW r \in LimitedCalls, NEW ran \in BOOLEAN, RejectByError(r, ran)
      PROVE  \A s \in LimitedCalls : RetryOK(call[s])'
  <2>1. /\ call[r].pc = "script" /\ call'[r].on = <<>> /\ DOMAIN call' = LimitedCalls
        /\ \A s \in LimitedCalls \ {r} : call'[s] = call[s]
    BY <1>t, <1>8 DEF RejectByError, LimitedRecords
  <2>2. CASE HasRoom(r) /\ Entered(r)
    BY <1>3, <2>1, <2>2
  <2>3. CASE ~HasRoom(r) /\ NotEntered(r)
    BY <1>4, <2>1, <2>3
  <2>4. CASE UNCHANGED <<entries, granted>>
    BY <1>t, <1>2, <2>1, <2>4
  <2> QED BY <1>8, <2>2, <2>3, <2>4 DEF RejectByError
<1>9. ASSUME NEW r \in LimitedCalls,
             \/ LookupError(r) \/ AcquireTTL(r) \/ AcquireExpire(r) \/ AcquireDecr(r)
             \/ \E applied \in BOOLEAN : AcquireError(r, applied)
             \/ Admit(r) \/ Done(r) \/ DoneCancelled(r)
      PROVE  \A s \in LimitedCalls : RetryOK(call[s])'
  <2>1. /\ call[r].pc # "rejected" /\ UNCHANGED <<entries, granted>>
        /\ \E x : \/ call' = [call EXCEPT ![r].step = x]
                  \/ call' = [call EXCEPT ![r].pc = x]
                  \/ call' = [call EXCEPT ![r].pc = x, ![r].holds = FALSE]
    BY <1>9 DEF LookupError, AcquireTTL, AtSlot, AcquireExpire, AcquireDecr, AcquireError,
                Admit, Done, DoneCancelled
  <2>2. /\ call'[r].on = call[r].on /\ DOMAIN call' = LimitedCalls
        /\ \A s \in LimitedCalls \ {r} : call'[s] = call[s]
    BY <1>t, <2>1 DEF LimitedRecords
  <2> QED BY <1>2, <2>1, <2>2
<1>10. ASSUME NEW r \in LimitedCalls, AcquireIncr(r) PROVE \A s \in LimitedCalls : RetryOK(call[s])'
  <2>1. PICK x : x = NextCheck(r) + 1
    OBVIOUS
  <2>2. PICK c : c \in {[call[r] EXCEPT !.pc = "decr"],
                        [call[r] EXCEPT !.pc = "checking", !.step = x, !.holds = TRUE]}
                 /\ call' = [call EXCEPT ![r] = c]
    BY <1>10, <2>1 DEF AcquireIncr
  <2>3. c.on = call[r].on
    BY <1>t, <2>2 DEF LimitedRecords
  <2>4. /\ call'[r].on = call[r].on /\ DOMAIN call' = LimitedCalls
        /\ \A s \in LimitedCalls \ {r} : call'[s] = call[s]
    BY <1>t, <2>2, <2>3
  <2>5. call[r].pc # "rejected" /\ UNCHANGED <<entries, granted>>
    BY <1>10 DEF AcquireIncr
  <2> QED BY <1>2, <2>4, <2>5
<1>11. CASE LimiterTick
  BY <1>1, <1>11 DEF LimiterTick
<1>12. CASE UNCHANGED limiterVars
  BY <1>1, <1>12 DEF limiterVars
<1> QED BY <1>5, <1>6, <1>7, <1>8, <1>9, <1>10, <1>11, <1>12
    DEF LimiterNext, LimitedStep, LimitedFault

\* CheckRPM's retry-after where Allow hands it on, from the end user's and the
\* key's windows: as long as a clock reading is not older than the second that
\* windowScript rounds up to, whoever waits that long finds room, if nobody else
\* has come meanwhile; those already under way do not take it.
THEOREM RetryAfterSuffices ==
    ASSUME MaxLag <= Second
    PROVE  LimiterSpec => []RetrySuffices
<1>1. LimiterInit => RetryInv
  BY LimiterInitOK DEF LimiterInit, NewCall, RetryInv, RetryOK, RejectedByRPM
<1>2. RetryInv /\ [LimiterNext]_limiterVars => RetryInv'
  BY RetryStep
<1>3. RetryInv => RetrySuffices
  BY DEF RetryInv, RetryOK, RejectedByRPM, Behind, RetrySuffices
<1> QED BY <1>1, <1>2, <1>3, PTL DEF LimiterSpec

\* INCR gives every member a name of its own, so that ZCARD counts a request
\* of weight n as n, even when two scripts go by the same millisecond.
THEOREM EveryUnitCounts ==
    LimiterSpec => [][\A w \in Windows :
                        \/ granted'[w] = granted[w]
                        \/ Cardinality(granted'[w])
                             = Cardinality(granted[w]) + Weight[w[2]]]_limiterVars
<1>1. ASSUME LimiterInv, [LimiterNext]_limiterVars
      PROVE  [\A w \in Windows :
                \/ granted'[w] = granted[w]
                \/ Cardinality(granted'[w])
                     = Cardinality(granted[w]) + Weight[w[2]]]_limiterVars
  <2>1. CASE UNCHANGED granted
    BY <2>1
  <2>2. ASSUME NEW r \in LimitedCalls, call[r].pc = "script", HasRoom(r), Entered(r)
        PROVE  \A w \in Windows :
                 \/ granted'[w] = granted[w]
                 \/ Cardinality(granted'[w]) = Cardinality(granted[w]) + Weight[w[2]]
    <3>1. PICK v \in Windows, now \in Nat : v = CurrentStep(r) /\ now = call[r].now
      BY <1>1, <2>2, AtScript
    <3>2. PICK N : N = NewMembers(v, now)
      OBVIOUS
    <3>3. granted' = [granted EXCEPT ![v] = granted[v] \cup N]
      BY <2>2, <3>1, <3>2 DEF Entered
    <3>4. /\ granted'[v] = granted[v] \cup N
          /\ \A w \in Windows \ {v} : granted'[w] = granted[w]
      BY <1>1, <3>3 DEF LimiterInv, LimiterTyped
    <3>5. /\ IsFiniteSet(N) /\ Cardinality(N) = Weight[v[2]] /\ Weight[v[2]] \in Nat
          /\ \A m \in N : m[2] \in Cardinality(granted[v]) + 1
                                     .. Cardinality(granted[v]) + Weight[v[2]]
          /\ Cardinality(granted[v]) \in Nat
      BY <1>1, <3>2, NewMembersCount DEF LimiterInv
    <3>6. granted[v] \cap N = {} /\ IsFiniteSet(granted[v])
      BY <1>1, <3>5 DEF LimiterInv, LimiterTyped, NumbersOK
    <3>7. Cardinality(granted[v] \cap N) = 0
      BY <3>6, FS_EmptySet
    <3>8. Cardinality(granted[v] \cup N)
            = Cardinality(granted[v]) + Cardinality(N) - Cardinality(granted[v] \cap N)
      BY <3>5, <3>6, FS_Union
    <3>9. Cardinality(granted[v] \cup N) = Cardinality(granted[v]) + Weight[v[2]]
      BY <3>5, <3>7, <3>8
    <3> QED BY <3>4, <3>9
  <2>3. CASE LimiterNext
    <3>1. ASSUME NEW r \in LimitedCalls, PassWindow(r) \/ \E ran \in BOOLEAN : RejectByError(r, ran)
          PROVE  UNCHANGED granted \/ (call[r].pc = "script" /\ HasRoom(r) /\ Entered(r))
      BY <3>1 DEF PassWindow, RejectByError, NotEntered
    <3>2. ASSUME NEW r \in LimitedCalls,
                 \/ ReadClock(r) \/ RejectByWindow(r) \/ LookupError(r)
                 \/ AcquireTTL(r) \/ AcquireExpire(r) \/ AcquireIncr(r) \/ AcquireDecr(r)
                 \/ \E applied \in BOOLEAN : AcquireError(r, applied)
                 \/ Admit(r) \/ Done(r) \/ DoneCancelled(r)
          PROVE  UNCHANGED granted
      BY <3>2 DEF ReadClock, RejectByWindow, NotEntered, LookupError, AcquireTTL, AcquireExpire,
                  AcquireIncr, AcquireDecr, AcquireError, Admit, Done, DoneCancelled
    <3>3. CASE LimiterTick
      BY <2>1, <3>3 DEF LimiterTick
    <3> QED BY <2>1, <2>2, <2>3, <3>1, <3>2, <3>3 DEF LimiterNext, LimitedStep, LimitedFault
  <2>4. CASE UNCHANGED limiterVars
    BY <2>4
  <2> QED BY <1>1, <2>3, <2>4
<1> QED BY <1>1, LimiterInvariant, PTL DEF LimiterSpec

-----------------------------------------------------------------------------
(* The slots *)

\* The requests behind a counter: those with a slot and those about to give
\* back what they took above the limit.
Counted(k) ==
    {r \in LimitedCalls :
        /\ KeyOf[r] = k
        /\ \/ call[r].pc = "decr"
           \/ call[r].pc \in {"checking", "script", "serving"} /\ call[r].holds}

SlotOK(k) ==
    k \notin skewed =>
        /\ Cardinality(Counted(k)) <= inflight[k].value
        /\ SlotLimit[k] > 0 => Cardinality(Holders(k)) <= SlotLimit[k]

SlotInv == LimiterInv /\ \A k \in LimitedKeys : SlotOK(k)

\* Requests are counted in numbers.
LEMMA CountedFinite ==
    ASSUME NEW k
    PROVE  /\ IsFiniteSet(Counted(k)) /\ IsFiniteSet(Holders(k))
           /\ IsFiniteSet(Counted(k)') /\ IsFiniteSet(Holders(k)')
           /\ Cardinality(Counted(k)) \in Nat /\ Cardinality(Holders(k)) \in Nat
           /\ Cardinality(Counted(k)') \in Nat /\ Cardinality(Holders(k)') \in Nat
           /\ Holders(k) \subseteq Counted(k) /\ Holders(k)' \subseteq Counted(k)'
<1>1. IsFiniteSet(LimitedCalls)
  BY LimiterAssumption DEF LimiterAssumption
<1>2. /\ Counted(k) \subseteq LimitedCalls /\ Counted(k)' \subseteq LimitedCalls
      /\ Holders(k) \subseteq LimitedCalls /\ Holders(k)' \subseteq LimitedCalls
  BY DEF Counted, Holders
<1>3. Holders(k) \subseteq Counted(k) /\ Holders(k)' \subseteq Counted(k)'
  BY DEF Counted, Holders
<1> QED BY <1>1, <1>2, <1>3, FS_Subset, FS_CardinalityType

\* A step of one call concerns the counter of its key only.
LEMMA SlotOthers ==
    ASSUME SlotInv, LimiterInv', NEW r \in LimitedCalls,
           \A s \in LimitedCalls \ {r} : call'[s] = call[s],
           \A j \in LimitedKeys : j # KeyOf[r] => inflight'[j] = inflight[j],
           skewed \subseteq skewed', SlotOK(KeyOf[r])'
    PROVE  SlotInv'
<1>1. ASSUME NEW k \in LimitedKeys, k # KeyOf[r] PROVE SlotOK(k)'
  <2>1. Counted(k)' = Counted(k) /\ Holders(k)' = Holders(k)
    BY <1>1 DEF Counted, Holders
  <2> QED BY <1>1, <2>1 DEF SlotInv, SlotOK
<1>2. \A k \in LimitedKeys : SlotOK(k)'
  BY <1>1
<1> QED BY <1>2 DEF SlotInv

\* A call that takes nothing and keeps at most what it has.
LEMMA SlotQuiet ==
    ASSUME SlotInv, LimiterInv', NEW r \in LimitedCalls,
           \A s \in LimitedCalls \ {r} : call'[s] = call[s],
           \A j \in LimitedKeys : inflight'[j].value = inflight[j].value,
           \A j \in LimitedKeys : j # KeyOf[r] => inflight'[j] = inflight[j],
           skewed \subseteq skewed',
           Counted(KeyOf[r])' \subseteq Counted(KeyOf[r]),
           Holders(KeyOf[r])' \subseteq Holders(KeyOf[r])
    PROVE  SlotInv'
<1>1. PICK k \in LimitedKeys : k = KeyOf[r]
  BY DEF LimitedKeys
<1>2. /\ Cardinality(Counted(k)') <= Cardinality(Counted(k))
      /\ Cardinality(Holders(k)') <= Cardinality(Holders(k))
  BY <1>1, CountedFinite, Fewer
<1>3. inflight[k].value \in Int /\ SlotLimit[k] \in Nat
  BY <1>1, LimiterAssumption DEF SlotInv, LimiterInv, LimiterTyped, LimiterAssumption
<1>4. SlotOK(k)'
  BY <1>1, <1>2, <1>3, CountedFinite DEF SlotInv, SlotOK
<1> QED BY <1>1, <1>4, SlotOthers

\* INCR: one more behind the counter, and a slot only within the limit.
LEMMA SlotIncr ==
    ASSUME SlotInv, LimiterInv', NEW r \in LimitedCalls, Added(KeyOf[r], 1),
           \A s \in LimitedCalls \ {r} : call'[s] = call[s], skewed \subseteq skewed',
           \/ Holders(KeyOf[r])' \subseteq Holders(KeyOf[r])
           \/ inflight[KeyOf[r]].value + 1 <= SlotLimit[KeyOf[r]]
    PROVE  SlotInv'
<1>1. PICK k \in LimitedKeys : k = KeyOf[r]
  BY DEF LimitedKeys
<1>2. /\ inflight'[k].value = inflight[k].value + 1
      /\ \A j \in LimitedKeys : j # k => inflight'[j] = inflight[j]
      /\ inflight[k].value \in Int /\ SlotLimit[k] \in Nat
  <2>1. Added(k, 1) /\ LimiterInv
    BY <1>1 DEF SlotInv
  <2>2. /\ inflight'[k].value = inflight[k].value + 1
        /\ \A j \in LimitedKeys : j # k => inflight'[j] = inflight[j]
    BY <2>1, AddedTyped
  <2>3. inflight[k].value \in Int /\ SlotLimit[k] \in Nat
    BY <2>1, LimiterAssumption DEF LimiterInv, LimiterTyped, LimiterAssumption
  <2> QED BY <2>2, <2>3
<1>3. Counted(k)' \subseteq Counted(k) \cup {r}
  BY DEF Counted
<1>4. /\ IsFiniteSet(Counted(k) \cup {r})
      /\ Cardinality(Counted(k) \cup {r}) \in {Cardinality(Counted(k)), Cardinality(Counted(k)) + 1}
  BY CountedFinite, FS_AddElement
<1>5. Cardinality(Counted(k)') <= Cardinality(Counted(k) \cup {r})
  BY <1>3, <1>4, Fewer
<1>6. Cardinality(Counted(k)') <= Cardinality(Counted(k)) + 1
  BY <1>4, <1>5, CountedFinite
<1>7. Cardinality(Holders(k)') <= Cardinality(Counted(k)')
  BY CountedFinite, Fewer
<1>8. Holders(k)' \subseteq Holders(k) => Cardinality(Holders(k)') <= Cardinality(Holders(k))
  BY CountedFinite, Fewer
<1>9. k \notin skewed => Cardinality(Counted(k)') <= inflight'[k].value
  BY <1>2, <1>6, CountedFinite DEF SlotInv, SlotOK
<1>10. k \notin skewed /\ SlotLimit[k] > 0 => Cardinality(Holders(k)') <= SlotLimit[k]
  <2>1. CASE Holders(k)' \subseteq Holders(k)
    BY <1>2, <1>8, <2>1, CountedFinite DEF SlotInv, SlotOK
  <2>2. CASE inflight[k].value + 1 <= SlotLimit[k]
    BY <1>2, <1>7, <1>9, <2>2, CountedFinite
  <2> QED BY <1>1, <2>1, <2>2
<1>11. SlotOK(k)'
  BY <1>9, <1>10 DEF SlotOK
<1> QED BY <1>1, <1>2, <1>11, SlotOthers

\* DECR: of a request that was behind the counter, or the counter is skewed.
LEMMA SlotDecr ==
    ASSUME SlotInv, LimiterInv', NEW r \in LimitedCalls, Added(KeyOf[r], -1),
           \A s \in LimitedCalls \ {r} : call'[s] = call[s], skewed \subseteq skewed',
           call'[r].pc \in {"rejected", "done"},
           r \in Counted(KeyOf[r]) \/ KeyOf[r] \in skewed'
    PROVE  SlotInv'
<1>1. PICK k \in LimitedKeys : k = KeyOf[r]
  BY DEF LimitedKeys
<1>2. /\ inflight'[k].value = inflight[k].value - 1
      /\ \A j \in LimitedKeys : j # k => inflight'[j] = inflight[j]
      /\ inflight[k].value \in Int /\ SlotLimit[k] \in Nat
  <2>1. PICK n \in Int : n = -1
    OBVIOUS
  <2>2. Added(k, n) /\ LimiterInv
    BY <1>1, <2>1 DEF SlotInv
  <2>3. /\ inflight'[k].value = inflight[k].value + n
        /\ \A j \in LimitedKeys : j # k => inflight'[j] = inflight[j]
    BY <2>2, AddedTyped
  <2>4. inflight[k].value \in Int /\ SlotLimit[k] \in Nat
    BY <2>2, LimiterAssumption DEF LimiterInv, LimiterTyped, LimiterAssumption
  <2> QED BY <2>1, <2>3, <2>4
<1>3. SUFFICES ASSUME r \in Counted(k), k \notin skewed PROVE SlotOK(k)'
  <2>1. k \in skewed' => SlotOK(k)'
    BY DEF SlotOK
  <2> QED BY <1>1, <1>2, <2>1, SlotOthers
<1>4. Counted(k)' \subseteq Counted(k) /\ r \notin Counted(k)' /\ Holders(k)' \subseteq Holders(k)
  BY DEF Counted, Holders
<1>5. /\ Cardinality(Counted(k)') + 1 <= Cardinality(Counted(k))
      /\ Cardinality(Holders(k)') <= Cardinality(Holders(k))
  BY <1>3, <1>4, CountedFinite, Fewer
<1> QED BY <1>2, <1>3, <1>5, CountedFinite DEF SlotInv, SlotOK

\* The counters from step to step.
LEMMA SlotStep ==
    ASSUME SlotInv, [LimiterNext]_limiterVars
    PROVE  SlotInv'
<1>i. LimiterInv /\ LimiterInv'
  BY LimiterStep DEF SlotInv
<1>t. /\ call \in [LimitedCalls -> LimitedRecords]
      /\ inflight \in [LimitedKeys -> Counters]
  BY <1>i DEF LimiterInv, LimiterTyped, Counters
<1>1. CASE UNCHANGED limiterVars
  BY <1>i, <1>1 DEF limiterVars, SlotInv, SlotOK, Counted, Holders
<1>2. ASSUME NEW r \in LimitedCalls,
             \/ ReadClock(r) \/ PassWindow(r) \/ RejectByWindow(r)
             \/ \E ran \in BOOLEAN : RejectByError(r, ran)
             \/ LookupError(r) \/ AcquireTTL(r) \/ Admit(r) \/ DoneCancelled(r)
      PROVE  SlotInv'
  <2>1. UNCHANGED <<inflight, skewed>>
    BY <1>2 DEF ReadClock, PassWindow, RejectByWindow, RejectByError, LookupError, AcquireTTL,
                Admit, DoneCancelled
  <2>2. /\ \A s \in LimitedCalls \ {r} : call'[s] = call[s]
        /\ call'[r].holds = call[r].holds
        /\ call[r].pc \in {"checking", "script", "serving"}
        /\ call'[r].pc # "decr"
    <3>1. CASE ReadClock(r)
      BY <1>t, <3>1 DEF ReadClock, AtWindow, LimitedRecords
    <3>2. CASE PassWindow(r)
      BY <1>t, <3>2 DEF PassWindow, NextStep, LimitedRecords
    <3>3. CASE RejectByWindow(r)
      BY <1>t, <3>3 DEF RejectByWindow, Rejected, LimitedRecords
    <3>4. CASE \E ran \in BOOLEAN : RejectByError(r, ran)
      BY <1>t, <3>4 DEF RejectByError, LimitedRecords
    <3>5. CASE LookupError(r)
      BY <1>t, <3>5 DEF LookupError, LimitedRecords
    <3>6. CASE AcquireTTL(r)
      BY <1>t, <3>6 DEF AcquireTTL, AtSlot, LimitedRecords
    <3>7. CASE Admit(r)
      BY <1>t, <3>7 DEF Admit, LimitedRecords
    <3>8. CASE DoneCancelled(r)
      BY <1>t, <3>8 DEF DoneCancelled, LimitedRecords
    <3> QED BY <1>2, <3>1, <3>2, <3>3, <3>4, <3>5, <3>6, <3>7, <3>8
  <2>3. /\ Counted(KeyOf[r])' \subseteq Counted(KeyOf[r])
        /\ Holders(KeyOf[r])' \subseteq Holders(KeyOf[r])
    BY <2>2 DEF Counted, Holders
  <2> QED BY <1>i, <2>1, <2>2, <2>3, SlotQuiet
<1>3. ASSUME NEW r \in LimitedCalls, AcquireExpire(r) PROVE SlotInv'
  <2>1. /\ \A s \in LimitedCalls \ {r} : call'[s] = call[s]
        /\ call'[r].pc = "incr" /\ UNCHANGED skewed
    BY <1>t, <1>3 DEF AcquireExpire, LimitedRecords
  <2>2. /\ Counted(KeyOf[r])' \subseteq Counted(KeyOf[r])
        /\ Holders(KeyOf[r])' \subseteq Holders(KeyOf[r])
    BY <2>1 DEF Counted, Holders
  <2>3. PICK n : inflight' \in {inflight, [inflight EXCEPT ![KeyOf[r]].expires = n]}
    BY <1>3 DEF AcquireExpire, Key
  <2>4. /\ \A j \in LimitedKeys : inflight'[j].value = inflight[j].value
        /\ \A j \in LimitedKeys : j # KeyOf[r] => inflight'[j] = inflight[j]
    BY <1>t, <2>3 DEF Counters
  <2> QED BY <1>i, <2>1, <2>2, <2>4, SlotQuiet
<1>4. ASSUME NEW r \in LimitedCalls, AcquireIncr(r) PROVE SlotInv'
  <2>1. \A s \in LimitedCalls \ {r} : call'[s] = call[s]
    BY <1>t, <1>4 DEF AcquireIncr
  <2>2. CASE inflight[Key(r)].value + 1 > SlotLimit[Key(r)]
    <3>1. call'[r].pc = "decr"
      BY <1>t, <1>4, <2>2 DEF AcquireIncr, LimitedRecords
    <3>2. Holders(KeyOf[r])' \subseteq Holders(KeyOf[r])
      BY <2>1, <3>1 DEF Holders
    <3> QED BY <1>i, <1>4, <2>1, <3>2, SlotIncr DEF AcquireIncr, Key
  <2>3. CASE ~(inflight[Key(r)].value + 1 > SlotLimit[Key(r)])
    <3>1. KeyOf[r] \in LimitedKeys
      BY DEF LimitedKeys
    <3>2. inflight[KeyOf[r]].value \in Int /\ SlotLimit[KeyOf[r]] \in Nat
      BY <1>t, <3>1, LimiterAssumption DEF Counters, LimiterAssumption
    <3>3. inflight[KeyOf[r]].value + 1 <= SlotLimit[KeyOf[r]]
      BY <2>3, <3>2 DEF Key
    <3> QED BY <1>i, <1>4, <2>1, <3>3, SlotIncr DEF AcquireIncr, Key
  <2> QED BY <2>2, <2>3
<1>5. ASSUME NEW r \in LimitedCalls, NEW applied \in BOOLEAN, AcquireError(r, applied)
      PROVE  SlotInv'
  <2>1. /\ \A s \in LimitedCalls \ {r} : call'[s] = call[s]
        /\ call'[r].pc = "decr" /\ skewed \subseteq skewed'
    BY <1>t, <1>5 DEF AcquireError, LimitedRecords
  <2>2. Holders(KeyOf[r])' \subseteq Holders(KeyOf[r])
    BY <2>1 DEF Holders
  <2>3. CASE applied
    BY <1>i, <1>5, <2>1, <2>2, <2>3, SlotIncr DEF AcquireError, Key
  <2>4. CASE ~applied
    <3>1. KeyOf[r] \in skewed' /\ UNCHANGED inflight
      BY <1>5, <2>4 DEF AcquireError, Key
    <3>2. SlotOK(KeyOf[r])'
      BY <3>1 DEF SlotOK
    <3> QED BY <1>i, <2>1, <3>1, <3>2, SlotOthers
  <2> QED BY <2>3, <2>4
<1>6. ASSUME NEW r \in LimitedCalls, AcquireDecr(r) PROVE SlotInv'
  <2>1. /\ \A s \in LimitedCalls \ {r} : call'[s] = call[s]
        /\ call'[r].pc = "rejected" /\ UNCHANGED skewed /\ r \in Counted(KeyOf[r])
    BY <1>t, <1>6 DEF AcquireDecr, LimitedRecords, Counted
  <2> QED BY <1>i, <1>6, <2>1, SlotDecr DEF AcquireDecr, Key
<1>7. ASSUME NEW r \in LimitedCalls, Done(r) PROVE SlotInv'
  <2>1. /\ \A s \in LimitedCalls \ {r} : call'[s] = call[s]
        /\ call'[r].pc = "done" /\ skewed \subseteq skewed'
        /\ r \in Counted(KeyOf[r]) \/ KeyOf[r] \in skewed'
    BY <1>t, <1>7 DEF Done, LimitedRecords, Counted, Key
  <2> QED BY <1>i, <1>7, <2>1, SlotDecr DEF Done, Key
<1>8. CASE LimiterTick
  <2>1. UNCHANGED call /\ skewed \subseteq skewed'
    BY <1>8 DEF LimiterTick
  <2>2. ASSUME NEW k \in LimitedKeys PROVE SlotOK(k)'
    <3>1. Counted(k)' = Counted(k) /\ Holders(k)' = Holders(k)
      BY <2>1 DEF Counted, Holders
    <3>2. CASE inflight[k].expires = clock + 1 /\ Counted(k) # {}
      <4>1. PICK r \in Counted(k) : TRUE
        BY <3>2
      <4>2. KeyOf[r] = k /\ r \in LimitedCalls
            /\ (call[r].pc = "decr"
                 \/ (call[r].holds /\ call[r].pc \in {"checking", "script", "serving"}))
        BY DEF Counted
      <4>3. k \in skewed'
        BY <1>8, <3>2, <4>2 DEF LimiterTick
      <4> QED BY <4>3 DEF SlotOK
    <3>3. CASE inflight[k].expires = clock + 1 /\ Counted(k) = {}
      <4>1. inflight'[k].value = 0
        BY <1>8, <3>3 DEF LimiterTick, NoCounter
      <4>2. Cardinality(Counted(k)') = 0
        BY <3>1, <3>3, FS_EmptySet
      <4> QED BY <2>1, <3>1, <4>1, <4>2 DEF SlotInv, SlotOK
    <3>4. CASE inflight[k].expires # clock + 1
      <4>1. inflight'[k] = inflight[k]
        BY <1>8, <3>4 DEF LimiterTick
      <4> QED BY <2>1, <3>1, <4>1 DEF SlotInv, SlotOK
    <3> QED BY <3>2, <3>3, <3>4
  <2> QED BY <1>i, <2>2 DEF SlotInv
<1> QED BY <1>1, <1>2, <1>3, <1>4, <1>5, <1>6, <1>7, <1>8
    DEF LimiterNext, LimitedStep, LimitedFault

\* Acquire and Done: TTL, EXPIRE, INCR and DECR are separate commands, and yet
\* a key whose counter was never skewed has no more requests in flight than
\* its concurrency limit, for any number of gateways and any Redis errors.
THEOREM SlotsAreBounded == LimiterSpec => []SlotsBounded
<1>1. ASSUME LimiterInit PROVE SlotInv
  <2>1. LimiterInv
    BY <1>1, LimiterInitOK
  <2>2. ASSUME NEW k \in LimitedKeys PROVE SlotOK(k)
    <3>1. Counted(k) = {} /\ Holders(k) = {} /\ inflight[k].value = 0
      BY <1>1 DEF LimiterInit, NewCall, NoCounter, Counted, Holders
    <3>2. SlotLimit[k] \in Nat
      BY LimiterAssumption DEF LimiterAssumption
    <3> QED BY <3>1, <3>2, FS_EmptySet DEF SlotOK
  <2> QED BY <2>1, <2>2 DEF SlotInv
<1>2. SlotInv /\ [LimiterNext]_limiterVars => SlotInv'
  BY SlotStep
<1>3. SlotInv => SlotsBounded
  BY DEF SlotInv, SlotOK, SlotsBounded
<1> QED BY <1>1, <1>2, <1>3, PTL DEF LimiterSpec
=============================================================================
