---------------------------- MODULE ServicesProofs ----------------------------
(***************************************************************************)
(* Proofs about the services that credit money, recharges (Payments) and   *)
(* refunds (Refunds), and about the detail tier (DetailSink).  Each part   *)
(* states an inductive invariant, shows that every step preserves it, and  *)
(* derives the properties.                                                 *)
(***************************************************************************)
EXTENDS Payments, Refunds, DetailSink, FiniteSetTheorems, TLAPS

\* Most leaves are first-order reasoning: Zenon is tried before the SMT solver.
USE ZenonT(10), SMTT(30)

-----------------------------------------------------------------------------
(* Payments *)

\* What a call holds: a key it read; the recharge's amount, which no longer
\* changes; or the transaction of a payment that is already there.
CallOK(c) ==
    /\ pay[c].pc \in {"mock", "stripe", "lookup", "settle", "credit"} => pay[c].key \in RechargeKeys
    /\ pay[c].pc \in {"lookup", "settle"} => pay[c].txn \in Txns
    /\ pay[c].pc \in {"mock", "stripe", "settle", "credit"} =>
         \/ pay[c].pc = "settle" /\ Replayed(c)
         \/ /\ recharges[pay[c].key].status # "NONE"
            /\ pay[c].amount = recharges[pay[c].key].amount

CallInv == \A c \in PayCalls : CallOK(c)

\* A call between the commit and the credit: its recharge is PAID, nothing was
\* credited for it yet, and no other call is about to.
AboutToCredit ==
    \A c \in PayCalls : pay[c].pc = "credit" =>
        /\ recharges[pay[c].key].status = "PAID"
        /\ credits[pay[c].key] = << >>
        /\ \A d \in PayCalls : pay[d].pc = "credit" /\ pay[d].key = pay[c].key => d = c

PayInv == PayTypeOK /\ CallInv /\ AboutToCredit /\ PaidByOnePayment /\ CreditedOnce

\* The invariant holds before any recharge.
LEMMA PayInvInit == PayInit => PayInv
  <1> SUFFICES ASSUME PayInit PROVE PayInv
    OBVIOUS
  <1>1. PayTypeOK
    BY DEF PayInit, PayTypeOK, IdleCall, NoRecharge, Recharges
  <1>2. CallInv /\ AboutToCredit /\ CreditedOnce
    BY DEF PayInit, CallInv, CallOK, AboutToCredit, CreditedOnce, IdleCall
  <1>3. PaidByOnePayment
    BY DEF PayInit, PaidByOnePayment, NoRecharge
  <1> QED
    BY <1>1, <1>2, <1>3 DEF PayInv

\* The calls' records, as PayTypeOK has them.
CallStates == [pc : {"idle", "mock", "stripe", "lookup", "settle", "credit", "done"},
               key : RechargeKeys \cup {"none"}, amount : Int, txn : Txns \cup {NoTxn}]

\* A step of one call that touches no table and credits nothing.
LEMMA CallStep ==
    ASSUME PayInv, NEW c \in PayCalls, NEW s \in CallStates, pay' = [pay EXCEPT ![c] = s],
           UNCHANGED <<recharges, payments, credits>>,
           intents' \subseteq Txns,
           s.pc # "credit", pay'[c] = s => CallOK(c)'
    PROVE  PayInv'
  <1>1. PayTypeOK /\ CallInv /\ AboutToCredit /\ PaidByOnePayment /\ CreditedOnce
    BY DEF PayInv
  <1>2. /\ pay' \in [PayCalls -> CallStates] /\ pay'[c] = s
        /\ \A d \in PayCalls \ {c} : pay'[d] = pay[d]
    BY <1>1 DEF PayTypeOK, CallStates
  <1>3. PayTypeOK'
    BY <1>1, <1>2 DEF PayTypeOK, CallStates
  <1>4. CallInv'
    <2> SUFFICES ASSUME NEW d \in PayCalls, d # c PROVE CallOK(d)'
      BY <1>2 DEF CallInv
    <2>1. CallOK(d) /\ pay'[d] = pay[d]
      BY <1>1, <1>2 DEF CallInv
    <2> QED
      BY <2>1 DEF CallOK, Replayed
  <1>5. AboutToCredit'
    BY <1>1, <1>2 DEF AboutToCredit
  <1>6. PaidByOnePayment' /\ CreditedOnce'
    BY <1>1 DEF PaidByOnePayment, CreditedOnce
  <1> QED
    BY <1>3, <1>4, <1>5, <1>6 DEF PayInv

\* A recharge row is only ever created here: the rows of calls under way stay.
LEMMA RechargeStep ==
    ASSUME PayInv, NEW k \in RechargeKeys, NEW amount \in RechargeAmounts, Recharge(k, amount)
    PROVE  PayInv'
  <1>1. PayTypeOK /\ CallInv /\ AboutToCredit /\ PaidByOnePayment /\ CreditedOnce
    BY DEF PayInv
  <1>2. /\ UNCHANGED <<payments, intents, pay, credits>>
        /\ recharges' \in [RechargeKeys -> Recharges]
        /\ \A j \in RechargeKeys :
             \/ recharges'[j] = recharges[j]
             \/ recharges[j].status = "NONE" /\ recharges'[j].status = "PENDING"
    BY <1>1, PaymentsAssumption DEF Recharge, PayTypeOK, Recharges, NoRecharge
  <1>3. PayTypeOK'
    BY <1>1, <1>2 DEF PayTypeOK
  <1>4. CallInv'
    <2> SUFFICES ASSUME NEW c \in PayCalls PROVE CallOK(c)'
      BY DEF CallInv
    <2> QED
      BY <1>1, <1>2 DEF CallInv, CallOK, Replayed
  <1>5. AboutToCredit'
    BY <1>1, <1>2 DEF AboutToCredit, CallInv, CallOK
  <1>6. PaidByOnePayment'
    BY <1>1, <1>2 DEF PaidByOnePayment
  <1>7. CreditedOnce'
    BY <1>1, <1>2 DEF CreditedOnce
  <1> QED
    BY <1>3, <1>4, <1>5, <1>6, <1>7 DEF PayInv

\* The steps of a call before the commit, and those that end it.
LEMMA OtherCallSteps ==
    ASSUME PayInv, NEW c \in PayCalls,
           \/ \E k \in RechargeKeys, channel \in {"mock", "stripe"} : PayStart(c, k, channel)
           \/ \E nano \in PayClock : MockPay(c, nano)
           \/ \E created \in BOOLEAN : StripePay(c, created)
           \/ \E txn \in intents : Webhook(c, txn)
           \/ SettleByTxn(c) \/ CreditError(c) \/ PayCrash(c)
    PROVE  PayInv'
  <1>1. /\ PayTypeOK /\ CallOK(c) /\ pay[c] \in CallStates
        /\ intents \subseteq Txns
    BY DEF PayInv, CallInv, PayTypeOK, CallStates
  <1>2. ASSUME NEW k \in RechargeKeys, NEW channel \in {"mock", "stripe"}, PayStart(c, k, channel)
        PROVE  PayInv'
    <2>1. PICK pc \in {"done", "mock", "stripe"} :
            pay' = [pay EXCEPT ![c] = [pc |-> pc, key |-> k, amount |-> recharges[k].amount,
                                       txn |-> NoTxn]]
      BY <1>2 DEF PayStart
    <2> DEFINE s == [pc |-> pc, key |-> k, amount |-> recharges[k].amount, txn |-> NoTxn]
    <2>2. recharges[k].amount \in Int /\ recharges[k].status # "NONE"
      BY <1>1, <1>2 DEF PayStart, PayTypeOK, Recharges, NoRecharge
    <2>3. s \in CallStates
      BY <2>2 DEF CallStates
    <2>4. UNCHANGED <<recharges, payments, intents, credits>>
      BY <1>2 DEF PayStart
    <2>5. pay'[c] = s => CallOK(c)'
      BY <2>2, <2>4 DEF CallOK
    <2> QED
      BY <1>1, <2>1, <2>3, <2>4, <2>5, CallStep
  <1>3. ASSUME NEW nano \in PayClock, MockPay(c, nano) PROVE PayInv'
    <2> DEFINE s == [pay[c] EXCEPT !.pc = "settle", !.txn = <<"mock", pay[c].key, nano>>]
    <2>1. pay[c].pc = "mock" /\ <<"mock", pay[c].key, nano>> \in Txns
      BY <1>1, <1>3 DEF MockPay, CallOK, Txns
    <2>2. pay' = [pay EXCEPT ![c] = s]
      BY <1>3 DEF MockPay
    <2>3. s \in CallStates /\ s.pc = "settle" /\ s.key = pay[c].key /\ s.amount = pay[c].amount
          /\ s.txn = <<"mock", pay[c].key, nano>>
      BY <1>1, <2>1 DEF CallStates
    <2> HIDE DEF s
    <2>4. UNCHANGED <<recharges, payments, intents, credits>>
      BY <1>1, <1>3, <2>1 DEF MockPay
    <2>5. pay'[c] = s => CallOK(c)'
      BY <1>1, <2>1, <2>3, <2>4 DEF CallOK
    <2> QED
      BY <1>1, <2>1, <2>2, <2>3, <2>4, <2>5, CallStep
  <1>4. ASSUME NEW created \in BOOLEAN, StripePay(c, created) PROVE PayInv'
    <2> DEFINE s == [pay[c] EXCEPT !.pc = "done"]
    <2>1. pay[c].pc = "stripe" /\ <<"stripe", pay[c].key, c>> \in Txns
      BY <1>1, <1>4 DEF StripePay, CallOK, Txns
    <2>2. pay' = [pay EXCEPT ![c] = s]
      BY <1>4 DEF StripePay, Enter
    <2>3. s \in CallStates /\ s.pc = "done"
      BY <1>1, <2>1 DEF CallStates
    <2> HIDE DEF s
    <2>4. UNCHANGED <<recharges, payments, credits>> /\ intents' \subseteq Txns
      BY <1>1, <1>4, <2>1 DEF StripePay
    <2>5. pay'[c] = s => CallOK(c)'
      BY <1>1, <2>1, <2>3, <2>4 DEF CallOK
    <2> QED
      BY <1>1, <2>1, <2>2, <2>3, <2>4, <2>5, CallStep
  <1>5. ASSUME NEW txn \in intents, Webhook(c, txn) PROVE PayInv'
    <2> DEFINE s == [pc |-> IF WebhookAuth THEN "lookup" ELSE "done",
                     key |-> txn[2], amount |-> 0, txn |-> txn]
    <2>1. txn \in Txns /\ txn[2] \in RechargeKeys
      BY <1>1, <1>5 DEF Txns
    <2>2. pay' = [pay EXCEPT ![c] = s]
      BY <1>1, <1>5 DEF Webhook, CallStates
    <2>3. s \in CallStates
      BY <1>1, <2>1 DEF CallStates
    <2>4. UNCHANGED <<recharges, payments, intents, credits>>
      BY <1>1, <1>5, <2>1 DEF Webhook
    <2>5. pay'[c] = s => CallOK(c)'
      BY <1>1, <2>1, <2>4 DEF CallOK
    <2> QED
      BY <1>1, <2>1, <2>2, <2>3, <2>4, <2>5, CallStep
  <1>6. ASSUME SettleByTxn(c) PROVE PayInv'
    <2> DEFINE s == [pay[c] EXCEPT !.pc = IF Replayed(c) THEN "settle" ELSE "done"]
    <2>1. pay[c].pc = "lookup"
      BY <1>6 DEF SettleByTxn
    <2>2. pay' = [pay EXCEPT ![c] = s]
      BY <1>6 DEF SettleByTxn, Enter, Replayed
    <2>3. s \in CallStates /\ s.pc \in {"settle", "done"} /\ (s.pc = "settle" => Replayed(c))
          /\ s.key = pay[c].key /\ s.txn = pay[c].txn
      BY <1>1, <2>1 DEF CallStates
    <2> HIDE DEF s
    <2>4. UNCHANGED <<recharges, payments, intents, credits>>
      BY <1>1, <1>6, <2>1 DEF SettleByTxn
    <2>5. pay'[c] = s => CallOK(c)'
      BY <1>1, <2>1, <2>3, <2>4 DEF CallOK, Replayed
    <2> QED
      BY <1>1, <2>1, <2>2, <2>3, <2>4, <2>5, CallStep
  <1>7. ASSUME CreditError(c) \/ PayCrash(c) PROVE PayInv'
    <2> DEFINE s == [pay[c] EXCEPT !.pc = "done"]
    <2>1. pay[c].pc = "credit" => pay[c].key \in RechargeKeys
      BY <1>1 DEF CallOK
    <2>2. pay' = [pay EXCEPT ![c] = s]
      BY <1>7 DEF CreditError, PayCrash, Enter
    <2>3. s \in CallStates /\ s.pc = "done"
      BY <1>1, <2>1 DEF CallStates
    <2> HIDE DEF s
    <2>4. UNCHANGED <<recharges, payments, intents, credits>>
      BY <1>1, <1>7, <2>1 DEF CreditError, PayCrash
    <2>5. pay'[c] = s => CallOK(c)'
      BY <1>1, <2>1, <2>3, <2>4 DEF CallOK
    <2> QED
      BY <1>1, <2>1, <2>2, <2>3, <2>4, <2>5, CallStep
  <1> QED
    BY <1>2, <1>3, <1>4, <1>5, <1>6, <1>7

\* The transaction of SettleCallback: the one call that finds the recharge
\* PENDING and its transaction id unused goes on to the credit.
LEMMA SettleCallbackStep ==
    ASSUME PayInv, NEW c \in PayCalls, SettleCallback(c)
    PROVE  PayInv'
  <1> DEFINE k == pay[c].key
             commits == ~Replayed(c) /\ recharges[k].status = "PENDING"
  <1>1. PayTypeOK /\ CallInv /\ AboutToCredit /\ PaidByOnePayment /\ CreditedOnce
    BY DEF PayInv
  <1>2. /\ pay[c].pc = "settle" /\ CallOK(c) /\ k \in RechargeKeys /\ pay[c].txn \in Txns
        /\ UNCHANGED <<intents, credits>>
    BY <1>1 DEF SettleCallback, CallInv, CallOK
  <1>3. CASE ~commits
    <2> DEFINE s == [pay[c] EXCEPT !.pc = "done"]
    <2>1. UNCHANGED <<recharges, payments>> /\ pay' = [pay EXCEPT ![c] = s]
      BY <1>3 DEF SettleCallback, Enter
    <2>2. pay[c] \in CallStates /\ intents \subseteq Txns
      BY <1>1 DEF PayTypeOK, CallStates
    <2>3. s \in CallStates /\ s.pc = "done"
      BY <2>2 DEF CallStates
    <2> HIDE DEF s
    <2>4. pay'[c] = s => CallOK(c)'
      BY <2>3 DEF CallOK
    <2> QED
      BY <1>2, <2>1, <2>2, <2>3, <2>4, CallStep
  <1>4. CASE commits
    <2>1. /\ payments' = payments \cup {PaymentOf(c)}
          /\ recharges' = [recharges EXCEPT ![k].status = "PAID"]
          /\ pay' = [pay EXCEPT ![c].pc = "credit"]
      BY <1>4 DEF SettleCallback, Enter, MarkPaid
    <2>2. /\ PaymentOf(c) \in [key : RechargeKeys, txn : Txns, amount : Int]
          /\ PaymentOf(c).key = k /\ PaymentOf(c).amount = recharges[k].amount
      BY <1>1, <1>2, <1>4 DEF PaymentOf, PayTypeOK, CallOK
    <2>3. /\ recharges' \in [RechargeKeys -> Recharges]
          /\ recharges'[k].status = "PAID" /\ recharges'[k].amount = recharges[k].amount
          /\ \A j \in RechargeKeys \ {k} : recharges'[j] = recharges[j]
      <3>1. recharges[k] \in [status : {"PENDING", "PAID"}, amount : Int]
        BY <1>1, <1>2, <1>4 DEF PayTypeOK, Recharges, NoRecharge
      <3>2. [recharges[k] EXCEPT !.status = "PAID"] \in Recharges
        BY <3>1 DEF Recharges
      <3>3. recharges' = [recharges EXCEPT ![k] = [recharges[k] EXCEPT !.status = "PAID"]]
        BY <2>1
      <3>4. recharges \in [RechargeKeys -> Recharges]
        BY <1>1 DEF PayTypeOK
      <3>5. recharges'[k] = [recharges[k] EXCEPT !.status = "PAID"]
        BY <1>2, <3>3, <3>4
      <3>6. recharges' \in [RechargeKeys -> Recharges]
        BY <1>2, <3>2, <3>3, <3>4
      <3> QED
        BY <1>2, <3>1, <3>3, <3>4, <3>5, <3>6
    <2>4. /\ pay'[c].pc = "credit" /\ pay'[c].key = k /\ pay'[c].amount = pay[c].amount
          /\ \A d \in PayCalls \ {c} : pay'[d] = pay[d]
          /\ pay' \in [PayCalls ->
                 [pc : {"idle", "mock", "stripe", "lookup", "settle", "credit", "done"},
                  key : RechargeKeys \cup {"none"}, amount : Int, txn : Txns \cup {NoTxn}]]
      BY <1>1, <2>1, ZenonT(30) DEF PayTypeOK
    <2>5. PayTypeOK'
      BY <1>1, <1>2, <2>1, <2>2, <2>3, <2>4 DEF PayTypeOK
    <2>6. CallInv'
      <3>1. CallOK(c)'
        BY <1>2, <1>4, <2>3, <2>4 DEF CallOK
      <3>2. ASSUME NEW d \in PayCalls, d # c PROVE CallOK(d)'
        <4>1. CallOK(d) /\ pay'[d] = pay[d]
          BY <1>1, <2>4, <3>2 DEF CallInv
        <4>2. Replayed(d) => Replayed(d)'
          BY <2>1, <4>1 DEF Replayed
        <4> QED
          BY <2>3, <4>1, <4>2 DEF CallOK
      <3> QED
        BY <3>1, <3>2 DEF CallInv
    <2>7. credits[k] = << >>
      BY <1>1, <1>2, <1>4 DEF CreditedOnce
    <2>8. AboutToCredit'
      <3>1. \A d \in PayCalls \ {c} : pay[d].pc = "credit" => pay[d].key # k
        BY <1>1, <1>4 DEF AboutToCredit
      <3>2. ASSUME NEW d \in PayCalls, d # c, pay'[d].pc = "credit"
            PROVE  /\ pay[d].key \in RechargeKeys \ {k} /\ pay'[d] = pay[d]
                   /\ recharges[pay[d].key].status = "PAID" /\ credits[pay[d].key] = << >>
                   /\ \A e \in PayCalls : pay[e].pc = "credit" /\ pay[e].key = pay[d].key => e = d
        <4>1. pay[d].pc = "credit" /\ pay'[d] = pay[d] /\ CallOK(d)
          BY <1>1, <2>4, <3>2 DEF CallInv
        <4> QED
          BY <1>1, <3>1, <3>2, <4>1 DEF AboutToCredit, CallOK
      <3> QED
        BY <1>2, <2>3, <2>4, <2>7, <3>1, <3>2 DEF AboutToCredit
    <2>9. PaidByOnePayment'
      <3>1. {p \in payments : p.key = k} = {}
        BY <1>1, <1>2, <1>4 DEF PaidByOnePayment
      <3>2. {p \in payments' : p.key = k} = {PaymentOf(c)}
        BY <2>1, <2>2, <3>1
      <3>3. \A j \in RechargeKeys \ {k} :
              {p \in payments' : p.key = j} = {p \in payments : p.key = j}
        BY <2>1, <2>2
      <3>4. ASSUME NEW j \in RechargeKeys
            PROVE  LET rows == {p \in payments' : p.key = j} IN
                   /\ recharges'[j].status = "PAID" <=> rows # {}
                   /\ \A p, q \in rows : p = q /\ p.amount = recharges'[j].amount
        <4>1. CASE j = k
          BY <2>2, <2>3, <3>2, <4>1
        <4>2. CASE j # k
          BY <1>1, <2>3, <3>3, <4>2 DEF PaidByOnePayment
        <4> QED
          BY <4>1, <4>2
      <3> QED
        BY <3>4 DEF PaidByOnePayment
    <2>10. CreditedOnce'
      BY <1>1, <1>2, <2>3, <2>7 DEF CreditedOnce
    <2> QED
      BY <2>5, <2>6, <2>8, <2>9, <2>10 DEF PayInv
  <1> QED
    BY <1>3, <1>4

\* The credit after the commit: nothing was credited before, and no other call
\* is about to.
LEMMA CreditBalanceStep ==
    ASSUME PayInv, NEW c \in PayCalls, CreditBalance(c)
    PROVE  PayInv'
  <1> DEFINE k == pay[c].key
  <1>1. PayTypeOK /\ CallInv /\ AboutToCredit /\ PaidByOnePayment /\ CreditedOnce
    BY DEF PayInv
  <1>2. /\ pay[c].pc = "credit" /\ k \in RechargeKeys /\ credits[k] = << >>
        /\ recharges[k].status = "PAID" /\ pay[c].amount = recharges[k].amount
        /\ pay[c].amount \in Int
        /\ UNCHANGED <<recharges, payments, intents>>
    BY <1>1 DEF CreditBalance, CallInv, CallOK, AboutToCredit, PayTypeOK
  <1>3. /\ pay'[c].pc = "done"
        /\ \A d \in PayCalls \ {c} : pay'[d] = pay[d]
        /\ pay' \in [PayCalls ->
               [pc : {"idle", "mock", "stripe", "lookup", "settle", "credit", "done"},
                key : RechargeKeys \cup {"none"}, amount : Int, txn : Txns \cup {NoTxn}]]
    BY <1>1, ZenonT(30) DEF CreditBalance, Enter, PayTypeOK
  <1>4. /\ credits'[k] = <<pay[c].amount>>
        /\ \A j \in RechargeKeys \ {k} : credits'[j] = credits[j]
        /\ credits' \in [RechargeKeys -> Seq(Int)]
    BY <1>1, <1>2 DEF CreditBalance, PayTypeOK
  <1>5. PayTypeOK'
    BY <1>1, <1>2, <1>3, <1>4 DEF PayTypeOK
  <1>6. CallInv'
    <2>1. CallOK(c)'
      BY <1>3 DEF CallOK
    <2>2. ASSUME NEW d \in PayCalls, d # c PROVE CallOK(d)'
      BY <1>1, <1>2, <1>3, <2>2, ZenonT(30) DEF CallInv, CallOK, Replayed
    <2> QED
      BY <2>1, <2>2 DEF CallInv
  <1>7. AboutToCredit'
    <2>1. ASSUME NEW d \in PayCalls, pay'[d].pc = "credit"
          PROVE  d # c /\ pay[d].pc = "credit" /\ pay[d].key \in RechargeKeys \ {k}
      BY <1>1, <1>2, <1>3, <2>1 DEF AboutToCredit, CallInv, CallOK
    <2>2. ASSUME NEW d \in PayCalls, pay'[d].pc = "credit"
          PROVE  /\ pay'[d] = pay[d] /\ recharges'[pay[d].key].status = "PAID"
                 /\ credits'[pay[d].key] = << >>
                 /\ \A e \in PayCalls : pay'[e].pc = "credit" /\ pay'[e].key = pay[d].key
                                          => e = d
      <3>1. d # c /\ pay[d].pc = "credit" /\ pay[d].key \in RechargeKeys \ {k} /\ pay'[d] = pay[d]
        BY <1>3, <2>1, <2>2
      <3>2. recharges[pay[d].key].status = "PAID" /\ credits[pay[d].key] = << >>
        BY <1>1, <3>1 DEF AboutToCredit
      <3>3. ASSUME NEW e \in PayCalls, pay'[e].pc = "credit", pay'[e].key = pay[d].key
            PROVE  e = d
        <4>1. pay[e].pc = "credit" /\ pay'[e] = pay[e]
          BY <1>3, <2>1, <3>3
        <4> QED
          BY <1>1, <3>1, <3>3, <4>1 DEF AboutToCredit
      <3> QED
        BY <1>2, <1>4, <3>1, <3>2, <3>3
    <2> QED
      BY <2>2 DEF AboutToCredit
  <1>8. PaidByOnePayment'
    BY <1>1, <1>2 DEF PaidByOnePayment
  <1>9. CreditedOnce'
    BY <1>1, <1>2, <1>4 DEF CreditedOnce
  <1> QED
    BY <1>5, <1>6, <1>7, <1>8, <1>9 DEF PayInv

\* Every step of the recharge handlers preserves the invariant.
LEMMA PayInvStep == PayInv /\ [PayNext]_payVars => PayInv'
  <1> SUFFICES ASSUME PayInv, [PayNext]_payVars PROVE PayInv'
    OBVIOUS
  <1>1. CASE UNCHANGED payVars
    BY <1>1 DEF PayInv, payVars, PayTypeOK, CallInv, CallOK, Replayed, AboutToCredit,
                PaidByOnePayment, CreditedOnce
  <1>2. CASE PayNext
    BY <1>2, RechargeStep, OtherCallSteps, SettleCallbackStep, CreditBalanceStep DEF PayNext
  <1> QED
    BY <1>1, <1>2

\* What holds in every reachable state of the recharges.
LEMMA PayInvHolds == PaySpec => []PayInv
  BY PayInvInit, PayInvStep, PTL DEF PaySpec

\* "balance credit happens ONCE" (payment.go), for any number of recharges,
\* calls and clock readings and whatever fails: a recharge is credited at most
\* once, for its own amount and only when it is PAID.
THEOREM RechargeCreditedOnce == PaySpec => []CreditedOnce
  <1>1. PayInv => CreditedOnce
    BY DEF PayInv
  <1> QED
    BY <1>1, PayInvHolds, PTL

\* The recharges and the payments table agree (SettleCallback's transaction):
\* a recharge is PAID by exactly one payment, of its amount.
THEOREM RechargePaidOnce == PaySpec => []PaidByOnePayment
  <1>1. PayInv => PaidByOnePayment
    BY DEF PayInv
  <1> QED
    BY <1>1, PayInvHolds, PTL

-----------------------------------------------------------------------------
(* Refunds *)

\* A run that goes on to execute a refund created its row: the row is there,
\* with the id the run holds, and is AUTO; the run credits it once.
ExecOK(w) ==
    runner[w].pc \in {"topup", "mark"} =>
        /\ runner[w].order \in NegOrders
        /\ Level(runner[w].order) = "AUTO"
        /\ refund[runner[w].order].status # "NONE"
        /\ refund[runner[w].order].id = runner[w].id
        /\ refunded[runner[w].order] = (IF runner[w].pc = "topup" THEN 0 ELSE 1)

ExecutorInv == \A w \in Runners : ExecOK(w)

\* At most one run is about to credit an order.
OneAtTopUp ==
    \A v, w \in Runners :
        /\ runner[v].pc = "topup" /\ runner[w].pc = "topup"
        /\ runner[v].order = runner[w].order
        => v = w

\* An order without a refund row was not credited.
NoRowNoCredit == \A o \in NegOrders : refund[o].status = "NONE" => refunded[o] = 0

RefundInv == RefundTypeOK /\ ExecutorInv /\ OneAtTopUp /\ NoRowNoCredit /\ RefundedOnce

\* The runners' records, as RefundTypeOK has them.
RunnerStates == [pc : {"idle", "next", "topup", "mark", "done"},
                 todo : SUBSET NegOrders, id : Nat, order : NegOrders \cup {NoOrder}]

\* What every step does to the rows: none is deleted, none changes its id.
RowsKept ==
    \A o \in NegOrders : refund[o].status # "NONE" =>
        refund'[o].status # "NONE" /\ refund'[o].id = refund[o].id

\* The runner w moves, the others stay where they are.
OnlyMoves(w) == \A v \in Runners \ {w} : runner'[v] = runner[v]

\* No refund exists before the first run.
LEMMA RefundInvInit == RefundInit => RefundInv
  <1> SUFFICES ASSUME RefundInit PROVE RefundInv
    OBVIOUS
  <1>1. RefundTypeOK
    BY DEF RefundInit, RefundTypeOK, NoRefund, IdleRunner
  <1>2. \A w \in Runners : runner[w].pc = "idle"
    BY DEF RefundInit, IdleRunner
  <1>3. \A o \in NegOrders : refunded[o] = 0
    BY DEF RefundInit
  <1> QED
    BY <1>1, <1>2, <1>3 DEF RefundInv, ExecutorInv, ExecOK, OneAtTopUp, NoRowNoCredit, RefundedOnce

\* The insert of a refund row keeps the rows there are; the row it leaves for
\* the order has an id of the table.
LEMMA InsertedRows ==
    ASSUME RefundTypeOK, NEW o \in NegOrders, Inserted(o)
    PROVE  /\ RowsKept
           /\ refund' \in [NegOrders -> [status : {"NONE", "PENDING", "EXECUTED"}, id : Nat]]
           /\ serial' \in [RefundShards -> Nat]
           /\ refund'[o].status # "NONE"
           /\ \A p \in NegOrders \ {o} : refund'[p] = refund[p]
           /\ refund[o].status # "NONE" => refund'[o] = refund[o]
           /\ refund[o].status = "NONE" =>
                 refund'[o].status = "PENDING" /\ refund'[o].id = serial[ShardOfOrder[o]] + 1
           /\ serial' = [serial EXCEPT ![ShardOfOrder[o]] = @ + 1]
  <1>1. /\ ShardOfOrder[o] \in RefundShards /\ serial[ShardOfOrder[o]] \in Nat
        /\ refund \in [NegOrders -> [status : {"NONE", "PENDING", "EXECUTED"}, id : Nat]]
        /\ serial \in [RefundShards -> Nat]
    BY RefundsAssumption DEF RefundTypeOK
  <1>2. CASE refund[o].status # "NONE"
    BY <1>1, <1>2 DEF Inserted, RowsKept
  <1>3. CASE refund[o].status = "NONE"
    <2>1. refund' = [refund EXCEPT ![o] = [status |-> "PENDING", id |-> serial[ShardOfOrder[o]] + 1]]
      BY <1>3 DEF Inserted
    <2>2. [status |-> "PENDING", id |-> serial[ShardOfOrder[o]] + 1]
             \in [status : {"NONE", "PENDING", "EXECUTED"}, id : Nat]
      BY <1>1
    <2> QED
      BY <1>1, <1>3, <2>1, <2>2 DEF Inserted, RowsKept
  <1> QED
    BY <1>2, <1>3

\* A step that credits nothing and leaves its runner outside the execution of
\* a refund.
LEMMA QuietStep ==
    ASSUME RefundInv, NEW w \in Runners, OnlyMoves(w), RowsKept, RefundTypeOK',
           runner'[w].pc \notin {"topup", "mark"}, UNCHANGED refunded
    PROVE  RefundInv'
  <1>1. RefundTypeOK /\ ExecutorInv /\ OneAtTopUp /\ NoRowNoCredit /\ RefundedOnce
    BY DEF RefundInv
  <1>2. ExecutorInv'
    BY <1>1 DEF ExecutorInv, ExecOK, OnlyMoves, RowsKept
  <1>3. OneAtTopUp'
    BY <1>1 DEF OneAtTopUp, OnlyMoves
  <1>4. NoRowNoCredit' /\ RefundedOnce'
    BY <1>1 DEF NoRowNoCredit, RefundedOnce, RowsKept
  <1> QED
    BY <1>2, <1>3, <1>4 DEF RefundInv

\* The steps of a run that are quiet: its start and end, an insert that fails,
\* one that finds the row already there or not to be executed, and the mark.
LEMMA QuietSteps ==
    ASSUME RefundInv, NEW w \in Runners,
           \/ \E rows \in SUBSET NegOrders : StartRun(w, rows)
           \/ \E o \in NegOrders : InsertRefund(w, o) /\ runner'[w].pc # "topup"
           \/ \E o \in NegOrders, applied \in BOOLEAN : InsertRefundError(w, o, applied)
           \/ \E shards \in SUBSET RefundShards : MarkExecuted(w, shards)
           \/ EndRun(w)
    PROVE  RefundInv'
  <1>1. /\ RefundTypeOK /\ runner \in [Runners -> RunnerStates]
        /\ DoneRunner \in RunnerStates /\ DoneRunner.pc = "done"
    BY DEF RefundInv, RefundTypeOK, RunnerStates, DoneRunner, IdleRunner
  <1>2. ASSUME NEW rows \in SUBSET NegOrders, StartRun(w, rows) PROVE RefundInv'
    <2>1. UNCHANGED <<refund, serial, refunded>>
      BY <1>2 DEF StartRun
    <2>2. OnlyMoves(w) /\ runner'[w].pc = "next" /\ runner' \in [Runners -> RunnerStates]
      BY <1>1, <1>2 DEF StartRun, OnlyMoves, RunnerStates
    <2>3. RefundTypeOK' /\ RowsKept
      BY <1>1, <2>1, <2>2 DEF RefundTypeOK, RunnerStates, RowsKept
    <2> QED
      BY <2>1, <2>2, <2>3, QuietStep
  <1>3. ASSUME NEW o \in NegOrders, InsertRefund(w, o), runner'[w].pc # "topup" PROVE RefundInv'
    <2>1. Inserted(o) /\ UNCHANGED refunded
      BY <1>3 DEF InsertRefund
    <2>2. refund'[o].id \in Nat
      BY <1>1, <2>1, InsertedRows
    <2>3. PICK pc \in {"topup", "next"} :
            runner' = [runner EXCEPT ![w] = [pc |-> pc, todo |-> runner[w].todo \ {o},
                                             id |-> refund'[o].id, order |-> o]]
      BY <1>3 DEF InsertRefund
    <2>4. OnlyMoves(w) /\ runner'[w].pc = "next" /\ runner' \in [Runners -> RunnerStates]
      BY <1>1, <1>3, <2>2, <2>3 DEF OnlyMoves, RunnerStates
    <2>5. RefundTypeOK' /\ RowsKept
      BY <1>1, <2>1, <2>4, InsertedRows DEF RefundTypeOK, RunnerStates
    <2> QED
      BY <2>1, <2>4, <2>5, QuietStep
  <1>4. ASSUME NEW o \in NegOrders, NEW applied \in BOOLEAN, InsertRefundError(w, o, applied)
        PROVE  RefundInv'
    <2>1. /\ Inserted(o) \/ UNCHANGED <<refund, serial>>
          /\ UNCHANGED refunded
          /\ runner' = [runner EXCEPT ![w] = DoneRunner]
      BY <1>4 DEF InsertRefundError
    <2>2. OnlyMoves(w) /\ runner'[w].pc = "done" /\ runner' \in [Runners -> RunnerStates]
      BY <1>1, <2>1 DEF OnlyMoves
    <2>3. /\ RowsKept
          /\ refund' \in [NegOrders -> [status : {"NONE", "PENDING", "EXECUTED"}, id : Nat]]
          /\ serial' \in [RefundShards -> Nat]
      <3>1. CASE Inserted(o)
        BY <1>1, <3>1, InsertedRows
      <3>2. CASE UNCHANGED <<refund, serial>>
        BY <1>1, <3>2 DEF RefundTypeOK, RowsKept
      <3> QED
        BY <2>1, <3>1, <3>2
    <2>4. RefundTypeOK'
      BY <1>1, <2>1, <2>2, <2>3 DEF RefundTypeOK, RunnerStates
    <2> QED
      BY <2>1, <2>2, <2>3, <2>4, QuietStep
  <1>5. ASSUME NEW shards \in SUBSET RefundShards, MarkExecuted(w, shards) PROVE RefundInv'
    <2>1. UNCHANGED <<serial, refunded>>
      BY <1>5 DEF MarkExecuted
    <2>2. OnlyMoves(w) /\ runner'[w].pc = "next" /\ runner' \in [Runners -> RunnerStates]
      BY <1>1, <1>5 DEF MarkExecuted, OnlyMoves, RunnerStates
    <2>3. /\ refund' \in [NegOrders -> [status : {"NONE", "PENDING", "EXECUTED"}, id : Nat]]
          /\ RowsKept
      <3>1. ASSUME NEW o \in NegOrders
            PROVE  /\ refund'[o] \in [status : {"NONE", "PENDING", "EXECUTED"}, id : Nat]
                   /\ refund[o].status # "NONE" => refund'[o].status # "NONE"
                   /\ refund'[o].id = refund[o].id
        BY <1>1, <1>5 DEF MarkExecuted, RefundTypeOK
      <3>2. refund' = [o \in NegOrders |-> refund'[o]]
        BY <1>5 DEF MarkExecuted
      <3> QED
        BY <3>1, <3>2 DEF RowsKept
    <2>4. RefundTypeOK'
      BY <1>1, <2>1, <2>2, <2>3 DEF RefundTypeOK, RunnerStates
    <2> QED
      BY <2>1, <2>2, <2>3, <2>4, QuietStep
  <1>6. ASSUME EndRun(w) PROVE RefundInv'
    <2>1. UNCHANGED <<refund, serial, refunded>> /\ runner' = [runner EXCEPT ![w] = DoneRunner]
      BY <1>6 DEF EndRun
    <2>2. OnlyMoves(w) /\ runner'[w].pc = "done" /\ runner' \in [Runners -> RunnerStates]
      BY <1>1, <2>1 DEF OnlyMoves
    <2>3. RefundTypeOK' /\ RowsKept
      BY <1>1, <2>1, <2>2 DEF RefundTypeOK, RunnerStates, RowsKept
    <2> QED
      BY <2>1, <2>2, <2>3, QuietStep
  <1> QED
    BY <1>2, <1>3, <1>4, <1>5, <1>6

\* The run that created an AUTO row goes on to credit it: the row is new, so
\* nothing was credited and no other run holds it.
LEMMA ExecuteStep ==
    ASSUME RefundInv, NEW w \in Runners, NEW o \in NegOrders,
           InsertRefund(w, o), runner'[w].pc = "topup"
    PROVE  RefundInv'
  <1>1. RefundTypeOK /\ ExecutorInv /\ OneAtTopUp /\ NoRowNoCredit /\ RefundedOnce
    BY DEF RefundInv
  <1>2. Inserted(o) /\ UNCHANGED refunded /\ runner[w].todo \in SUBSET NegOrders
    BY <1>1 DEF InsertRefund, RefundTypeOK
  <1>3. /\ RowsKept /\ refund'[o].status # "NONE" /\ refund'[o].id \in Nat
        /\ refund' \in [NegOrders -> [status : {"NONE", "PENDING", "EXECUTED"}, id : Nat]]
        /\ serial' \in [RefundShards -> Nat]
        /\ \A p \in NegOrders \ {o} : refund'[p] = refund[p]
    BY <1>1, <1>2, InsertedRows
  <1>4. PICK pc \in {"topup", "next"} :
          /\ runner' = [runner EXCEPT ![w] = [pc |-> pc, todo |-> runner[w].todo \ {o},
                                             id |-> refund'[o].id, order |-> o]]
          /\ pc = "topup" => refund[o].status = "NONE" /\ Level(o) = "AUTO"
    BY DEF InsertRefund
  <1>5. /\ OnlyMoves(w) /\ refund[o].status = "NONE" /\ Level(o) = "AUTO"
        /\ runner'[w].order = o /\ runner'[w].id = refund'[o].id
    BY <1>1, <1>4 DEF OnlyMoves, RefundTypeOK
  <1>6. RefundTypeOK'
    BY <1>1, <1>2, <1>3, <1>4 DEF RefundTypeOK
  <1>7. refunded[o] = 0
    BY <1>1, <1>5 DEF NoRowNoCredit
  <1>8. ExecutorInv'
    <2>1. ExecOK(w)'
      BY <1>2, <1>3, <1>5, <1>7 DEF ExecOK
    <2>2. ASSUME NEW v \in Runners, v # w PROVE ExecOK(v)'
      <3>1. ExecOK(v) /\ runner'[v] = runner[v]
        BY <1>1, <1>5, <2>2 DEF ExecutorInv, OnlyMoves
      <3> QED
        BY <1>2, <1>3, <3>1 DEF ExecOK, RowsKept
    <2> QED
      BY <2>1, <2>2 DEF ExecutorInv
  <1>9. OneAtTopUp'
    <2>1. \A v \in Runners : runner[v].pc = "topup" => runner[v].order # o
      BY <1>1, <1>5 DEF ExecutorInv, ExecOK
    <2>2. \A v \in Runners \ {w} : runner'[v].pc = "topup" => runner'[v].order # o
      BY <1>5, <2>1 DEF OnlyMoves
    <2> QED
      BY <1>1, <1>5, <2>2 DEF OneAtTopUp, OnlyMoves
  <1>10. NoRowNoCredit' /\ RefundedOnce'
    BY <1>1, <1>2, <1>3 DEF NoRowNoCredit, RefundedOnce, RowsKept
  <1> QED
    BY <1>6, <1>8, <1>9, <1>10 DEF RefundInv

\* TopUp, answered or not: the order was not credited before, so no run that
\* has credited it is waiting to mark it.
LEMMA TopUpStep ==
    ASSUME RefundInv, NEW w \in Runners,
           RefundTopUp(w) \/ \E applied \in BOOLEAN : RefundTopUpError(w, applied)
    PROVE  RefundInv'
  <1> DEFINE o == runner[w].order
  <1>1. RefundTypeOK /\ ExecutorInv /\ OneAtTopUp /\ NoRowNoCredit /\ RefundedOnce
    BY DEF RefundInv
  <1>2. /\ runner[w].pc = "topup" /\ UNCHANGED <<refund, serial>>
        /\ \/ refunded' = Credited(w) /\ runner' = [runner EXCEPT ![w].pc = "mark"]
           \/ refunded' = Credited(w) /\ runner' = [runner EXCEPT ![w].pc = "next"]
           \/ refunded' = refunded /\ runner' = [runner EXCEPT ![w].pc = "next"]
    BY DEF RefundTopUp, RefundTopUpError
  <1>3. /\ o \in NegOrders /\ Level(o) = "AUTO" /\ refund[o].status # "NONE"
        /\ refund[o].id = runner[w].id /\ refunded[o] = 0
    BY <1>1, <1>2 DEF ExecutorInv, ExecOK
  <1>4. /\ OnlyMoves(w) /\ RowsKept
        /\ runner'[w].order = o /\ runner'[w].id = runner[w].id
        /\ runner'[w].pc \in {"mark", "next"}
        /\ runner' \in [Runners -> RunnerStates]
    <2>1. PICK pc \in {"mark", "next"} : runner' = [runner EXCEPT ![w].pc = pc]
      BY <1>2
    <2> DEFINE s == [runner[w] EXCEPT !.pc = pc]
    <2>2. runner \in [Runners -> RunnerStates]
      BY <1>1 DEF RefundTypeOK, RunnerStates
    <2>3. /\ s \in RunnerStates /\ s.pc = pc /\ s.order = o /\ s.id = runner[w].id
          /\ runner' = [runner EXCEPT ![w] = s]
      BY <2>1, <2>2 DEF RunnerStates
    <2> HIDE DEF s
    <2>4. runner'[w] = s /\ runner' \in [Runners -> RunnerStates] /\ OnlyMoves(w)
      BY <2>2, <2>3 DEF OnlyMoves
    <2> QED
      BY <1>2, <2>1, <2>3, <2>4 DEF RowsKept
  <1>5. /\ refunded' \in [NegOrders -> Nat]
        /\ refunded'[o] \in {0, 1}
        /\ runner'[w].pc = "mark" => refunded'[o] = 1
        /\ \A p \in NegOrders \ {o} : refunded'[p] = refunded[p]
    <2>1. CASE refunded' = Credited(w)
      BY <1>1, <1>3, <2>1 DEF Credited, RefundTypeOK
    <2>2. CASE refunded' = refunded /\ runner' = [runner EXCEPT ![w].pc = "next"]
      BY <1>1, <1>3, <2>2 DEF RefundTypeOK
    <2> QED
      BY <1>2, <2>1, <2>2
  <1>6. RefundTypeOK'
    BY <1>1, <1>2, <1>4, <1>5 DEF RefundTypeOK, RunnerStates
  <1>7. ExecutorInv'
    <2>1. ExecOK(w)'
      BY <1>2, <1>3, <1>4, <1>5 DEF ExecOK
    <2>2. ASSUME NEW v \in Runners, v # w, runner[v].pc \in {"topup", "mark"}
          PROVE  runner[v].order # o
      BY <1>1, <1>2, <1>3, <2>2 DEF ExecutorInv, ExecOK, OneAtTopUp
    <2>3. ASSUME NEW v \in Runners, v # w PROVE ExecOK(v)'
      BY <1>1, <1>2, <1>4, <1>5, <2>2, <2>3 DEF ExecutorInv, ExecOK, OnlyMoves
    <2> QED
      BY <2>1, <2>3 DEF ExecutorInv
  <1>8. OneAtTopUp'
    BY <1>1, <1>4 DEF OneAtTopUp, OnlyMoves
  <1>9. NoRowNoCredit'
    BY <1>1, <1>2, <1>3, <1>5 DEF NoRowNoCredit
  <1>10. RefundedOnce'
    BY <1>1, <1>3, <1>5 DEF RefundedOnce
  <1> QED
    BY <1>6, <1>7, <1>8, <1>9, <1>10 DEF RefundInv

\* Every step of a reconciliation run preserves the invariant.
LEMMA RefundInvStep == RefundInv /\ [RefundNext]_refundVars => RefundInv'
  <1> SUFFICES ASSUME RefundInv, [RefundNext]_refundVars PROVE RefundInv'
    OBVIOUS
  <1>1. CASE UNCHANGED refundVars
    BY <1>1 DEF RefundInv, refundVars, RefundTypeOK, ExecutorInv, ExecOK, OneAtTopUp,
                NoRowNoCredit, RefundedOnce
  <1>2. CASE RefundNext
    BY <1>2, QuietSteps, ExecuteStep, TopUpStep DEF RefundNext
  <1> QED
    BY <1>1, <1>2

\* "callers must not re-execute" (refund.go), for any number of orders, shards
\* and overlapping runs, whatever fails or dies: an order is refunded at most
\* once, and only when no approval is needed.
THEOREM OrderRefundedOnce == RefundSpec => []RefundedOnce
  <1>1. RefundInv => RefundedOnce
    BY DEF RefundInv
  <1> QED
    BY <1>1, RefundInvInit, RefundInvStep, PTL DEF RefundSpec

\* A shard's ids are those its serial has handed out, each to one row.
UniqueIds ==
    /\ \A o \in NegOrders : refund[o].status # "NONE" => refund[o].id <= serial[ShardOfOrder[o]]
    /\ \A o, p \in NegOrders :
          /\ refund[o].status # "NONE" /\ refund[p].status # "NONE"
          /\ ShardOfOrder[o] = ShardOfOrder[p] /\ refund[o].id = refund[p].id
          => o = p

\* A run works on the orders of its own stores.
InReach ==
    \A w \in Runners :
        /\ \A o \in runner[w].todo : ShardOfOrder[o] \in ReachOf[w]
        /\ runner[w].pc \in {"topup", "mark"} => ShardOfOrder[runner[w].order] \in ReachOf[w]

MarkInv == RefundInv /\ UniqueIds /\ InReach /\ ExecutedIsCredited

\* The same for any stores: an executed row has the id of a credited one.
CreditedIds ==
    \A o \in NegOrders : refund[o].status = "EXECUTED" =>
        \E q \in NegOrders :
           refunded[q] = 1 /\ refund[q].status # "NONE" /\ refund[q].id = refund[o].id

MarkedInv == RefundInv /\ UniqueIds /\ InReach /\ CreditedIds

\* The run was given one store: cmd/reconcile always is, the admin API is
\* when there is one shard.
OneStore == \A w \in Runners : \A s, t \in ReachOf[w] : s = t

\* Ids stay unique, and runs stay within their stores.
LEMMA IdsStep ==
    ASSUME RefundInv, UniqueIds, InReach, RefundNext
    PROVE  UniqueIds' /\ InReach'
  <1>1. RefundTypeOK /\ RefundTypeOK'
    BY RefundInvStep DEF RefundInv, RefundTypeOK
  <1>2. UniqueIds'
    <2>1. ASSUME NEW o \in NegOrders, Inserted(o) PROVE UniqueIds'
      <3>1. /\ refund'[o].status # "NONE"
            /\ \A p \in NegOrders \ {o} : refund'[p] = refund[p]
            /\ refund[o].status # "NONE" => refund'[o] = refund[o]
            /\ refund[o].status = "NONE" => refund'[o].id = serial[ShardOfOrder[o]] + 1
        BY <1>1, <2>1, InsertedRows
      <3>2. /\ \A s \in RefundShards : serial'[s] \in Nat /\ serial[s] \in Nat /\ serial'[s] >= serial[s]
            /\ serial'[ShardOfOrder[o]] = serial[ShardOfOrder[o]] + 1
            /\ \A p \in NegOrders : ShardOfOrder[p] \in RefundShards
            /\ \A p \in NegOrders : refund[p].id \in Nat /\ refund'[p].id \in Nat
        BY <1>1, <2>1, RefundsAssumption DEF Inserted, RefundTypeOK
      <3>3. ASSUME NEW p \in NegOrders, refund'[p].status # "NONE"
            PROVE  refund'[p].id <= serial'[ShardOfOrder[p]]
        <4>1. CASE p = o /\ refund[o].status = "NONE"
          BY <3>1, <3>2, <4>1
        <4>2. CASE refund'[p] = refund[p]
          <5>1. refund[p].id <= serial[ShardOfOrder[p]]
            BY <3>3, <4>2 DEF UniqueIds
          <5> QED
            BY <3>2, <4>2, <5>1
        <4> QED
          BY <3>1, <4>1, <4>2
      <3>4. ASSUME NEW p \in NegOrders, NEW q \in NegOrders, p # q,
                   refund'[p].status # "NONE", refund'[q].status # "NONE",
                   ShardOfOrder[p] = ShardOfOrder[q], refund'[p].id = refund'[q].id
            PROVE  FALSE
        <4>1. \A u \in NegOrders : refund[u].status # "NONE" => refund[u].id <= serial[ShardOfOrder[u]]
          BY DEF UniqueIds
        <4>2. CASE refund'[p] = refund[p] /\ refund'[q] = refund[q]
          BY <3>4, <4>2 DEF UniqueIds
        <4>3. CASE p = o /\ refund[o].status = "NONE"
          BY <3>1, <3>2, <3>4, <4>1, <4>3
        <4>4. CASE q = o /\ refund[o].status = "NONE"
          BY <3>1, <3>2, <3>4, <4>1, <4>4
        <4> QED
          BY <3>1, <4>2, <4>3, <4>4
      <3> QED
        BY <3>3, <3>4 DEF UniqueIds
    <2>2. ASSUME UNCHANGED <<refund, serial>> PROVE UniqueIds'
      BY <2>2 DEF UniqueIds
    <2>3. ASSUME NEW w \in Runners, NEW shards \in SUBSET RefundShards, MarkExecuted(w, shards)
          PROVE  UniqueIds'
      <3>1. \A o \in NegOrders : /\ refund'[o].id = refund[o].id
                                 /\ refund'[o].status # "NONE" => refund[o].status # "NONE"
        BY <1>1, <2>3 DEF MarkExecuted, RefundTypeOK
      <3>2. serial' = serial
        BY <2>3 DEF MarkExecuted
      <3> QED
        BY <3>1, <3>2 DEF UniqueIds
    <2> QED
      BY <2>1, <2>2, <2>3 DEF RefundNext, StartRun, InsertRefund, InsertRefundError,
                              RefundTopUp, RefundTopUpError, EndRun
  <1>3. InReach'
    <2> SUFFICES ASSUME NEW v \in Runners
                 PROVE  /\ \A o \in runner'[v].todo : ShardOfOrder[o] \in ReachOf[v]
                        /\ runner'[v].pc \in {"topup", "mark"} =>
                              ShardOfOrder[runner'[v].order] \in ReachOf[v]
      BY DEF InReach
    <2>1. /\ \A o \in runner[v].todo : o \in NegOrders /\ ShardOfOrder[o] \in ReachOf[v]
          /\ runner[v].pc \in {"topup", "mark"} => ShardOfOrder[runner[v].order] \in ReachOf[v]
      BY <1>1 DEF InReach, RefundTypeOK
    <2>2. PICK u \in Runners :
            \/ \E rows \in SUBSET NegOrders : StartRun(u, rows)
            \/ \E o \in NegOrders : InsertRefund(u, o)
            \/ runner' = [runner EXCEPT ![u] = DoneRunner]
            \/ runner[u].pc = "topup" /\ runner' = [runner EXCEPT ![u].pc = "mark"]
            \/ runner' = [runner EXCEPT ![u].pc = "next"]
      BY DEF RefundNext, InsertRefundError, RefundTopUp, RefundTopUpError, MarkExecuted, EndRun
    <2>3. ASSUME NEW rows \in SUBSET NegOrders, StartRun(u, rows)
          PROVE  /\ \A o \in rows : ShardOfOrder[o] \in ReachOf[u]
                 /\ runner' = [runner EXCEPT ![u].pc = "next", ![u].todo = rows]
      BY <2>3, RefundsAssumption DEF StartRun, NegativeAmountOrders
    <2>4. ASSUME NEW o \in NegOrders, InsertRefund(u, o)
          PROVE  /\ o \in runner[u].todo
                 /\ \E pc \in {"topup", "next"} :
                      runner' = [runner EXCEPT ![u] = [pc |-> pc, todo |-> runner[u].todo \ {o},
                                                       id |-> refund'[o].id, order |-> o]]
      BY <2>4 DEF InsertRefund
    <2>5. DoneRunner.todo = {} /\ DoneRunner.pc = "done"
      BY DEF DoneRunner, IdleRunner
    <2>6. CASE u # v
      <3>1. runner'[v] = runner[v]
        BY <1>1, <2>2, <2>3, <2>4, <2>6 DEF RefundTypeOK
      <3> QED
        BY <2>1, <3>1
    <2>7. CASE u = v
      <3>1. runner \in [Runners -> [pc : {"idle", "next", "topup", "mark", "done"},
                               todo : SUBSET NegOrders, id : Nat, order : NegOrders \cup {NoOrder}]]
        BY <1>1 DEF RefundTypeOK
      <3>2. ASSUME NEW rows \in SUBSET NegOrders, StartRun(u, rows)
            PROVE  runner'[v].todo = rows /\ runner'[v].pc = "next"
        BY <2>3, <2>7, <3>1, <3>2
      <3>3. ASSUME NEW o \in NegOrders, InsertRefund(u, o)
            PROVE  runner'[v].todo = runner[v].todo \ {o} /\ runner'[v].order = o
        BY <2>4, <2>7, <3>1, <3>3
      <3>4. ASSUME runner' = [runner EXCEPT ![u] = DoneRunner]
            PROVE  runner'[v].todo = {} /\ runner'[v].pc = "done"
        BY <2>5, <2>7, <3>1, <3>4
      <3>5. ASSUME NEW pc, runner' = [runner EXCEPT ![u].pc = pc]
            PROVE  /\ runner'[v].todo = runner[v].todo /\ runner'[v].order = runner[v].order
                   /\ runner'[v].pc = pc
        BY <2>7, <3>1, <3>5
      <3>6. CASE \E rows \in SUBSET NegOrders : StartRun(u, rows)
        BY <2>3, <2>7, <3>2, <3>6
      <3>7. CASE \E o \in NegOrders : InsertRefund(u, o)
        BY <2>1, <2>4, <2>7, <3>3, <3>7
      <3>8. CASE runner' = [runner EXCEPT ![u] = DoneRunner]
        BY <3>4, <3>8
      <3>9. CASE runner[u].pc = "topup" /\ runner' = [runner EXCEPT ![u].pc = "mark"]
        BY <2>1, <2>7, <3>5, <3>9
      <3>10. CASE runner' = [runner EXCEPT ![u].pc = "next"]
        BY <2>1, <3>5, <3>10
      <3> QED
        BY <2>2, <3>6, <3>7, <3>8, <3>9, <3>10
    <2> QED
      BY <2>6, <2>7
  <1> QED
    BY <1>2, <1>3

\* What is marked was credited: of the rows of the one store the run has, the
\* id it holds is that of the order it credited.
LEMMA ExecutedStep ==
    ASSUME OneStore, MarkInv, [RefundNext]_refundVars
    PROVE  MarkInv'
  <1>1. RefundInv /\ UniqueIds /\ InReach /\ ExecutedIsCredited /\ RefundTypeOK
    BY DEF MarkInv, RefundInv
  <1>2. RefundInv'
    BY <1>1, RefundInvStep
  <1>3. CASE UNCHANGED refundVars
    BY <1>1, <1>2, <1>3 DEF MarkInv, UniqueIds, InReach, ExecutedIsCredited, refundVars
  <1>4. CASE RefundNext
    <2>1. UniqueIds' /\ InReach'
      BY <1>1, <1>4, IdsStep
    <2>2. ASSUME NEW w \in Runners, NEW shards \in SUBSET RefundShards, MarkExecuted(w, shards)
          PROVE  ExecutedIsCredited'
      <3> DEFINE m == runner[w].order
      <3>1. /\ m \in NegOrders /\ refund[m].status # "NONE" /\ refund[m].id = runner[w].id
            /\ refunded[m] = 1 /\ ShardOfOrder[m] \in ReachOf[w]
            /\ shards \subseteq ReachOf[w] /\ refunded' = refunded
        BY <1>1, <2>2 DEF MarkExecuted, RefundInv, ExecutorInv, ExecOK, InReach
      <3>2. ASSUME NEW o \in NegOrders, refund'[o].status = "EXECUTED" PROVE refunded'[o] = 1
        <4>1. CASE refund'[o] = refund[o]
          BY <1>1, <3>1, <3>2, <4>1 DEF ExecutedIsCredited
        <4>2. CASE refund'[o] # refund[o]
          <5>1. /\ ShardOfOrder[o] \in shards
                /\ refund[o] = [status |-> "PENDING", id |-> runner[w].id]
            BY <2>2, <4>2 DEF MarkExecuted
          <5>2. /\ refund[o].status # "NONE" /\ refund[o].id = refund[m].id
                /\ ShardOfOrder[o] = ShardOfOrder[m]
            BY <3>1, <5>1 DEF OneStore
          <5>3. o = m
            BY <1>1, <3>1, <5>2 DEF UniqueIds
          <5> QED
            BY <3>1, <5>3
        <4> QED
          BY <4>1, <4>2
      <3> QED
        BY <3>2 DEF ExecutedIsCredited
    <2>3. ASSUME NEW o \in NegOrders, Inserted(o), UNCHANGED refunded PROVE ExecutedIsCredited'
      BY <1>1, <2>3, InsertedRows DEF ExecutedIsCredited
    <2>4. ASSUME UNCHANGED <<refund, refunded>> PROVE ExecutedIsCredited'
      BY <1>1, <2>4 DEF ExecutedIsCredited
    <2>5. ASSUME NEW w \in Runners, runner[w].pc = "topup", refunded' = Credited(w),
                 UNCHANGED refund
          PROVE  ExecutedIsCredited'
      <3>1. runner[w].order \in NegOrders /\ refunded[runner[w].order] = 0
        BY <1>1, <2>5 DEF RefundInv, ExecutorInv, ExecOK
      <3> QED
        BY <1>1, <2>5, <3>1 DEF ExecutedIsCredited, Credited, RefundTypeOK
    <2>6. ExecutedIsCredited'
      BY <1>4, <2>2, <2>3, <2>4, <2>5 DEF RefundNext, StartRun, InsertRefund, InsertRefundError,
                                          RefundTopUp, RefundTopUpError, EndRun
    <2> QED
      BY <1>2, <2>1, <2>6 DEF MarkInv
  <1> QED
    BY <1>3, <1>4

\* "executing it credits the user's Redis balance and marks the refund
\* EXECUTED" (engine.go): what is marked EXECUTED was credited, when a run has
\* one store.  (With several, MarkExecuted tries the id on all of them.)
THEOREM OneStoreExecutedIsCredited ==
    ASSUME OneStore
    PROVE  RefundSpec => []ExecutedIsCredited
  <1>1. RefundInit => MarkInv
    <2> SUFFICES ASSUME RefundInit PROVE MarkInv
      OBVIOUS
    <2>1. RefundInv
      BY RefundInvInit
    <2>2. /\ \A o \in NegOrders : refund[o].status = "NONE"
          /\ \A w \in Runners : runner[w].todo = {} /\ runner[w].pc = "idle"
      BY DEF RefundInit, NoRefund, IdleRunner
    <2> QED
      BY <2>1, <2>2 DEF MarkInv, UniqueIds, InReach, ExecutedIsCredited
  <1>2. MarkInv /\ [RefundNext]_refundVars => MarkInv'
    BY ExecutedStep
  <1>3. MarkInv => ExecutedIsCredited
    BY DEF MarkInv
  <1> QED
    BY <1>1, <1>2, <1>3, PTL DEF RefundSpec

\* A step that keeps the rows and the credits there are, and executes none,
\* keeps the credit behind each executed row.
LEMMA CreditedIdsKept ==
    ASSUME CreditedIds, RowsKept,
           \A q \in NegOrders : refunded[q] = 1 => refunded'[q] = 1,
           \A o \in NegOrders : refund'[o].status = "EXECUTED" => refund[o].status = "EXECUTED"
    PROVE  CreditedIds'
  <1> SUFFICES ASSUME NEW o \in NegOrders, refund'[o].status = "EXECUTED"
               PROVE  \E q \in NegOrders : /\ refunded'[q] = 1 /\ refund'[q].status # "NONE"
                                            /\ refund'[q].id = refund'[o].id
    BY DEF CreditedIds
  <1>1. refund[o].status = "EXECUTED" /\ refund'[o].id = refund[o].id
    BY DEF RowsKept
  <1>2. PICK q \in NegOrders :
          refunded[q] = 1 /\ refund[q].status # "NONE" /\ refund[q].id = refund[o].id
    BY <1>1 DEF CreditedIds
  <1> QED
    BY <1>1, <1>2 DEF RowsKept

\* A mark goes by the id of the refund that its run has credited.
LEMMA MarkedStep ==
    ASSUME MarkedInv, [RefundNext]_refundVars
    PROVE  MarkedInv'
  <1>1. RefundInv /\ UniqueIds /\ InReach /\ CreditedIds /\ RefundTypeOK
    BY DEF MarkedInv, RefundInv
  <1>2. RefundInv'
    BY <1>1, RefundInvStep
  <1>3. CASE UNCHANGED refundVars
    BY <1>1, <1>2, <1>3 DEF MarkedInv, UniqueIds, InReach, CreditedIds, refundVars
  <1>4. CASE RefundNext
    <2>1. UniqueIds' /\ InReach'
      BY <1>1, <1>4, IdsStep
    <2>2. ASSUME NEW w \in Runners, NEW shards \in SUBSET RefundShards, MarkExecuted(w, shards)
          PROVE  CreditedIds'
      <3>1. PICK m \in NegOrders : /\ refund[m].status # "NONE" /\ refund[m].id = runner[w].id
                                   /\ refunded[m] = 1
        BY <1>1, <2>2 DEF MarkExecuted, RefundInv, ExecutorInv, ExecOK
      <3>2. /\ RowsKept /\ refunded' = refunded
            /\ \A o \in NegOrders : \/ refund'[o] = refund[o]
                                     \/ refund'[o].id = runner[w].id
        BY <1>1, <2>2 DEF MarkExecuted, RowsKept, RefundTypeOK
      <3>3. ASSUME NEW o \in NegOrders, refund'[o].status = "EXECUTED"
            PROVE  \E q \in NegOrders : /\ refunded'[q] = 1 /\ refund'[q].status # "NONE"
                                         /\ refund'[q].id = refund'[o].id
        <4>1. CASE refund'[o] = refund[o]
          <5>1. PICK q \in NegOrders :
                  refunded[q] = 1 /\ refund[q].status # "NONE" /\ refund[q].id = refund[o].id
            BY <1>1, <3>3, <4>1 DEF CreditedIds
          <5> QED
            BY <3>2, <4>1, <5>1 DEF RowsKept
        <4>2. CASE refund'[o].id = runner[w].id
          BY <3>1, <3>2, <4>2 DEF RowsKept
        <4> QED
          BY <3>2, <4>1, <4>2
      <3> QED
        BY <3>3 DEF CreditedIds
    <2>3. ASSUME NEW o \in NegOrders, Inserted(o), UNCHANGED refunded PROVE CreditedIds'
      <3>1. RowsKept
        BY <1>1, <2>3, InsertedRows
      <3>2. \A p \in NegOrders : refund'[p].status = "EXECUTED" => refund[p].status = "EXECUTED"
        BY <1>1, <2>3, InsertedRows
      <3> QED
        BY <1>1, <2>3, <3>1, <3>2, CreditedIdsKept
    <2>4. ASSUME UNCHANGED <<refund, refunded>> PROVE CreditedIds'
      BY <1>1, <2>4 DEF CreditedIds
    <2>5. ASSUME NEW w \in Runners, runner[w].pc = "topup", refunded' = Credited(w),
                 UNCHANGED refund
          PROVE  CreditedIds'
      <3>1. runner[w].order \in NegOrders /\ refunded[runner[w].order] = 0
        BY <1>1, <2>5 DEF RefundInv, ExecutorInv, ExecOK
      <3>2. \A q \in NegOrders : refunded[q] = 1 => refunded'[q] = 1
        BY <1>1, <2>5, <3>1 DEF Credited, RefundTypeOK
      <3> QED
        BY <1>1, <2>5, <3>2, CreditedIdsKept DEF RowsKept
    <2>6. CreditedIds'
      BY <1>4, <2>2, <2>3, <2>4, <2>5 DEF RefundNext, StartRun, InsertRefund, InsertRefundError,
                                          RefundTopUp, RefundTopUpError, EndRun
    <2> QED
      BY <1>2, <2>1, <2>6 DEF MarkedInv
  <1> QED
    BY <1>3, <1>4

\* MarkExecuted of a ShardedStore, for any shards, orders and overlapping runs:
\* a refund is marked EXECUTED when it was credited, or when one of another
\* shard with the same id was.
THEOREM MarksFollowCredits == RefundSpec => []MarkFollowsCredit
  <1>1. RefundInit => MarkedInv
    <2> SUFFICES ASSUME RefundInit PROVE MarkedInv
      OBVIOUS
    <2>1. RefundInv
      BY RefundInvInit
    <2>2. /\ \A o \in NegOrders : refund[o].status = "NONE"
          /\ \A w \in Runners : runner[w].todo = {} /\ runner[w].pc = "idle"
      BY DEF RefundInit, NoRefund, IdleRunner
    <2> QED
      BY <2>1, <2>2 DEF MarkedInv, UniqueIds, InReach, CreditedIds
  <1>2. MarkedInv /\ [RefundNext]_refundVars => MarkedInv'
    BY MarkedStep
  <1>3. MarkedInv => MarkFollowsCredit
    <2> SUFFICES ASSUME MarkedInv, NEW o \in NegOrders, refund[o].status = "EXECUTED"
                 PROVE  \E q \in NegOrders :
                          /\ refunded[q] = 1 /\ refund[q].id = refund[o].id
                          /\ q = o \/ ShardOfOrder[q] # ShardOfOrder[o]
      BY DEF MarkFollowsCredit
    <2>1. PICK q \in NegOrders :
            refunded[q] = 1 /\ refund[q].status # "NONE" /\ refund[q].id = refund[o].id
      BY DEF MarkedInv, CreditedIds
    <2>2. q = o \/ ShardOfOrder[q] # ShardOfOrder[o]
      BY <2>1 DEF MarkedInv, UniqueIds
    <2> QED
      BY <2>1, <2>2
  <1> QED
    BY <1>1, <1>2, <1>3, PTL DEF RefundSpec

-----------------------------------------------------------------------------
(* DetailSink *)

DetailTypeOK ==
    /\ dbuf \subseteq DetailRows
    /\ emitter \in [DetailRows -> {"idle", "flush", "send", "done"}]
    /\ taken \in [FlushCallers -> SUBSET DetailRows]
    /\ loop \in {"select", "exited"}
    /\ closer \in {"idle", "flush", "wait", "closed"}
    /\ sent \in [DetailRows -> Nat]
    /\ lost \in [DetailRows -> {"no", "send", "closed"}]
    /\ accepted \subseteq DetailRows

\* A row is nowhere before its Emit, and in one place after it.
Untouched(r) == sent[r] = 0 /\ lost[r] = "no"

RowPlaced(r) ==
    /\ emitter[r] = "idle" => r \notin dbuf /\ Untouched(r)
    /\ r \in dbuf => Untouched(r)
    /\ \A f \in FlushCallers : r \in taken[f] =>
         /\ emitter[r] # "idle" /\ r \notin dbuf /\ Untouched(r)
         /\ \A g \in FlushCallers : r \in taken[g] => f = g
    /\ \/ emitter[r] = "idle"
       \/ r \in dbuf
       \/ \E f \in FlushCallers : r \in taken[f]
       \/ sent[r] = 1 /\ lost[r] = "no"
       \/ sent[r] = 0 /\ lost[r] # "no"

\* Where the calls of flush and of Close are, and what Close has left to do
\* for the rows it must not lose.
FlushPhases ==
    /\ \A r \in DetailRows : taken[r] # {} => emitter[r] = "send"
    /\ loop = "exited" => taken["loop"] = {}
    /\ closer # "wait" => taken["close"] = {}
    /\ closer = "closed" => loop = "exited"
    /\ closer # "closed" => \A r \in DetailRows : lost[r] # "closed"
    /\ closer = "idle" => accepted = {}
    /\ accepted # {} =>
         /\ \A r \in DetailRows : emitter[r] \in {"idle", "done"}
         /\ \A r \in accepted : emitter[r] = "done"
         /\ closer # "flush" => dbuf = {}

DetailInv ==
    /\ DetailTypeOK
    /\ \A r \in DetailRows : RowPlaced(r)
    /\ FlushPhases
    /\ GracefulCloseSends

\* The three kinds of callers are distinct.
LEMMA Callers ==
    /\ "loop" \in FlushCallers /\ "close" \in FlushCallers /\ "loop" # "close"
    /\ \A r \in DetailRows : r \in FlushCallers /\ r # "loop" /\ r # "close"
BY DetailAssumption DEF FlushCallers, DetailAssumption

\* The sink starts with an empty buffer and no call running.
LEMMA DetailInvInit == DetailInit => DetailInv
BY Callers
DEF DetailInit, DetailInv, DetailTypeOK, RowPlaced, Untouched, FlushPhases, GracefulCloseSends

\* flush takes the buffer: each row of it goes from there to the caller.
LEMMA TakeRowsPlaces ==
    ASSUME DetailTypeOK, \A r \in DetailRows : RowPlaced(r), NEW f \in FlushCallers, TakeRows(f),
           NEW r \in DetailRows, emitter'[r] = "idle" <=> emitter[r] = "idle"
    PROVE  RowPlaced(r)'
<1>1. /\ taken[f] = {} /\ taken' = [taken EXCEPT ![f] = dbuf] /\ dbuf' = {}
      /\ sent' = sent /\ lost' = lost
  BY DEF TakeRows
<1>2. /\ taken'[f] = dbuf
      /\ \A g \in FlushCallers : g # f => taken'[g] = taken[g]
  BY <1>1 DEF DetailTypeOK
<1>3. RowPlaced(r)
  OBVIOUS
<1> QED BY <1>1, <1>2, <1>3 DEF RowPlaced, Untouched

\* flush ends: each row it held is sent or lost.
LEMMA SendBatchPlaces ==
    ASSUME DetailTypeOK, \A r \in DetailRows : RowPlaced(r), NEW f \in FlushCallers, SendBatch(f),
           NEW r \in DetailRows, emitter'[r] = "idle" <=> emitter[r] = "idle"
    PROVE  RowPlaced(r)'
<1>1. taken' = [taken EXCEPT ![f] = {}] /\ dbuf' = dbuf
  BY DEF SendBatch
<1>2. /\ taken'[f] = {}
      /\ \A g \in FlushCallers : g # f => taken'[g] = taken[g]
  BY <1>1 DEF DetailTypeOK
<1>3. RowPlaced(r)
  OBVIOUS
<1>4. CASE r \notin taken[f]
  <2>1. sent'[r] = sent[r] /\ lost'[r] = lost[r]
    BY <1>4 DEF SendBatch
  <2> QED BY <1>1, <1>2, <1>3, <1>4, <2>1 DEF RowPlaced, Untouched
<1>5. CASE r \in taken[f]
  <2>1. /\ emitter[r] # "idle" /\ r \notin dbuf /\ Untouched(r)
        /\ \A g \in FlushCallers : r \notin taken'[g]
    BY <1>2, <1>3, <1>5 DEF RowPlaced
  <2>2. \/ sent'[r] = 1 /\ lost'[r] = "no"
        \/ sent'[r] = 0 /\ lost'[r] # "no"
    BY <1>5, <2>1 DEF SendBatch, Untouched
  <2> QED BY <1>1, <2>1, <2>2 DEF RowPlaced
<1> QED BY <1>4, <1>5

\* Every step keeps each row in its one place.
LEMMA RowPlacedStep ==
    ASSUME DetailTypeOK, FlushPhases, \A r \in DetailRows : RowPlaced(r),
           [DetailNext]_detailVars, NEW r \in DetailRows
    PROVE  RowPlaced(r)'
<1>1. RowPlaced(r)
  OBVIOUS
<1>2. ASSUME NEW e \in DetailRows, AppendRow(e) PROVE RowPlaced(r)'
  <2>1. /\ dbuf' = dbuf \cup {e} /\ UNCHANGED <<taken, sent, lost>>
        /\ emitter[e] = "idle" /\ emitter'[e] # "idle"
        /\ r # e => emitter'[r] = emitter[r]
    BY <1>2 DEF AppendRow, DetailTypeOK
  <2> QED BY <1>1, <2>1 DEF RowPlaced, Untouched
<1>3. ASSUME NEW e \in DetailRows, EmitTakes(e) PROVE RowPlaced(r)'
  <2>1. emitter'[r] = "idle" <=> emitter[r] = "idle"
    BY <1>3 DEF EmitTakes, DetailTypeOK
  <2> QED BY <1>3, <2>1, Callers, TakeRowsPlaces DEF EmitTakes
<1>4. ASSUME NEW e \in DetailRows, EmitSends(e) PROVE RowPlaced(r)'
  <2>1. taken[e] # {} /\ emitter' = [emitter EXCEPT ![e] = "done"]
    BY <1>4 DEF EmitSends, SendBatch
  <2> QED BY <1>4, <2>1, Callers, SendBatchPlaces DEF EmitSends, DetailTypeOK, FlushPhases
<1>5. CASE LoopTakes \/ CloseTakes
  BY <1>5, Callers, TakeRowsPlaces DEF LoopTakes, CloseTakes
<1>6. CASE LoopSends \/ CloseSends
  BY <1>6, Callers, SendBatchPlaces DEF LoopSends, CloseSends
<1>7. CASE UNCHANGED <<dbuf, emitter, taken, sent, lost>>
  BY <1>1, <1>7 DEF RowPlaced, Untouched
<1> QED
  BY <1>2, <1>3, <1>4, <1>5, <1>6, <1>7
  DEF DetailNext, WaitPasses, LoopExits, StartDetailClose, CloseConn, detailVars

\* Every step keeps the types.
LEMMA DetailTypeStep == DetailTypeOK /\ [DetailNext]_detailVars => DetailTypeOK'
<1> SUFFICES ASSUME DetailTypeOK, [DetailNext]_detailVars PROVE DetailTypeOK'
  OBVIOUS
<1>1. ASSUME NEW f \in FlushCallers, TakeRows(f),
             emitter' \in [DetailRows -> {"idle", "flush", "send", "done"}],
             loop' = loop, closer' \in {"idle", "flush", "wait", "closed"}
      PROVE  DetailTypeOK'
  BY <1>1 DEF TakeRows, DetailTypeOK
<1>2. ASSUME NEW f \in FlushCallers, SendBatch(f),
             emitter' \in [DetailRows -> {"idle", "flush", "send", "done"}],
             loop' = loop, closer' = closer
      PROVE  DetailTypeOK'
  <2>1. taken' \in [FlushCallers -> SUBSET DetailRows] /\ dbuf' = dbuf /\ accepted' = accepted
    BY <1>2 DEF SendBatch, DetailTypeOK
  <2>2. sent' \in [DetailRows -> Nat]
    BY <1>2 DEF SendBatch, DetailTypeOK
  <2>3. lost' \in [DetailRows -> {"no", "send", "closed"}]
    BY <1>2 DEF SendBatch, DetailTypeOK
  <2> QED BY <1>2, <2>1, <2>2, <2>3 DEF DetailTypeOK
<1>3. ASSUME NEW r \in DetailRows, AppendRow(r) \/ EmitTakes(r) \/ EmitSends(r)
      PROVE  DetailTypeOK'
  <2>1. CASE AppendRow(r)
    BY <2>1 DEF AppendRow, DetailTypeOK
  <2>2. CASE EmitTakes(r)
    BY <1>1, <2>2, Callers DEF EmitTakes, DetailTypeOK
  <2>3. CASE EmitSends(r)
    BY <1>2, <2>3, Callers DEF EmitSends, DetailTypeOK
  <2> QED BY <1>3, <2>1, <2>2, <2>3
<1>4. CASE LoopTakes \/ CloseTakes
  BY <1>1, <1>4, Callers DEF LoopTakes, CloseTakes, DetailTypeOK
<1>5. CASE LoopSends \/ CloseSends
  BY <1>2, <1>5, Callers DEF LoopSends, CloseSends, DetailTypeOK
<1>6. CASE WaitPasses \/ LoopExits \/ StartDetailClose \/ CloseConn \/ UNCHANGED detailVars
  BY <1>6 DEF WaitPasses, LoopExits, StartDetailClose, CloseConn, detailVars, DetailTypeOK
<1> QED BY <1>3, <1>4, <1>5, <1>6 DEF DetailNext

\* Every step keeps the phases of the calls: a row that was accepted before
\* Close can be neither in the buffer nor with a flush when the connection is
\* closed, because Close flushes after close(done) and waits for flushLoop.
LEMMA FlushPhasesStep ==
    DetailInv /\ [DetailNext]_detailVars => FlushPhases' /\ GracefulCloseSends'
<1> SUFFICES ASSUME DetailInv, [DetailNext]_detailVars
             PROVE  FlushPhases' /\ GracefulCloseSends'
  OBVIOUS
<1> USE Callers
<1>0. DetailTypeOK /\ FlushPhases /\ GracefulCloseSends /\ \A r \in DetailRows : RowPlaced(r)
  BY DEF DetailInv
<1>1. ASSUME NEW r \in DetailRows, AppendRow(r) PROVE FlushPhases' /\ GracefulCloseSends'
  <2>1. /\ UNCHANGED <<taken, loop, closer, sent, lost>> /\ accepted' = {}
        /\ emitter[r] = "idle" /\ \A q \in DetailRows : q # r => emitter'[q] = emitter[q]
    BY <1>0, <1>1 DEF AppendRow, DetailTypeOK
  <2> QED BY <1>0, <2>1 DEF FlushPhases, GracefulCloseSends
<1>2. ASSUME NEW r \in DetailRows, EmitTakes(r) PROVE FlushPhases' /\ GracefulCloseSends'
  <2>1. /\ UNCHANGED <<loop, closer, sent, lost, accepted>>
        /\ emitter[r] = "flush" /\ dbuf' = {}
        /\ taken'[r] = dbuf /\ \A f \in FlushCallers : f # r => taken'[f] = taken[f]
        /\ emitter'[r] = IF dbuf = {} THEN "done" ELSE "send"
        /\ \A q \in DetailRows : q # r => emitter'[q] = emitter[q]
    BY <1>0, <1>2 DEF EmitTakes, TakeRows, DetailTypeOK
  <2>2. accepted = {}
    BY <1>0, <2>1 DEF FlushPhases
  <2> QED BY <1>0, <2>1, <2>2 DEF FlushPhases, GracefulCloseSends
<1>3. ASSUME NEW f \in FlushCallers, SendBatch(f), UNCHANGED <<loop, closer>>,
             \A q \in DetailRows : emitter'[q] = IF q = f THEN "done" ELSE emitter[q]
      PROVE  FlushPhases' /\ GracefulCloseSends'
  <2>1. /\ UNCHANGED <<dbuf, accepted>> /\ taken[f] # {}
        /\ taken'[f] = {} /\ \A g \in FlushCallers : g # f => taken'[g] = taken[g]
    BY <1>0, <1>3 DEF SendBatch, DetailTypeOK
  <2>2. \A q \in DetailRows : q \notin taken[f] => sent'[q] = sent[q] /\ lost'[q] = lost[q]
    BY <1>3 DEF SendBatch
  <2>3. closer # "closed" => \A q \in DetailRows : lost'[q] # "closed"
    BY <1>0, <1>3 DEF SendBatch, FlushPhases
  <2>4. GracefulCloseSends'
    <3> SUFFICES ASSUME closer = "closed", NEW q \in accepted
                 PROVE  sent'[q] = 1 \/ lost'[q] = "send"
      BY <1>3, <2>1 DEF GracefulCloseSends
    <3>1. q \in DetailRows /\ (sent[q] = 1 \/ lost[q] = "send")
      BY <1>0 DEF GracefulCloseSends, DetailTypeOK
    <3>2. q \notin taken[f]
      BY <1>0, <3>1 DEF RowPlaced, Untouched
    <3> QED BY <2>2, <3>1, <3>2
  <2>5. f \in DetailRows => emitter[f] = "send"
    BY <1>0, <2>1 DEF FlushPhases
  <2>6. accepted \subseteq DetailRows
    BY <1>0 DEF DetailTypeOK
  <2>7. FlushPhases'
    BY <1>0, <1>3, <2>1, <2>3, <2>5, <2>6 DEF FlushPhases
  <2> QED BY <2>4, <2>7
<1>4. ASSUME NEW r \in DetailRows, EmitSends(r) PROVE FlushPhases' /\ GracefulCloseSends'
  BY <1>0, <1>3, <1>4 DEF EmitSends, DetailTypeOK
<1>5. CASE LoopSends \/ CloseSends
  BY <1>3, <1>5 DEF LoopSends, CloseSends
<1>6. CASE LoopTakes
  <2>1. /\ UNCHANGED <<emitter, loop, closer, sent, lost, accepted>>
        /\ loop = "select" /\ dbuf' = {}
        /\ \A f \in FlushCallers : f # "loop" => taken'[f] = taken[f]
    BY <1>0, <1>6 DEF LoopTakes, TakeRows, DetailTypeOK
  <2> QED BY <1>0, <2>1 DEF FlushPhases, GracefulCloseSends
<1>7. CASE CloseTakes
  <2>1. /\ UNCHANGED <<emitter, loop, sent, lost, accepted>>
        /\ closer = "flush" /\ closer' = "wait" /\ dbuf' = {}
        /\ \A f \in FlushCallers : f # "close" => taken'[f] = taken[f]
    BY <1>0, <1>7 DEF CloseTakes, TakeRows, DetailTypeOK
  <2> QED BY <1>0, <2>1 DEF FlushPhases, GracefulCloseSends
<1>8. CASE StartDetailClose
  <2>1. /\ UNCHANGED <<dbuf, emitter, taken, loop, sent, lost>>
        /\ closer = "idle" /\ closer' = "flush"
        /\ accepted' # {} => \A r \in DetailRows : emitter[r] \in {"idle", "done"}
        /\ \A r \in accepted' : emitter[r] = "done"
    BY <1>8 DEF StartDetailClose
  <2> QED BY <1>0, <2>1 DEF FlushPhases, GracefulCloseSends
<1>9. CASE CloseConn
  <2>1. /\ UNCHANGED <<dbuf, emitter, taken, loop, sent, lost, accepted>>
        /\ closer = "wait" /\ closer' = "closed" /\ loop = "exited" /\ taken["close"] = {}
    BY <1>9 DEF CloseConn
  <2>2. ASSUME NEW q \in accepted PROVE sent[q] = 1 \/ lost[q] = "send"
    <3>1. /\ q \in DetailRows /\ emitter[q] = "done" /\ q \notin dbuf
          /\ lost[q] \in {"no", "send"}
      BY <1>0, <2>1, <2>2 DEF FlushPhases, DetailTypeOK
    <3>2. \A f \in FlushCallers : q \notin taken[f]
      BY <1>0, <2>1, <2>2 DEF FlushPhases, FlushCallers
    <3> QED BY <1>0, <3>1, <3>2 DEF RowPlaced
  <2> QED BY <1>0, <2>1, <2>2 DEF FlushPhases, GracefulCloseSends
<1>10. CASE WaitPasses \/ LoopExits \/ UNCHANGED detailVars
  BY <1>0, <1>10 DEF WaitPasses, LoopExits, detailVars, FlushPhases, GracefulCloseSends
<1> QED
  BY <1>1, <1>2, <1>4, <1>5, <1>6, <1>7, <1>8, <1>9, <1>10 DEF DetailNext

\* The invariant holds in every state of the sink.
LEMMA DetailInvariant == DetailSpec => []DetailInv
<1>1. DetailInv /\ [DetailNext]_detailVars => DetailInv'
  BY DetailTypeStep, RowPlacedStep, FlushPhasesStep DEF DetailInv
<1> QED BY <1>1, DetailInvInit, PTL DEF DetailSpec

\* Overlapping flushes (full-buffer Emits, flushLoop, Close) send no row of
\* the detail tier twice and drop none that no failed batch held.
THEOREM DetailSentOnce == DetailSpec => []DetailOnce
<1>1. DetailInv => DetailOnce
  <2> DEFINE H(r) == {f \in FlushCallers : r \in taken[f]}
             Once(r, n) == (IF r \in dbuf THEN 1 ELSE 0) + n + sent[r]
                             + (IF lost[r] = "no" THEN 0 ELSE 1)
                             = (IF emitter[r] = "idle" THEN 0 ELSE 1)
  <2> SUFFICES ASSUME DetailInv, NEW r \in DetailRows PROVE Once(r, Cardinality(H(r)))
    BY DEF DetailOnce
  <2>1. RowPlaced(r)
    BY DEF DetailInv
  <2>2. H(r) = {} \/ \E f : H(r) = {f}
    BY <2>1 DEF RowPlaced
  <2>3. CASE H(r) = {}
    <3>1. Once(r, 0)
      BY <2>1, <2>3 DEF RowPlaced, Untouched
    <3> QED BY <2>3, <3>1, FS_EmptySet
  <2>4. ASSUME NEW f, H(r) = {f} PROVE Once(r, Cardinality(H(r)))
    <3>1. f \in FlushCallers /\ r \in taken[f]
      BY <2>4
    <3>2. Once(r, 1)
      BY <2>1, <3>1 DEF RowPlaced, Untouched
    <3>3. Cardinality(H(r)) = 1
      BY <2>4, FS_Singleton
    <3> QED BY <3>2, <3>3
  <2> QED BY <2>2, <2>3, <2>4
<1> QED BY <1>1, DetailInvariant, PTL

\* A Close of the detail sink that no Emit overlaps loses no accepted row.
THEOREM DetailCloseLosesNothing == DetailSpec => []GracefulCloseSends
BY DetailInvariant, PTL DEF DetailInv
=============================================================================
