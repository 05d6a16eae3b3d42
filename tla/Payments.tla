------------------------------- MODULE Payments -------------------------------
(***************************************************************************)
(* Recharges and payments (internal/payment/payment.go, stripe.go) behind  *)
(* the portal's handlers (internal/portal/portal.go).                      *)
(*                                                                         *)
(* A call is one HTTP request: POST /api/recharge/pay or the webhook of a  *)
(* payment channel.  The database transaction of SettleCallback is atomic: *)
(* a second one for the same transaction id or the same recharge waits for *)
(* the first at the unique index or at the row.  The credit in Redis comes *)
(* after the commit, in a step of its own.                                 *)
(***************************************************************************)
EXTENDS Integers, Sequences

CONSTANTS
    RechargeKeys,     \* idempotency keys; a recharge is named by its key
    RechargeAmounts,  \* amounts that clients ask for
    PayCalls,         \* calls of the pay handler and of the webhook
    PayClock,         \* what UnixNano may read
    WebhookAuth,      \* whether a webhook carries an accepted Authorization
    PayFaults         \* which of "channel", "topup", "crash" may happen

ASSUME PaymentsAssumption ==
    /\ RechargeAmounts \subseteq Int
    /\ WebhookAuth \in BOOLEAN

VARIABLES
    recharges,        \* rows of recharges: status "NONE" when there is none
    payments,         \* rows of payments
    intents,          \* Stripe's PaymentIntents: the recharge of each call
    pay,              \* state of a call
    credits           \* history: what TopUp credited for a recharge, in order

payVars == <<recharges, payments, intents, pay, credits>>

NoRecharge == [status |-> "NONE", amount |-> 0]
Recharges == {NoRecharge} \cup [status : {"PENDING", "PAID"}, amount : Int]

\* channel_txn_id: the mock channel's is the recharge and a clock reading,
\* Stripe's is the PaymentIntent the call created.
Txns == ({"mock"} \X RechargeKeys \X PayClock) \cup ({"stripe"} \X RechargeKeys \X PayCalls)

NoTxn == <<"none">>
IdleCall == [pc |-> "idle", key |-> "none", amount |-> 0, txn |-> NoTxn]

Enter(c, pc) == pay' = [pay EXCEPT ![c].pc = pc]

-----------------------------------------------------------------------------
\* POST /api/recharge: a replayed idempotency key returns the existing row,
\* whatever the amount of the second request.
Recharge(k, amount) ==
    /\ amount > 0
    /\ recharges' = [recharges EXCEPT ![k] =
                       IF @.status = "NONE"
                       THEN [status |-> "PENDING", amount |-> amount] ELSE @]
    /\ UNCHANGED <<payments, intents, pay, credits>>

\* POST /api/recharge/pay: Pay reads the row and refuses one that is PAID.
PayStart(c, k, channel) ==
    /\ pay[c].pc = "idle"
    /\ recharges[k].status # "NONE"
    /\ pay' = [pay EXCEPT ![c] =
                 [pc |-> IF recharges[k].status = "PAID" THEN "done" ELSE channel,
                  key |-> k, amount |-> recharges[k].amount, txn |-> NoTxn]]
    /\ UNCHANGED <<recharges, payments, intents, credits>>

\* MockChannel.Pay: Pay goes on with SettleCallback.
MockPay(c, nano) ==
    /\ pay[c].pc = "mock"
    /\ pay' = [pay EXCEPT ![c].pc = "settle", ![c].txn = <<"mock", pay[c].key, nano>>]
    /\ UNCHANGED <<recharges, payments, intents, credits>>

\* StripeChannel.Pay creates a PaymentIntent, or fails; the handler answers.
\* The id is returned and stored nowhere.
StripePay(c, created) ==
    /\ pay[c].pc = "stripe"
    /\ created \/ "channel" \in PayFaults
    /\ intents' = IF created THEN intents \cup {<<"stripe", pay[c].key, c>>} ELSE intents
    /\ Enter(c, "done")
    /\ UNCHANGED <<recharges, payments, credits>>

\* payment_intent.succeeded is delivered, any number of times.  The portal's
\* authMiddleware answers 401 to a request without Authorization.
Webhook(c, txn) ==
    /\ pay[c].pc = "idle"
    /\ txn \in intents
    /\ pay' = [pay EXCEPT ![c] =
                 [pc |-> IF WebhookAuth THEN "lookup" ELSE "done",
                  key |-> txn[2], amount |-> 0, txn |-> txn]]
    /\ UNCHANGED <<recharges, payments, intents, credits>>

\* SettleByTxn looks the transaction up among the payments, not the intents.
SettleByTxn(c) ==
    /\ pay[c].pc = "lookup"
    /\ Enter(c, IF \E p \in payments : p.txn = pay[c].txn THEN "settle" ELSE "done")
    /\ UNCHANGED <<recharges, payments, intents, credits>>

-----------------------------------------------------------------------------
(* SettleCallback *)

\* The payment row of a call, and the row of its recharge once it is PAID.
PaymentOf(c) == [key |-> pay[c].key, txn |-> pay[c].txn, amount |-> pay[c].amount]
MarkPaid(k) == [recharges EXCEPT ![k].status = "PAID"]

\* ON CONFLICT (channel, channel_txn_id) DO NOTHING: the callback is a replay.
Replayed(c) == \E p \in payments : p.txn = pay[c].txn

\* Mutant of SettleCallback: the UPDATE does not ask for status = 'PENDING'.
SettleUnguarded(c) ==
    /\ pay[c].pc = "settle"
    /\ IF Replayed(c) THEN Enter(c, "done") /\ UNCHANGED <<recharges, payments>>
       ELSE /\ payments' = payments \cup {PaymentOf(c)}
            /\ recharges' = MarkPaid(pay[c].key)
            /\ Enter(c, "credit")
    /\ UNCHANGED <<intents, credits>>

\* The transaction: insert the payment, mark the recharge PAID.  A replay
\* changes nothing; a recharge that is not PENDING rolls the insert back.
SettleCallback(c) ==
    /\ pay[c].pc = "settle"
    /\ IF ~Replayed(c) /\ recharges[pay[c].key].status = "PENDING"
         THEN /\ payments' = payments \cup {PaymentOf(c)}
              /\ recharges' = MarkPaid(pay[c].key)
              /\ Enter(c, "credit")
         ELSE UNCHANGED <<recharges, payments>> /\ Enter(c, "done")
    /\ UNCHANGED <<intents, credits>>

\* Mutant of CreditBalance: the credit is retried until a reply arrives.
CreditRetried(c) ==
    /\ pay[c].pc = "credit"
    /\ Len(credits[pay[c].key]) < 2
    /\ credits' = [credits EXCEPT ![pay[c].key] = Append(@, pay[c].amount)]
    /\ \/ Enter(c, "done")
       \/ UNCHANGED pay
    /\ UNCHANGED <<recharges, payments, intents>>

\* After the commit: topUp credits the Redis balance (and perhaps its reply is
\* lost), ...
CreditBalance(c) ==
    /\ pay[c].pc = "credit"
    /\ credits' = [credits EXCEPT ![pay[c].key] = Append(@, pay[c].amount)]
    /\ Enter(c, "done")
    /\ UNCHANGED <<recharges, payments, intents>>

\* ... or fails before Redis applied it, and nobody tries again: the recharge
\* stays PAID and is not credited.
CreditError(c) ==
    /\ "topup" \in PayFaults
    /\ pay[c].pc = "credit"
    /\ Enter(c, "done")
    /\ UNCHANGED <<recharges, payments, intents, credits>>

\* The process of a call dies, or the database fails the call: a commit whose
\* reply is lost leaves a recharge that is PAID and not credited.
PayCrash(c) ==
    /\ "crash" \in PayFaults
    /\ pay[c].pc \notin {"idle", "done"}
    /\ Enter(c, "done")
    /\ UNCHANGED <<recharges, payments, intents, credits>>

-----------------------------------------------------------------------------
PayInit ==
    /\ recharges = [k \in RechargeKeys |-> NoRecharge]
    /\ payments = {}
    /\ intents = {}
    /\ pay = [c \in PayCalls |-> IdleCall]
    /\ credits = [k \in RechargeKeys |-> << >>]

PayNext ==
    \/ \E k \in RechargeKeys, amount \in RechargeAmounts : Recharge(k, amount)
    \/ \E c \in PayCalls :
         \/ \E k \in RechargeKeys, channel \in {"mock", "stripe"} : PayStart(c, k, channel)
         \/ \E nano \in PayClock : MockPay(c, nano)
         \/ \E created \in BOOLEAN : StripePay(c, created)
         \/ \E txn \in intents : Webhook(c, txn)
         \/ SettleByTxn(c)
         \/ SettleCallback(c)
         \/ CreditBalance(c) \/ CreditError(c)
         \/ PayCrash(c)

PaySpec == PayInit /\ [][PayNext]_payVars

-----------------------------------------------------------------------------
(* Properties *)

PayTypeOK ==
    /\ recharges \in [RechargeKeys -> Recharges]
    /\ payments \subseteq [key : RechargeKeys, txn : Txns, amount : Int]
    /\ intents \subseteq Txns
    /\ pay \in [PayCalls ->
                 [pc : {"idle", "mock", "stripe", "lookup", "settle", "credit", "done"},
                  key : RechargeKeys \cup {"none"}, amount : Int, txn : Txns \cup {NoTxn}]]
    /\ credits \in [RechargeKeys -> Seq(Int)]

\* "balance credit happens ONCE" (payment.go): whatever calls race, replay or
\* die, a recharge is credited at most once, for its own amount, and only
\* when it is PAID.
CreditedOnce ==
    \A k \in RechargeKeys :
        \/ credits[k] = << >>
        \/ credits[k] = <<recharges[k].amount>> /\ recharges[k].status = "PAID"

\* The two tables agree (SettleCallback's transaction): a recharge is PAID
\* exactly when there is a payment for it, there is never a second one, and
\* the payment is for the recharge's amount, which Pay read long before.
PaidByOnePayment ==
    \A k \in RechargeKeys :
        LET rows == {p \in payments : p.key = k} IN
        /\ recharges[k].status = "PAID" <=> rows # {}
        /\ \A p, q \in rows : p = q /\ p.amount = recharges[k].amount

\* "Credits the balance exactly once, inside the DB transaction that marks the
\* recharge PAID" (payment.go, SettleCallback): once no call is at work, a
\* recharge that is PAID has been credited.
PaidIsCredited ==
    \A k \in RechargeKeys :
        recharges[k].status = "PAID" /\ (\A c \in PayCalls : pay[c].pc \in {"idle", "done"})
            => credits[k] # << >>
=============================================================================
