\* One recharge; two calls, either of which may die at any step.
CONSTANTS
    RechargeKeys = {recharge1}
    RechargeAmounts = {1}
    PayCalls = {c1, c2}
    PayClock = {0, 1}
    WebhookAuth = TRUE
    PayFaults = {"crash"}
SPECIFICATION PaySpec
INVARIANT PaidIsCredited
CHECK_DEADLOCK FALSE
