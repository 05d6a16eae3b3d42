-------------------------------- MODULE Limiter --------------------------------
(***************************************************************************)
(* The six-layer budget: budgetLimiter.Allow and Done                      *)
(* (cmd/metergate/keylimiter.go) over the Redis windows and in-flight      *)
(* counters of internal/ratelimit/ratelimit.go, as a gateway request uses  *)
(* them (internal/gateway/handler.go).  Every Redis command or script is   *)
(* one step; the layers are asked one by one, and what an earlier layer    *)
(* recorded stays when a later one rejects.  A window's script goes by a   *)
(* reading of the gateway's clock that is up to MaxLag old when it runs.   *)
(***************************************************************************)
EXTENDS Integers, Sequences, FiniteSets, FiniteSetsExt

CONSTANTS
    LimitedCalls,     \* requests
    KeyOf,            \* [LimitedCalls -> keys]
    EndUserScope,     \* the scope of a key's end user
    BudgetsOf,        \* the aggregate scopes above a key, user to org, in order
    WindowLimit,      \* limit of a <<scope, kind>> window, 0 for unlimited
    SlotLimit,        \* concurrency limit of a key, 0 for unlimited
    Weight,           \* what a request adds to a window of a kind
    Window,           \* the window's length in ticks
    Second,           \* ticks of a second
    MaxLag,           \* age of a clock reading when its script runs, and clock skew
    LimiterClock,     \* bound on the clock
    LimiterFaults     \* which of "gone", "redis", "db" may happen

LimitedKeys == {KeyOf[r] : r \in LimitedCalls}
Kinds == {"rpm", "tpm"}
LimitedScopes ==
    LimitedKeys \cup {EndUserScope[k] : k \in LimitedKeys}
                \cup UNION {Range(BudgetsOf[k]) : k \in LimitedKeys}

ASSUME LimiterAssumption ==
    /\ IsFiniteSet(LimitedCalls)
    /\ \A k \in LimitedKeys : BudgetsOf[k] \in Seq(LimitedScopes) /\ SlotLimit[k] \in Nat
    /\ WindowLimit \in [LimitedScopes \X Kinds -> Nat]
    /\ Weight \in [Kinds -> Nat \ {0}] /\ Weight["rpm"] = 1
    /\ Window \in Nat \ {0} /\ Second \in Nat \ {0} /\ LimiterClock \in Nat
    /\ MaxLag \in Nat /\ MaxLag < Window

VARIABLES
    clock,
    entries,          \* a window's sorted set: members <<score, sequence number>>
    inflight,         \* a key's counter: value, expiry time; 0 is no TTL
    call,             \* where a request is; step is the next of its checks, on the
                      \* window whose retry-after its client was told
    granted,          \* history: all members ever added to a window
    skewed            \* history: keys whose counter expired under a request with a
                      \* slot, or was decremented for a request that had none

limiterVars == <<clock, entries, inflight, call, granted, skewed>>

-----------------------------------------------------------------------------
\* The checks of Allow, in its order: the end user's and the key's windows,
\* the key's slot, then user, project, team and organisation.
AllowSteps ==
    LET both(s) == <<<<s, "rpm">>, <<s, "tpm">>>>
        above(key) == [i \in 1 .. 2 * Len(BudgetsOf[key]) |->
                         <<BudgetsOf[key][(i + 1) \div 2], IF i % 2 = 1 THEN "rpm" ELSE "tpm">>]
    IN [r \in LimitedCalls |->
          LET key == KeyOf[r]
          IN both(EndUserScope[key]) \o both(key) \o <<<<key, "slot">>>> \o above(key)]

KeyLayers == 5      \* the checks before Resolve

Limited(w) == IF w[2] = "slot" THEN SlotLimit[w[1]] > 0 ELSE WindowLimit[w] > 0

\* A check without a limit is passed over.
NextCheck(r) ==
    Min({n \in call[r].step .. Len(AllowSteps[r]) : Limited(AllowSteps[r][n])}
            \cup {Len(AllowSteps[r]) + 1})

CurrentStep(r) == AllowSteps[r][NextCheck(r)]
AtWindow(r) ==
    call[r].pc = "checking" /\ NextCheck(r) <= Len(AllowSteps[r]) /\ CurrentStep(r)[2] # "slot"
AtSlot(r) ==
    call[r].pc = "checking" /\ NextCheck(r) <= Len(AllowSteps[r]) /\ CurrentStep(r)[2] = "slot"

\* ZREMRANGEBYSCORE 0 (now - win)
Pruned(w, now) == {m \in entries[w] : m[1] > now - Window}

Earliest(members, now) == IF members = {} THEN now ELSE Min({m[1] : m \in members})

NewCall == [pc |-> "checking", step |-> 1, holds |-> FALSE, now |-> 0, retry |-> 0, on |-> <<>>]

\* CheckRPM and CheckTPM read the clock and send the script.
ReadClock(r) ==
    /\ AtWindow(r)
    /\ call' = [call EXCEPT ![r].pc = "script", ![r].now = clock]
    /\ UNCHANGED <<clock, entries, inflight, granted, skewed>>

HasRoom(r) ==
    LET w == CurrentStep(r) IN
    Cardinality(Pruned(w, call[r].now)) + Weight[w[2]] <= WindowLimit[w]

\* The members windowScript adds: INCR numbers all those of a window.
NewMembers(w, now) ==
    {<<now, Cardinality(granted[w]) + n>> : n \in 1 .. Weight[w[2]]}

\* windowScript records one entry per unit of weight.
Entered(r) ==
    LET w == CurrentStep(r)
        added == NewMembers(w, call[r].now)
    IN /\ entries' = [entries EXCEPT ![w] = Pruned(w, call[r].now) \cup added]
       /\ granted' = [granted EXCEPT ![w] = @ \cup added]

\* windowScript over the limit: what left the window is dropped all the same.
NotEntered(r) ==
    LET w == CurrentStep(r) IN
    /\ entries' = [entries EXCEPT ![w] = Pruned(w, call[r].now)]
    /\ UNCHANGED granted

NextStep(r) ==
    call' = [call EXCEPT ![r] = [@ EXCEPT !.pc = "checking", !.step = NextCheck(r) + 1, !.now = 0]]

\* Allow hands the retry-after of the end user's and of the key's windows on;
\* checkAggregateLimits drops that of the windows above, and the client of a
\* user's, project's, team's or organisation's budget is told "Retry-After: 0".
Rejected(r, retry) ==
    call' = [call EXCEPT ![r] =
               IF NextCheck(r) <= KeyLayers
               THEN [@ EXCEPT !.pc = "rejected", !.retry = retry, !.on = CurrentStep(r)]
               ELSE [@ EXCEPT !.pc = "rejected"]]

\* Mutant of RejectByWindow: the seconds are rounded down.
RejectRoundedDown(r) ==
    LET now == call[r].now
        oldest == Earliest(Pruned(CurrentStep(r), now), now)
    IN /\ call[r].pc = "script" /\ ~HasRoom(r)
       /\ NotEntered(r)
       /\ Rejected(r, (oldest + Window - now) \div Second)
       /\ UNCHANGED <<clock, inflight, skewed>>

\* windowScript over the limit: nothing is recorded, and the answer is when
\* the oldest entry leaves the window, in seconds.
RejectByWindow(r) ==
    LET now == call[r].now
        oldest == Earliest(Pruned(CurrentStep(r), now), now)
    IN /\ call[r].pc = "script" /\ ~HasRoom(r)
       /\ NotEntered(r)
       /\ Rejected(r, (oldest + Window - now) \div Second + 1)
       /\ UNCHANGED <<clock, inflight, skewed>>

\* Mutant of PassWindow: the window's own request is not counted.
PassWindowOffByOne(r) ==
    LET w == CurrentStep(r) IN
    /\ call[r].pc = "script" /\ Cardinality(Pruned(w, call[r].now)) <= WindowLimit[w]
    /\ Entered(r)
    /\ NextStep(r)
    /\ UNCHANGED <<clock, inflight, skewed>>

\* windowScript within the limit: the request is recorded.
PassWindow(r) ==
    /\ call[r].pc = "script" /\ HasRoom(r)
    /\ Entered(r)
    /\ NextStep(r)
    /\ UNCHANGED <<clock, inflight, skewed>>

\* A database error: Limits admits without a check, Resolve or ChainOfUser
\* leaves the aggregate layers out.
LookupError(r) ==
    /\ "db" \in LimiterFaults
    /\ call[r].pc = "checking"
    /\ call[r].step = 1 \/ (call[r].step <= KeyLayers + 1 /\ NextCheck(r) > KeyLayers)
    /\ call' = [call EXCEPT ![r].step = Len(AllowSteps[r]) + 1]
    /\ UNCHANGED <<clock, entries, inflight, granted, skewed>>

\* A Redis error rejects, whether or not the script ran (with a fixed
\* retry-after, which says nothing about the window).
RejectByError(r, ran) ==
    /\ "redis" \in LimiterFaults
    /\ call[r].pc = "script"
    /\ \/ ran /\ HasRoom(r) /\ Entered(r)
       \/ ran /\ ~HasRoom(r) /\ NotEntered(r)
       \/ ~ran /\ UNCHANGED <<entries, granted>>
    /\ call' = [call EXCEPT ![r].pc = "rejected"]
    /\ UNCHANGED <<clock, inflight, skewed>>

-----------------------------------------------------------------------------
(* Acquire: TTL, Expire, Incr and perhaps Decr, four commands.  A key      *)
(* without a value does not exist: its TTL cannot be set.                  *)

Key(r) == KeyOf[r]

AcquireTTL(r) ==
    /\ AtSlot(r)
    /\ call' = [call EXCEPT ![r].pc = IF inflight[Key(r)].expires = 0 THEN "expire" ELSE "incr"]
    /\ UNCHANGED <<clock, entries, inflight, granted, skewed>>

AcquireExpire(r) ==
    /\ call[r].pc = "expire"
    /\ inflight' = IF inflight[Key(r)].exists
                   THEN [inflight EXCEPT ![Key(r)].expires = clock + 2 * Window] ELSE inflight
    /\ call' = [call EXCEPT ![r].pc = "incr"]
    /\ UNCHANGED <<clock, entries, granted, skewed>>

Added(k, n) == inflight' = [inflight EXCEPT ![k].exists = TRUE, ![k].value = @ + n]

AcquireIncr(r) ==
    /\ call[r].pc = "incr"
    /\ Added(Key(r), 1)
    /\ call' = [call EXCEPT ![r] =
                  IF inflight[Key(r)].value + 1 > SlotLimit[Key(r)]
                  THEN [@ EXCEPT !.pc = "decr"]
                  ELSE [@ EXCEPT !.pc = "checking", !.step = NextCheck(r) + 1, !.holds = TRUE]]
    /\ UNCHANGED <<clock, entries, granted, skewed>>

\* INCR fails, applied or not, and is taken back all the same.
AcquireError(r, applied) ==
    /\ "redis" \in LimiterFaults
    /\ call[r].pc = "incr"
    /\ IF applied THEN Added(Key(r), 1) ELSE UNCHANGED inflight
    /\ skewed' = IF applied THEN skewed ELSE skewed \cup {Key(r)}
    /\ call' = [call EXCEPT ![r].pc = "decr"]
    /\ UNCHANGED <<clock, entries, granted>>

AcquireDecr(r) ==
    /\ call[r].pc = "decr"
    /\ Added(Key(r), -1)
    /\ call' = [call EXCEPT ![r].pc = "rejected"]
    /\ UNCHANGED <<clock, entries, granted, skewed>>

-----------------------------------------------------------------------------
\* Allow returns true: the request is served, with Done deferred.
Admit(r) ==
    /\ call[r].pc = "checking" /\ NextCheck(r) > Len(AllowSteps[r])
    /\ call' = [call EXCEPT ![r].pc = "serving"]
    /\ UNCHANGED <<clock, entries, inflight, granted, skewed>>

\* Mutant of Done: the slot is given back twice.
DoneTwice(r) ==
    /\ call[r].pc = "serving"
    /\ Added(Key(r), -2)
    /\ call' = [call EXCEPT ![r].pc = "done", ![r].holds = FALSE]
    /\ UNCHANGED <<clock, entries, granted, skewed>>

\* Done decrements whether or not Allow took a slot.
Done(r) ==
    /\ call[r].pc = "serving"
    /\ Added(Key(r), -1)
    /\ skewed' = IF call[r].holds THEN skewed ELSE skewed \cup {Key(r)}
    /\ call' = [call EXCEPT ![r].pc = "done", ![r].holds = FALSE]
    /\ UNCHANGED <<clock, entries, granted>>

\* The client has gone: Done runs with the request's cancelled context, and
\* the command is not sent.
DoneCancelled(r) ==
    /\ "gone" \in LimiterFaults
    /\ call[r].pc = "serving"
    /\ call' = [call EXCEPT ![r].pc = "done"]
    /\ UNCHANGED <<clock, entries, inflight, granted, skewed>>

NoCounter == [exists |-> FALSE, value |-> 0, expires |-> 0]

\* Time passes, while no script is later than MaxLag, and Redis drops the
\* counters whose TTL is over.
LimiterTick ==
    LET over == {k \in LimitedKeys : inflight[k].expires = clock + 1} IN
    /\ clock < LimiterClock
    /\ \A r \in LimitedCalls : call[r].pc = "script" => clock - call[r].now < MaxLag
    /\ clock' = clock + 1
    /\ inflight' = [k \in LimitedKeys |-> IF k \in over THEN NoCounter ELSE inflight[k]]
    /\ skewed' = skewed \cup {KeyOf[r] : r \in {c \in LimitedCalls :
                                  /\ KeyOf[c] \in over
                                  /\ \/ call[c].pc = "decr"
                                     \/ call[c].holds /\ call[c].pc \in {"checking", "script", "serving"}}}
    /\ UNCHANGED <<entries, call, granted>>

-----------------------------------------------------------------------------
LimiterInit ==
    /\ clock = 1
    /\ entries = [w \in DOMAIN WindowLimit |-> {}]
    /\ inflight = [k \in LimitedKeys |-> NoCounter]
    /\ call = [r \in LimitedCalls |-> NewCall]
    /\ granted = entries
    /\ skewed = {}

\* What a request does when nothing fails but its client's connection.
LimitedStep(r) ==
    \/ ReadClock(r) \/ PassWindow(r) \/ RejectByWindow(r)
    \/ AcquireTTL(r) \/ AcquireExpire(r) \/ AcquireIncr(r) \/ AcquireDecr(r)
    \/ Admit(r) \/ Done(r) \/ DoneCancelled(r)

\* The database or Redis fails under a request.
LimitedFault(r) ==
    \/ LookupError(r)
    \/ \E ran \in BOOLEAN : RejectByError(r, ran)
    \/ \E applied \in BOOLEAN : AcquireError(r, applied)

LimiterNext ==
    \/ \E r \in LimitedCalls : LimitedStep(r) \/ LimitedFault(r)
    \/ LimiterTick

LimiterSpec == LimiterInit /\ [][LimiterNext]_limiterVars

-----------------------------------------------------------------------------
(* Properties *)

\* What a window let through after one time and up to another.
GrantedIn(w, after, until) == {m \in granted[w] : after < m[1] /\ m[1] <= until}

\* "All layers are atomic Redis sliding windows, so multi-instance gateways
\* share the same budgets" (keylimiter.go): whatever requests interleave, no
\* stretch of a window's length, less the age of a clock reading, holds more
\* than the limit.  (A late script with an old reading finds entries gone that
\* a newer reading has pruned: over a whole window the limit can be passed.)
WindowBound ==
    \A w \in DOMAIN WindowLimit : WindowLimit[w] > 0 =>
        \A t \in 1 .. clock :
            Cardinality(GrantedIn(w, t - (Window - MaxLag), t)) <= WindowLimit[w]

\* "the precise retry-after in seconds until the oldest entry slides out of
\* the window" (ratelimit.go): a request that the end user's or the key's RPM
\* window rejected finds room in it once it has waited as told, if nobody
\* else comes meanwhile.  (Behind an aggregate budget it is told 0.)
RetrySuffices ==
    \A r \in LimitedCalls :
        LET c == call[r]
            later == c.now + c.retry * Second
        IN c.pc = "rejected" /\ c.on # <<>> /\ c.on[2] = "rpm" =>
               Cardinality(GrantedIn(c.on, later - Window, c.now)) < WindowLimit[c.on]

Holders(k) ==
    {r \in LimitedCalls :
        KeyOf[r] = k /\ call[r].pc \in {"checking", "script", "serving"} /\ call[r].holds}

\* A key never has more requests in flight than its concurrency limit,
\* although reading, expiring, counting and giving back are separate commands,
\* as long as every decrement belongs to an increment: no counter's TTL ran out
\* under a request, no INCR was lost and no request was let in without a slot.
SlotsBounded ==
    \A k \in LimitedKeys :
        SlotLimit[k] > 0 /\ k \notin skewed => Cardinality(Holders(k)) <= SlotLimit[k]
=============================================================================
