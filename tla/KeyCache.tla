------------------------------- MODULE KeyCache -------------------------------
(***************************************************************************)
(* CachedKeyStore (internal/auth/auth.go): the TTL cache in front of the   *)
(* api_keys table (Resolve) and of the budget chains (ChainOfUser).  The   *)
(* clock is read before the cache is looked at, the database is read       *)
(* without the mutex, and the answer is stored later, under it: revoking a *)
(* key or moving a user may fall between any two of these steps.           *)
(***************************************************************************)
EXTENDS Integers

CONSTANTS
    RawKeys,          \* API keys, unguessable until CreateKey issues them
    ChainUsers,       \* users whose budget chain is looked up
    Chains,           \* the budget chains a user may have
    FirstChain,       \* the chain a user starts with
    KeyCallers,       \* request goroutines
    KeyTTL, NegTTL,   \* 60 s, and 5 s for a rejection
    KeyClock,         \* bound on the clock
    KeyFaults         \* {"db"}: a query may fail

ASSUME KeyCacheAssumption ==
    /\ KeyTTL \in Nat \ {0} /\ NegTTL \in Nat \ {0} /\ KeyClock \in Nat
    /\ RawKeys \cup ChainUsers # {}
    /\ FirstChain \in Chains
    /\ Chains \cap {"none", "active", "revoked", "failed"} = {}

VARIABLES
    tick,             \* the clock
    stored,           \* what the database says of a key or a user
    cached,           \* the cache: value and expiry, expiry 0 for no entry
    caller,           \* where a caller is; now is its reading of the clock
    held              \* history: when a query could last answer a value, 0 if never

keyVars == <<tick, stored, cached, caller, held>>

CacheItems == RawKeys \cup ChainUsers
CacheValues == Chains \cup {"none", "active", "revoked", "failed"}

\* "failed" is ErrKeyNotFound after a query error, cached like a rejection.
Lifetime(v) == IF v \in {"revoked", "failed"} THEN NegTTL ELSE KeyTTL

IdleCaller ==
    [pc |-> "idle", item |-> CHOOSE i \in CacheItems : TRUE, now |-> 0, value |-> "none"]

-----------------------------------------------------------------------------
Write(i, v) ==
    /\ stored' = [stored EXCEPT ![i] = v]
    /\ held' = [held EXCEPT ![i][v] = tick]
    /\ UNCHANGED <<tick, cached, caller>>

\* The writes do not touch the cache.
CreateKey(k) == stored[k] = "none" /\ Write(k, "active")
RevokeKey(k) == stored[k] = "active" /\ Write(k, "revoked")
SetUserProject(u, ch) == stored[u] # ch /\ Write(u, ch)

\* A request arrives with a key it was given, or needs its user's chain.
Begin(c, i) ==
    /\ caller[c].pc \in {"idle", "answered"}
    /\ stored[i] # "none"
    /\ caller' = [caller EXCEPT ![c] = [pc |-> "check", item |-> i, now |-> tick, value |-> "none"]]
    /\ UNCHANGED <<tick, stored, cached, held>>

\* Under the mutex: a hit answers, a miss goes to the database.
CheckCache(c) ==
    LET e == cached[caller[c].item] IN
    /\ caller[c].pc = "check"
    /\ caller' = [caller EXCEPT ![c] = IF @.now < e.expires
                                       THEN [@ EXCEPT !.pc = "answered", !.value = e.value]
                                       ELSE [@ EXCEPT !.pc = "load"]]
    /\ UNCHANGED <<tick, stored, cached, held>>

\* PostgresKeyStore.Resolve / ChainOfUser.
Load(c) ==
    /\ caller[c].pc = "load"
    /\ caller' = [caller EXCEPT ![c].pc = "store", ![c].value = stored[caller[c].item]]
    /\ UNCHANGED <<tick, stored, cached, held>>

\* A query error rejects the key, and the rejection is cached; it fails the
\* chain lookup, which caches nothing.
LoadError(c) ==
    LET i == caller[c].item IN
    /\ "db" \in KeyFaults
    /\ caller[c].pc = "load"
    /\ caller' = [caller EXCEPT ![c].pc = IF i \in RawKeys THEN "store" ELSE "answered",
                                ![c].value = "failed"]
    /\ held' = [held EXCEPT ![i]["failed"] = tick]
    /\ UNCHANGED <<tick, stored, cached>>

\* Mutant of StoreAnswer: the entry's life starts when it is stored.
StoreFromNow(c) ==
    /\ caller[c].pc = "store"
    /\ cached' = [cached EXCEPT ![caller[c].item] =
                    [value |-> caller[c].value, expires |-> tick + Lifetime(caller[c].value)]]
    /\ caller' = [caller EXCEPT ![c].pc = "answered"]
    /\ UNCHANGED <<tick, stored, held>>

\* Under the mutex again: the entry's life starts at the caller's old reading
\* of the clock, and it overwrites whatever was stored meanwhile.
StoreAnswer(c) ==
    /\ caller[c].pc = "store"
    /\ cached' = [cached EXCEPT ![caller[c].item] =
                    [value |-> caller[c].value,
                     expires |-> caller[c].now + Lifetime(caller[c].value)]]
    /\ caller' = [caller EXCEPT ![c].pc = "answered"]
    /\ UNCHANGED <<tick, stored, held>>

KeyTick ==
    /\ tick < KeyClock
    /\ tick' = tick + 1
    /\ held' = [i \in CacheItems |-> [held[i] EXCEPT ![stored[i]] = tick + 1]]
    /\ UNCHANGED <<stored, cached, caller>>

-----------------------------------------------------------------------------
KeyInit ==
    /\ tick = 1
    /\ stored = [i \in CacheItems |-> IF i \in RawKeys THEN "none" ELSE FirstChain]
    /\ cached = [i \in CacheItems |-> [value |-> "none", expires |-> 0]]
    /\ caller = [c \in KeyCallers |-> IdleCaller]
    /\ held = [i \in CacheItems |-> [v \in CacheValues |-> IF v = stored[i] THEN 1 ELSE 0]]

KeyNext ==
    \/ \E k \in RawKeys : CreateKey(k) \/ RevokeKey(k)
    \/ \E u \in ChainUsers, ch \in Chains : SetUserProject(u, ch)
    \/ \E c \in KeyCallers :
          \/ \E i \in CacheItems : Begin(c, i)
          \/ CheckCache(c) \/ Load(c) \/ LoadError(c) \/ StoreAnswer(c)
    \/ KeyTick

KeySpec == KeyInit /\ [][KeyNext]_keyVars

-----------------------------------------------------------------------------
(* Properties *)

KeyTypeOK ==
    /\ tick \in Nat
    /\ stored \in [CacheItems -> CacheValues]
    /\ cached \in [CacheItems -> [value : CacheValues, expires : Nat]]
    /\ caller \in [KeyCallers -> [pc : {"idle", "check", "load", "store", "answered"},
                                  item : CacheItems, now : Nat, value : CacheValues]]
    /\ held \in [CacheItems -> [CacheValues -> Nat]]

\* "cached, 60s TTL" (README): an answer given to a request that began at now
\* was the truth less than its lifetime before now, or later.  So a request
\* that begins 60 s after RevokeKey is refused, however long a query that read
\* the key before was under way; and an active key is only ever refused within
\* 5 s of a failed query.
FreshAnswer ==
    \A c \in KeyCallers : caller[c].pc = "answered" =>
        LET last == held[caller[c].item][caller[c].value] IN
        last > 0 /\ last + Lifetime(caller[c].value) > caller[c].now
=============================================================================
