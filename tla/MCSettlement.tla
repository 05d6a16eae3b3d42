----------------------------- MODULE MCSettlement -----------------------------
(***************************************************************************)
(* An instance of Settlement for TLC, one process with one settle shard.   *)
(* scenario says what a behaviour is about.  "race": the shard's flushLoop *)
(* and FlushSync race over the buffer while batches fail and the process   *)
(* crashes or closes its done channel; two users, whose orders live in     *)
(* different stores, have a request each, r1 or r2 and r3.  "data": r1 and *)
(* r2 of one user with every kind of estimate and amount, and every fault, *)
(* while the flushLoop alone flushes, row by row.                          *)
(***************************************************************************)
EXTENDS Settlement, TLC

CONSTANTS r1, r2, r3, u1, u2, p1, s1, loop, sync

VARIABLE scenario

MCUserOf == [r \in Requests |-> IF r = r3 THEN u2 ELSE u1]
MCHome == [r \in Requests |-> p1]
MCProcOf == [k \in Shards |-> p1]
MCShardIndex == [p \in Procs |-> [r \in Requests |-> s1]]
MCOf == [f \in Flushers |-> s1]
MCStoreOf == [u \in Users |-> u]
MCAmounts == {-1, 1, 3}

\* Nothing tells r1 from r2: they are the same user's, and only one of them
\* moves in "race".
SameUser == Permutations({r1, r2})

-----------------------------------------------------------------------------
Flush(f) ==
    \/ WakeOnTrigger(f) \/ WakeOnTick(f) \/ TakeBatch(f) \/ Insert(f) \/ BatchSettle(f)

RaceRequests == {r \in Requests : r = r3 \/ \A q \in {r1, r2} \ {r} : stage[q] = "new"}

RaceNext ==
    \/ \E u \in Users : credited[u] = 0 /\ TopUp(u, 2)
    \/ \E r \in RaceRequests :
         \/ Admit(r, 2)
         \/ balance[UserOf[r]] < 2 /\ Refuse(r, 2)
         \/ \E ev \in Event : ev.amount = 1 /\ Emit(r, ev)
         \/ owed[s1] = 0 /\ Handle(p1, r)
    \/ SignalFlush(s1)
    \/ \E f \in Flushers :
         Flush(f) \/ LoopExit(f) \/ \E stores \in SUBSET Stores : InsertError(f, stores)
    \/ CallFlush({sync})
    \/ CloseDone(p1) \/ Crash(p1)

DataNext ==
    \/ \E amount \in Credits : TopUp(u1, amount)
    \/ \E r \in {r1, r2} :
         \/ Expire(r)
         \/ AdmitUnreserved(r) \/ StreamingUnsupported(r)
         \/ \E amount \in Estimates :
              Admit(r, amount) \/ Refuse(r, amount) \/ RefuseAfterScript(r, amount)
         \/ \E ev \in Event : Emit(r, ev)
         \/ buf[s1] = << >> /\ Handle(p1, r)
    \/ Flush(loop) \/ BatchSettleError(loop) \/ LoopExit(loop)
    \/ \E stores \in {{}, Stores} : InsertError(loop, stores)
    \/ CloseDone(p1) \/ Crash(p1)

SettlementNext ==
    /\ \/ scenario = "race" /\ RaceNext
       \/ scenario = "data" /\ DataNext
    /\ UNCHANGED scenario

SettlementInit == Init /\ scenario \in {"race", "data"}

SettlementSpec == SettlementInit /\ [][SettlementNext]_<<vars, scenario>>
=============================================================================
