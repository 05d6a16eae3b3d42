----------------------------- MODULE SettlerClose -----------------------------
(***************************************************************************)
(* Settler.Close (internal/billing/settle.go), called by the goroutine that*)
(* handed the events over: it closes the done channels, flushes shard after*)
(* shard and waits for the flushLoops, which may be at any point of a      *)
(* flush of their own.                                                     *)
(***************************************************************************)
EXTENDS Settlement

CONSTANTS
    Worker,       \* the process whose Settler is closed
    ShardSeq      \* its shards, in the order of Settler.shards

ASSUME CloseAssumption ==
    /\ Worker \in Procs
    /\ ShardSeq \in Seq(Shards)
    /\ \A k \in Shards :
          ProcOf[k] = Worker =>
             /\ \E i \in DOMAIN ShardSeq : ShardSeq[i] = k
             /\ \E f \in Flushers \ Loops : Of[f] = k
    /\ \A i \in DOMAIN ShardSeq : ProcOf[ShardSeq[i]] = Worker

VARIABLES
    step,         \* 0 before Close, i before it flushes shard i, N+1 in Wait
    handed        \* history: requests whose event was handed over

closerVars == <<step, handed>>
closeVars  == <<vars, closerVars>>

N == Len(ShardSeq)

\* Close flushes in its own goroutine: the one flusher of a shard that is no loop.
Closers(i) == {f \in Flushers \ Loops : Of[f] = ShardSeq[i]}

WorkerLoops == {f \in Loops : ProcOf[Of[f]] = Worker}

-----------------------------------------------------------------------------
\* The caller hands events over until it calls Close; each Handle call has
\* returned, its signal sent, before the next one.
HandleThenClose(r) ==
    /\ step = 0
    /\ \A k \in Shards : owed[k] = 0
    /\ r \notin handed
    /\ Handle(Worker, r)
    /\ handed' = handed \cup {r}
    /\ UNCHANGED step

\* Mutant of StartClose: the done channels stay open.
StartCloseSilently ==
    /\ step = 0
    /\ \A k \in Shards : owed[k] = 0
    /\ step' = 1
    /\ UNCHANGED <<vars, handed>>

\* Close, first loop: close(sh.done) for every shard.
StartClose ==
    /\ step = 0
    /\ \A k \in Shards : owed[k] = 0
    /\ CloseDone(Worker)
    /\ step' = 1
    /\ UNCHANGED handed

\* Close, second loop: flush the next shard; the call before has returned.
CloseFlush ==
    /\ step \in 1 .. N
    /\ step > 1 => \A f \in Closers(step - 1) : pc[f] = "idle"
    /\ CallFlush(Closers(step))
    /\ step' = step + 1
    /\ UNCHANGED handed

\* Mutant of Wait: Close does not wait for the loops.
WaitForNone ==
    /\ step = N + 1
    /\ \A f \in Closers(N) : pc[f] = "idle"
    /\ step' = step + 1
    /\ UNCHANGED <<vars, handed>>

\* wg.Wait returns once every flushLoop has returned.
Wait ==
    /\ step = N + 1
    /\ \A f \in Closers(N) : pc[f] = "idle"
    /\ \A f \in WorkerLoops : pc[f] = "exited"
    /\ step' = step + 1
    /\ UNCHANGED <<vars, handed>>

CloseInit == Init /\ step = 0 /\ handed = {}

CloseNext ==
    \/ (RedisNext \/ HandlerNext \/ FlusherNext) /\ UNCHANGED closerVars
    \/ \E f \in Flushers : LoopExit(f) /\ UNCHANGED closerVars
    \/ \E r \in Requests : HandleThenClose(r)
    \/ StartClose \/ CloseFlush \/ Wait

CloseSpec == CloseInit /\ [][CloseNext]_closeVars

\* Every goroutine is scheduled.  select picks among the ready cases at random,
\* so a loop whose done channel is closed does not choose the others forever.
CloseFairness ==
    /\ WF_closeVars(CloseFlush) /\ WF_closeVars(Wait)
    /\ \A k \in Shards : WF_closeVars(SignalFlush(k) /\ UNCHANGED closerVars)
    /\ \A f \in Flushers :
         /\ SF_closeVars(LoopExit(f) /\ UNCHANGED closerVars)
         /\ WF_closeVars(TakeBatch(f) /\ UNCHANGED closerVars)
         /\ WF_closeVars((Insert(f) \/ \E s \in SUBSET Stores : InsertError(f, s))
                            /\ UNCHANGED closerVars)
         /\ WF_closeVars((BatchSettle(f) \/ BatchSettleError(f)) /\ UNCHANGED closerVars)

FairCloseSpec == CloseSpec /\ CloseFairness

-----------------------------------------------------------------------------
(* Properties *)

Closed == step = N + 2

\* While nothing fails, once Close has returned every event that was handed
\* over is an order and its reservation is released, whoever took it: a loop
\* that was in the middle of a flush, or Close itself.
ClosedIsDurable ==
    Closed => \A r \in handed : orders[r] # NoOrder /\ precharge[r] = 0

\* Close returns: no flushLoop misses its done channel and none waits for it.
CloseReturns == step = 1 ~> Closed
=============================================================================
