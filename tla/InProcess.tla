------------------------------- MODULE InProcess -------------------------------
(***************************************************************************)
(* The single-node deployment: handlers emit into billing.Sink, a bounded  *)
(* channel, whose goroutine hands the events to the Settler of the same    *)
(* process (internal/billing/sink.go, wired in cmd/metergate/main.go).     *)
(*                                                                         *)
(* The billing core is Settlement; this module adds the channel and says   *)
(* which of the core's steps happen here.                                  *)
(***************************************************************************)
EXTENDS Settlement

CONSTANT SinkCap        \* capacity of the channel

ASSUME SinkAssumption == SinkCap \in Nat \ {0}

VARIABLES
    sink,               \* Sink.ch of a process
    closing,            \* how far Sink.Close of a process is
    dropped             \* history: requests whose event met a full channel

sinkVars == <<sink, closing, dropped>>
allVars  == <<vars, sinkVars>>

\* Handle calls of a process that have not sent their signal yet.
Signalling(p) ==
    LET pending(k) == owed[k] IN
    MapThenSumSet(pending, {k \in Shards : ProcOf[k] = p})

\* Close drains the channel in its own goroutine; the loop it cancelled may
\* still receive, since select picks any case that is ready.
Receivers(p) == IF closing[p] = "draining" THEN 2 ELSE 1

-----------------------------------------------------------------------------
\* Mutant of SinkEmit: the channel has no capacity.
EmitUnbounded(r, ev) ==
    /\ Emit(r, ev)
    /\ sink' = [sink EXCEPT ![Home[r]] = Append(@, r)]
    /\ UNCHANGED <<closing, dropped>>

\* Mutant of SinkEmit: a dropped event gives its reservation back at once.
EmitReleasesOnDrop(r, ev) ==
    LET p == Home[r] IN
    /\ stage[r] = "admitted"
    /\ event' = [event EXCEPT ![r] = ev]
    /\ stage' = [stage EXCEPT ![r] = "served"]
    /\ IF Len(sink[p]) < SinkCap
         THEN /\ sink' = [sink EXCEPT ![p] = Append(@, r)]
              /\ UNCHANGED <<redis, history, dropped>>
         ELSE /\ dropped' = dropped \cup {r}
              /\ SettleScript(r, 0)
              /\ UNCHANGED sink
    /\ UNCHANGED <<orders, shard, flusher, closing>>

\* Sink.Emit, called by the handler: never blocks, drops on a full channel.
SinkEmit(r, ev) ==
    LET p == Home[r] IN
    /\ Emit(r, ev)
    /\ IF Len(sink[p]) < SinkCap
         THEN /\ sink' = [sink EXCEPT ![p] = Append(@, r)]
              /\ UNCHANGED dropped
         ELSE /\ dropped' = dropped \cup {r}
              /\ UNCHANGED sink
    /\ UNCHANGED closing

\* Mutant of SinkHandle: the event stays in the channel.
HandleKeeps(p) ==
    /\ sink[p] # << >>
    /\ Signalling(p) < Receivers(p)
    /\ Handle(p, Head(sink[p]))
    /\ UNCHANGED sinkVars

\* loop, or Close's drain, receives one event and calls Settler.Handle.
SinkHandle(p) ==
    /\ sink[p] # << >>
    /\ Signalling(p) < Receivers(p)
    /\ Handle(p, Head(sink[p]))
    /\ sink' = [sink EXCEPT ![p] = Tail(@)]
    /\ UNCHANGED <<closing, dropped>>

\* Close: cancel, then drain ...
SinkClose(p) ==
    /\ "crash" \in Faults
    /\ closing[p] = "no"
    /\ closing' = [closing EXCEPT ![p] = "draining"]
    /\ UNCHANGED <<vars, sink, dropped>>

\* ... until the channel is found empty.
SinkDrained(p) ==
    /\ closing[p] = "draining"
    /\ sink[p] = << >>
    /\ closing' = [closing EXCEPT ![p] = "drained"]
    /\ UNCHANGED <<vars, sink, dropped>>

\* A crash, or main returning after Close: main never closes the Settler, so
\* a graceful end too loses what the shards still buffer.
ProcessEnds(p) ==
    /\ Crash(p)
    /\ sink' = [sink EXCEPT ![p] = << >>]
    /\ closing' = [closing EXCEPT ![p] = "no"]
    /\ UNCHANGED dropped

SinkInit ==
    /\ Init
    /\ sink = [p \in Procs |-> << >>]
    /\ closing = [p \in Procs |-> "no"]
    /\ dropped = {}

SinkNext ==
    \/ (RedisNext \/ AdmissionNext \/ FlusherNext) /\ UNCHANGED sinkVars
    \/ \E r \in Requests, ev \in Event : SinkEmit(r, ev)
    \/ \E p \in Procs :
         SinkHandle(p) \/ SinkClose(p) \/ SinkDrained(p) \/ ProcessEnds(p)

SinkSpec == SinkInit /\ [][SinkNext]_allVars

\* The Go scheduler runs every goroutine: the sink's loop, a Handle call that
\* is about to signal, and each shard's loop, whose ticker always comes again.
\* An upstream call ends (it has a timeout) and its handler goes on.
SinkFairness ==
    /\ \A p \in Procs : WF_allVars(SinkHandle(p))
    /\ \A k \in Shards : WF_allVars(SignalFlush(k) /\ UNCHANGED sinkVars)
    /\ \A f \in Flushers :
         /\ WF_allVars((WakeOnTrigger(f) \/ WakeOnTick(f)) /\ UNCHANGED sinkVars)
         /\ WF_allVars(TakeBatch(f) /\ UNCHANGED sinkVars)
         /\ WF_allVars((Insert(f) \/ \E s \in SUBSET Stores : InsertError(f, s))
                          /\ UNCHANGED sinkVars)
         /\ WF_allVars((BatchSettle(f) \/ BatchSettleError(f)) /\ UNCHANGED sinkVars)
    /\ \A r \in Requests :
         WF_allVars(\/ \E ev \in Event : SinkEmit(r, ev)
                    \/ StreamingUnsupported(r) /\ UNCHANGED sinkVars)

\* Redis drops a marker whose TTL has run out.
ExpiryFairness ==
    \A r \in Requests : WF_allVars(Expire(r) /\ UNCHANGED sinkVars)

FairSinkSpec == SinkSpec /\ SinkFairness /\ ExpiryFairness

-----------------------------------------------------------------------------
(* Properties *)

SinkTypeOK ==
    /\ TypeOK
    /\ sink \in [Procs -> Seq(Requests)]
    /\ \A p \in Procs : Len(sink[p]) <= SinkCap
    /\ closing \in [Procs -> {"no", "draining", "drained"}]
    /\ dropped \in SUBSET Requests

\* Where the memory of the processes holds a request's event: the places of a
\* channel, of a shard's buffer and of a flusher's batch.
SinkPlaces(r) ==
    UNION {{<<"sink", p, i>> : i \in {j \in DOMAIN sink[p] : sink[p][j] = r}} : p \in Procs}

ShardPlaces(r) ==
    UNION {{<<"shard", k, i>> : i \in {j \in DOMAIN buf[k] : buf[k][j].req = r}} : k \in Shards}

FlusherPlaces(r) ==
    UNION {{<<"flusher", f, i>> : i \in {j \in DOMAIN batch[f] : batch[f][j].req = r}} :
              f \in Flushers}

Copies(r) == SinkPlaces(r) \cup ShardPlaces(r) \cup FlusherPlaces(r)

\* While nothing fails, an event that found room in the channel is in exactly
\* one place, until its order is stored and its reservation settled: the
\* hand-overs from channel to buffer to flusher neither lose nor copy it.
OneCopyUntilSettled ==
    \A r \in Requests : stage[r] = "served" /\ r \notin dropped =>
        \/ Cardinality(Copies(r)) = 1
        \/ Copies(r) = {} /\ orders[r] # NoOrder /\ precharge[r] = 0

\* Whatever fails, an event is never in two places at once.  It enters memory
\* when it is emitted, unless the channel is full, and it leaves memory only
\* settled, with the batch of a flush that failed, or with its own process.
HandedOver ==
    [][\A r \in Requests :
         /\ Copies(r)' = {} \/ Cardinality(Copies(r)') = 1
         /\ stage[r] = "admitted" /\ stage'[r] = "served" => Copies(r)' # {} \/ r \in dropped'
         /\ Copies(r) # {} /\ Copies(r)' = {} =>
               \/ orders'[r] # NoOrder /\ precharge'[r] = 0
               \/ ProcessEnds(Home[r])
               \/ \E f \in Flushers : LetsGo(f) /\ \E i \in DOMAIN batch[f] : batch[f][i].req = r
      ]_allVars

\* "Exactly one Event is emitted per request" (metering/events.go): a request
\* that was admitted emits its event.
AdmittedEmits ==
    \A r \in Requests : stage[r] = "admitted" ~> event[r] # NoEvent

\* "TTL ensures a crashed gateway cannot leak frozen funds forever (swept by
\* reconcile)" (precharge.go, PreCharge): frozen funds are freed again.
FrozenIsFreed ==
    \A u \in Users : frozen[u] > 0 ~> frozen[u] = 0
=============================================================================
