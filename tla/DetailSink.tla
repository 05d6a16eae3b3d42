------------------------------ MODULE DetailSink ------------------------------
(***************************************************************************)
(* The ClickHouse detail tier, internal/billing/detail.go.  Request        *)
(* handlers append a row under the mutex and decide whether the buffer is  *)
(* full; the flush itself happens after the unlock, so other handlers, the *)
(* flush loop and Close run in between.  A flush takes the whole buffer    *)
(* and sends it as one batch; a batch that fails is only logged.           *)
(*                                                                         *)
(* A row is its request id: its price and its token counts are the concern *)
(* of Metering.                                                            *)
(***************************************************************************)
EXTENDS Integers, FiniteSets

CONSTANTS
    DetailRows,     \* request ids; each is emitted once
    BatchN,         \* DetailSink.batchN
    DetailFaults    \* which of "send", "close" may happen

ASSUME DetailAssumption == BatchN \in Nat \ {0} /\ DetailRows \cap {"loop", "close"} = {}

VARIABLES
    dbuf,           \* rows in DetailSink.buf
    dflushAt,       \* "zero", "set", or "due" once time.Now() is after it
    emitter,        \* where the Emit call of a row is
    taken,          \* the rows a flush call holds, by its caller
    loop,           \* where flushLoop is
    closer,         \* where Close is
    sent,           \* how often a row was sent to billing_detail
    lost,           \* why a row was lost with its batch, "no" if it was not
    accepted         \* rows accepted before Close, {} if an Emit overlaps it (history)

detailVars == <<dbuf, dflushAt, emitter, taken, loop, closer, sent, lost, accepted>>

\* The callers of flush: an Emit, flushLoop and Close.
FlushCallers == DetailRows \cup {"loop", "close"}

DetailInit ==
    /\ dbuf = {}
    /\ dflushAt = "zero"
    /\ emitter = [r \in DetailRows |-> "idle"]
    /\ taken = [f \in FlushCallers |-> {}]
    /\ loop = "select"
    /\ closer = "idle"
    /\ sent = [r \in DetailRows |-> 0]
    /\ lost = [r \in DetailRows |-> "no"]
    /\ accepted = {}

\* Emit up to the unlock: append, and note whether this call has to flush.
AppendRow(r) ==
    LET full == Cardinality(dbuf \cup {r}) >= BatchN
    IN  /\ emitter[r] = "idle"
        /\ dbuf' = dbuf \cup {r}
        /\ emitter' = [emitter EXCEPT ![r] = IF full THEN "flush" ELSE "done"]
        /\ dflushAt' = IF ~full /\ dflushAt = "zero" THEN "set" ELSE dflushAt
        /\ accepted' = {}
        /\ UNCHANGED <<taken, loop, closer, sent, lost>>

\* maxWait passes.
WaitPasses ==
    /\ dflushAt = "set"
    /\ dflushAt' = "due"
    /\ UNCHANGED <<dbuf, emitter, taken, loop, closer, sent, lost, accepted>>

\* Mutant of TakeRows: the rows leave the buffer when they are sent.
TakeRowsAfterSend(f) ==
    /\ taken[f] = {}
    /\ taken' = [taken EXCEPT ![f] = dbuf]
    /\ dflushAt' = IF dbuf = {} THEN dflushAt ELSE "zero"
    /\ UNCHANGED <<dbuf, sent, lost, accepted>>

\* flush up to its unlock: swap the buffer out and reset the deadline.  With
\* an empty buffer it returns at once, and the deadline stays as it is.
TakeRows(f) ==
    /\ taken[f] = {}
    /\ taken' = [taken EXCEPT ![f] = dbuf]
    /\ dbuf' = {}
    /\ dflushAt' = IF dbuf = {} THEN dflushAt ELSE "zero"
    /\ UNCHANGED <<sent, lost, accepted>>

\* Mutant of SendBatch: the deadline is cleared after the send.
SendBatchThenReset(f) ==
    /\ taken[f] # {}
    /\ taken' = [taken EXCEPT ![f] = {}]
    /\ \/ /\ closer # "closed"
          /\ sent' = [r \in DetailRows |-> IF r \in taken[f] THEN sent[r] + 1 ELSE sent[r]]
          /\ lost' = lost
       \/ /\ "send" \in DetailFaults \/ closer = "closed"
          /\ lost' = [r \in DetailRows |->
                        IF r \in taken[f] THEN IF closer = "closed" THEN "closed" ELSE "send"
                        ELSE lost[r]]
          /\ sent' = sent
    /\ dflushAt' = "zero"
    /\ UNCHANGED <<dbuf, accepted>>

\* flush from the unlock to its return.  PrepareBatch or Send may fail, and
\* always does once Close has closed the connection.
SendBatch(f) ==
    /\ taken[f] # {}
    /\ taken' = [taken EXCEPT ![f] = {}]
    /\ \/ /\ closer # "closed"
          /\ sent' = [r \in DetailRows |-> IF r \in taken[f] THEN sent[r] + 1 ELSE sent[r]]
          /\ lost' = lost
       \/ /\ "send" \in DetailFaults \/ closer = "closed"
          /\ lost' = [r \in DetailRows |->
                        IF r \in taken[f] THEN IF closer = "closed" THEN "closed" ELSE "send"
                        ELSE lost[r]]
          /\ sent' = sent
    /\ UNCHANGED <<dbuf, dflushAt, accepted>>

\* The flush of an Emit, which returns when the flush does.
EmitTakes(r) ==
    /\ emitter[r] = "flush"
    /\ TakeRows(r)
    /\ emitter' = [emitter EXCEPT ![r] = IF dbuf = {} THEN "done" ELSE "send"]
    /\ UNCHANGED <<loop, closer>>

EmitSends(r) ==
    /\ SendBatch(r)
    /\ emitter' = [emitter EXCEPT ![r] = "done"]
    /\ UNCHANGED <<loop, closer>>

\* flushLoop: a tick that finds the deadline passed flushes; done ends it.
LoopTakes ==
    /\ loop = "select"
    /\ dflushAt = "due"
    /\ TakeRows("loop")
    /\ UNCHANGED <<emitter, loop, closer>>

LoopSends ==
    /\ SendBatch("loop")
    /\ UNCHANGED <<emitter, loop, closer>>

LoopExits ==
    /\ loop = "select" /\ taken["loop"] = {}
    /\ closer # "idle"
    /\ loop' = "exited"
    /\ UNCHANGED <<dbuf, dflushAt, emitter, taken, closer, sent, lost, accepted>>

\* Close: close(done), flush, wg.Wait (which knows flushLoop only, not an
\* Emit that is sending), conn.Close.
StartDetailClose ==
    /\ "close" \in DetailFaults
    /\ closer = "idle"
    /\ closer' = "flush"
    /\ accepted' = IF \A r \in DetailRows : emitter[r] \in {"idle", "done"}
                  THEN {r \in DetailRows : emitter[r] = "done"} ELSE {}
    /\ UNCHANGED <<dbuf, dflushAt, emitter, taken, loop, sent, lost>>

CloseTakes ==
    /\ closer = "flush"
    /\ TakeRows("close")
    /\ closer' = "wait"
    /\ UNCHANGED <<emitter, loop>>

CloseSends ==
    /\ SendBatch("close")
    /\ UNCHANGED <<emitter, loop, closer>>

\* Mutant of CloseConn: Close does not wait for the loop.
CloseConnAtOnce ==
    /\ closer = "wait" /\ taken["close"] = {}
    /\ closer' = "closed"
    /\ UNCHANGED <<dbuf, dflushAt, emitter, taken, loop, sent, lost, accepted>>

CloseConn ==
    /\ closer = "wait" /\ taken["close"] = {}
    /\ loop = "exited"
    /\ closer' = "closed"
    /\ UNCHANGED <<dbuf, dflushAt, emitter, taken, loop, sent, lost, accepted>>

DetailNext ==
    \/ \E r \in DetailRows : AppendRow(r) \/ EmitTakes(r) \/ EmitSends(r)
    \/ WaitPasses \/ LoopTakes \/ LoopSends \/ LoopExits
    \/ StartDetailClose \/ CloseTakes \/ CloseSends \/ CloseConn

DetailSpec == DetailInit /\ [][DetailNext]_detailVars

\* Goroutines keep running and a batch ends within its 10 s timeout; a
\* request need not be made and Close need not be called.
DetailFairness ==
    /\ \A r \in DetailRows :
          WF_detailVars(EmitTakes(r)) /\ WF_detailVars(EmitSends(r))
    /\ WF_detailVars(WaitPasses)
    /\ WF_detailVars(LoopTakes) /\ WF_detailVars(LoopSends)

-------------------------------------------------------------------------------
(***************************************************************************)
(* Properties                                                              *)
(***************************************************************************)

\* A row that Emit accepted is in exactly one place: the buffer, one flush
\* call, billing_detail, or a batch that failed.  Flushes that overlap
\* (several full-buffer Emits, the loop, Close) send no row twice and drop none.
\* (Emit's own comment, "non-blocking, drops on full buffer", says otherwise: the
\* Emit that fills the buffer flushes it, in its caller's goroutine.)
DetailOnce ==
    \A r \in DetailRows :
        LET buffered == IF r \in dbuf THEN 1 ELSE 0
            held     == Cardinality({f \in FlushCallers : r \in taken[f]})
            failed   == IF lost[r] = "no" THEN 0 ELSE 1
        IN  buffered + held + sent[r] + failed = (IF emitter[r] = "idle" THEN 0 ELSE 1)

\* A Close that no Emit overlaps (the server was shut down first) loses no
\* accepted row: once the connection is closed each of them is in
\* billing_detail, unless its own batch had failed.
GracefulCloseSends ==
    closer = "closed" => \A r \in accepted : sent[r] = 1 \/ lost[r] = "send"

\* Until Close is called, every accepted row leaves the buffer and its batch
\* is sent or fails: no order of appends, full-buffer flushes and ticks
\* leaves a row behind with no deadline set (flushAt) to pick it up.
AcceptedIsSent ==
    \A r \in DetailRows :
        emitter[r] # "idle" ~> sent[r] = 1 \/ lost[r] # "no" \/ closer # "idle"
===============================================================================
