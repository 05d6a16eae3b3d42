---------------------------- MODULE MCKafkaPipeline ----------------------------
(***************************************************************************)
(* Instances of KafkaPipeline for TLC: every process has one settle shard, *)
(* which its flushLoop and FlushSync flush.                                *)
(***************************************************************************)
EXTENDS KafkaPipeline, FiniteSets, TLC

CONSTANTS r1, r2, u1, p1, p2, t1, loop, sync

MCUserOf == [r \in Requests |-> u1]
MCHome == [r \in Requests |-> p1]
\* A shard is named after its process.
MCProcOf == [k \in Shards |-> k]
MCShardIndex == [p \in Procs |-> [r \in Requests |-> p]]
MCFlushers == {loop, sync} \X Shards
MCLoops == {loop} \X Shards
MCOf == [f \in Flushers |-> f[2]]
MCStoreOf == [u \in Users |-> u]
MCPartitionOf == [r \in Requests |-> t1]

SameRequests == Permutations({r1, r2})

-----------------------------------------------------------------------------
(* The bounds of the rebalance run *)

\* The log is full, perhaps with an event delivered twice, before the group
\* reads it.
LoadedFirst ==
    (\E part \in Partitions : assigned[part] # {}) =>
        /\ \A r \in Requests : stage[r] \notin {"new", "admitted"}
        /\ \A p \in Procs : outbox[p] = {}
        /\ \A part \in Partitions : Len(log[part]) = MaxLog

\* Either process may die at any moment, one of them is also shut down; a
\* behaviour is followed until an event has died with a Settler.
FewEnds == ~stopping[p1] /\ ended = {}

FewFlushes ==
    Cardinality({f \in Flushers : pc[f] # "idle"}) <= (IF stopping[p2] THEN 1 ELSE 2)

RebalanceBound == LoadedFirst /\ FewEnds /\ FewFlushes
=============================================================================
