---------------------------- MODULE MCSettlerClose ----------------------------
(***************************************************************************)
(* Instances of SettlerClose for TLC: one process with two shards, each    *)
(* flushed by its loop and by Close.                                       *)
(***************************************************************************)
EXTENDS SettlerClose, TLC

CONSTANTS r1, r2, r3, u1, p1, s1, s2, loop, closer

MCUserOf == [r \in Requests |-> u1]
MCHome == [r \in Requests |-> p1]
MCProcOf == [k \in Shards |-> p1]
\* r1 and r2 share a shard; r3 has the other one.
MCShardIndex == [p \in Procs |-> [r \in Requests |-> IF r = r3 THEN s2 ELSE s1]]
MCFlushers == {loop, closer} \X Shards
MCLoops == {loop} \X Shards
MCOf == [f \in Flushers |-> f[2]]
MCStoreOf == [u \in Users |-> u]
MCShardSeq == <<s1, s2>>
=============================================================================
