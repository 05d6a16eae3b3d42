----------------------------- MODULE MCInProcess ------------------------------
(***************************************************************************)
(* Instances of InProcess for TLC: one gateway process.                    *)
(***************************************************************************)
EXTENDS InProcess, TLC

CONSTANTS r1, r2, r3, u1, p1, s1, s2

MCUserOf == [r \in Requests |-> u1]
MCHome == [r \in Requests |-> p1]
MCProcOf == [k \in Shards |-> p1]
\* r1 and r2 share a shard; r3 has the other one, if there is one.
MCShardIndex == [p \in Procs |-> [r \in Requests |->
                   IF r = r3 /\ s2 \in Shards THEN s2 ELSE s1]]
\* A flusher is named after its shard.
MCOf == [f \in Flushers |-> f]
MCStoreOf == [u \in Users |-> u]

\* With a single shard the requests are interchangeable.
OneShard == Permutations({r1, r2, r3})
=============================================================================
