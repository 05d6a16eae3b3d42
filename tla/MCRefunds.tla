------------------------------ MODULE MCRefunds ------------------------------
(***************************************************************************)
(* An instance of Refunds for TLC: one run over a ShardedStore of two      *)
(* shards, as the admin API starts it, with a refund that executes at once *)
(* on one shard and one that waits for approval on the other.  Nothing     *)
(* fails.                                                                  *)
(***************************************************************************)
EXTENDS Refunds, TLC

CONSTANTS n1, n2, s1, s2, w1

MCShardOfOrder == n1 :> s1 @@ n2 :> s2
MCCredit == n1 :> 1 @@ n2 :> 2
MCReachOf == w1 :> RefundShards
=============================================================================
