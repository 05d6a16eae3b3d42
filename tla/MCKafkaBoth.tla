------------------------------ MODULE MCKafkaBoth ------------------------------
(***************************************************************************)
(* Two scenarios of KafkaPipeline in one state graph: "calm", two requests *)
(* and one process in which nothing fails, and "faults", one request and   *)
(* two processes with every fault.                                         *)
(***************************************************************************)
EXTENDS MCKafkaPipeline

VARIABLE scenario

\* The steps a calm scenario does not take.
Trouble ==
    \/ \E r \in Requests :
         \/ Expire(r)
         \/ \E amount \in Estimates : RefuseAfterScript(r, amount)
         \/ \E p \in Procs : ProduceError(p, r) \/ Produce(p, r, FALSE)
    \/ \E f \in Flushers :
         \/ BatchSettleError(f)
         \/ \E stores \in SUBSET Stores : InsertError(f, stores)
    \/ \E part \in Partitions : Revoke(part)
    \/ \E p \in Procs :
         \/ Cancel(p) \/ ProcessEnds(p)
         \/ Commit(p, committed) /\ ~Highest(held[p], committed)

BothNext ==
    /\ KafkaNext
    /\ scenario = "calm" =>
         /\ ~Trouble
         /\ \A part \in Partitions : p2 \notin assigned'[part]
    /\ scenario = "faults" =>
         /\ stage'[r2] = "new"
         /\ \A part \in Partitions : Len(log'[part]) <= 1
    /\ UNCHANGED scenario

BothInit == KafkaInit /\ scenario \in {"calm", "faults"}

BothSpec ==
    /\ BothInit
    /\ [][BothNext]_<<kafkaVars, scenario>>
    /\ KafkaFairness

\* While nothing fails, a published event that the group's reader will reach
\* becomes an order and releases its reservation: the fetch deadline flushes a
\* residual partial batch.  (A group without a committed offset starts at the
\* end of the log and never reaches what is before it.)
CalmPublishedIsSettled ==
    \A r \in Requests :
        /\ scenario = "calm"
        /\ \E i \in DOMAIN log[PartitionOf[r]] :
              log[PartitionOf[r]][i] = r /\ ToBeFetched(PartitionOf[r], i)
        ~> orders[r] # NoOrder /\ precharge[r] = 0
=============================================================================
