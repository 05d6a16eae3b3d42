------------------------------- MODULE MCGateway -------------------------------
(***************************************************************************)
(* The gateway process for TLC: its billing sink (InProcess), its detail   *)
(* sink (DetailSink) and the recharges (Payments), side by side.  They do  *)
(* not interact, so one of them moves in a behaviour and the others stay   *)
(* in their initial states.  scenario says which: "calm" moves the billing *)
(* sink while nothing fails, and reserves for all requests but perhaps r1; *)
(* "faults" lets everything fail on two requests instead of three.         *)
(***************************************************************************)
EXTENDS MCInProcess, DetailSink, Payments

VARIABLE scenario

gatewayVars == <<allVars, detailVars, payVars, scenario>>

\* The steps a calm scenario does not take.
Trouble ==
    \/ \E r \in Requests :
         \/ Expire(r) \/ StreamingUnsupported(r)
         \/ \E amount \in Estimates : RefuseAfterScript(r, amount)
    \/ \E f \in Flushers :
         \/ BatchSettleError(f)
         \/ \E stores \in SUBSET Stores : InsertError(f, stores)
    \/ \E p \in Procs : SinkClose(p) \/ ProcessEnds(p)

GatewayNext ==
    /\ UNCHANGED scenario
    /\ \/ /\ scenario \in {"calm", "faults"} /\ SinkNext
          /\ scenario = "calm" => ~Trouble /\ \A r \in {r2, r3} : ~AdmitUnreserved(r)
          /\ scenario = "faults" => stage'[r3] = "new"
          /\ UNCHANGED <<detailVars, payVars>>
       \/ /\ scenario = "detail" /\ DetailNext
          /\ UNCHANGED <<allVars, payVars>>
       \/ /\ scenario = "payments" /\ PayNext
          /\ UNCHANGED <<allVars, detailVars>>

GatewayInit ==
    /\ SinkInit /\ DetailInit /\ PayInit
    /\ scenario \in {"calm", "faults", "detail", "payments"}

\* Expiry is not fair here: it is one of the steps a calm scenario leaves out.
GatewaySpec ==
    /\ GatewayInit
    /\ [][GatewayNext]_gatewayVars
    /\ SinkFairness
    /\ DetailFairness

\* While nothing fails, an event that found room in the channel (sink.go, Emit)
\* is eventually an order and its reservation is released (settle.go, flush):
\* no partial batch waits forever for a signal that was dropped.
CalmServedIsSettled ==
    \A r \in Requests :
        (scenario = "calm" /\ stage[r] = "served" /\ r \notin dropped)
            ~> (orders[r] # NoOrder /\ precharge[r] = 0)
=============================================================================
