------------------------------ MODULE MCWaiters ------------------------------
(* Instances of CohortGate and of StageWeights for TLC, and the inputs of  *)
(* Plans: in each initial state, workers wait at the cohort gate, or stages *)
(* wait for their weights, or a cut is checked; the others are at rest.    *)
EXTENDS CohortGate, StageWeights, Plans, TLC

AFewFaults == ("crash" :> 1) @@ ("request" :> 1) @@ ("server" :> 1)

\* Every worker has left long ago.
NobodyAtTheGate ==
  /\ heartbeats = [w \in Workers |-> "none"]
  /\ finished = {} /\ wire = {} /\ joined = {}
  /\ phase = [w \in Workers |-> "left"]
  /\ boundaries = [w \in Workers |-> 0]
  /\ beating = [w \in Workers |-> FALSE]
  /\ seen = [w \in Workers |-> Unknown]
  /\ faults = MaxFaults

\* No stage has been started.
NoStages == WeightsInitAs("none") /\ want = CHOOSE m \in Models : TRUE

MCInit ==
  \/ Init /\ NoStages /\ input = NoInput
  \/ NobodyAtTheGate /\ WeightsInit /\ input = NoInput
  \/ NobodyAtTheGate /\ NoStages /\ AnyInput

GateNext == via = "none" /\ input = NoInput /\ Next /\ UNCHANGED <<weightVars, input>>

StagesNext == via # "none" /\ WeightsNext /\ UNCHANGED <<vars, input>>

MCNext == GateNext \/ StagesNext

MCSpec == MCInit /\ [][MCNext]_<<vars, weightVars, input>> /\ Fairness /\ WeightsFairness
=============================================================================
