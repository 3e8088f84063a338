----------------------------- MODULE MCSyncRound -----------------------------
(* Instances of SyncRound and of the prototype, Simulator, for TLC. *)
EXTENDS SyncRound, Simulator

CONSTANTS w1, w2, w3

Setting(round, sessions, n, third, timeouts, errors) ==
  [round |-> round, sessions |-> sessions,
   windows |-> [w \in Workers |-> IF w = w3 THEN third ELSE n],
   call |-> timeouts, step |-> errors, abandoned |-> FALSE]

\* No worker takes part.
Quiet == Setting(2, 1, 0, 0, 0, 0)

ThreeSettings ==
  {Setting(3, 3, 2, 2, 0, 0),   \* rounds of three by three workers, nothing fails
   Setting(2, 3, 3, 0, 1, 1),   \* rounds of two, a call that times out and a failing step
   Setting(0, 2, 1, 0, 1, 1),   \* the grace window, with the same faults
   Quiet}

\* The hypothesis of the theorem about RoundsSound holds of these settings.
ASSUME RoundsNeedEveryone == EveryoneNeeded

Simulated ==
  [sync: {FALSE}, paces: {<<1, 2, 5>>, <<2, 3, 3>>}, fixed: BOOLEAN, inner: {1}, phases: {3},
   every: {2}, wait: {0, 1, 3}, delayed: BOOLEAN]
    \cup
  [sync: {TRUE}, paces: {<<1, 2, 5>>}, fixed: BOOLEAN, inner: {2}, phases: {3}, every: {2},
   wait: {0}, delayed: {FALSE}]

\* Where nobody takes part in a round of the server the prototype runs.
MCInit ==
  /\ Init
  /\ IF scenario = Quiet THEN SimInit
     ELSE SimInitAs(CHOOSE e \in Simulated : TRUE, "none")

MCNext == (Next /\ UNCHANGED simVars) \/ (SimNext /\ UNCHANGED vars)

MCSpec == MCInit /\ [][MCNext]_<<vars, simVars>> /\ Fairness /\ SimFairness

\* Every worker gets through its windows, and every simulated run ends.
RunsEnd == TrainingCompletes /\ SimEnds
=============================================================================
