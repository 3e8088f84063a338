---------------------------- MODULE MCFragmentSync ----------------------------
(* Instances of FragmentSync and of RLReplica for TLC. *)
EXTENDS FragmentClients, TLC

Faults(c, g, s, d) == [k \in FaultKinds |->
  CASE k = "call" -> c [] k = "gate" -> g [] k = "server" -> s [] k = "dud" -> d]

AFewFaults == Faults(2, 1, 1, 0)
ReplicaRun(p, n, f) == [fragments |-> p, windows |-> n, faults |-> f]
SomeRuns == {ReplicaRun(1, 4, Faults(3, 0, 0, 0)), ReplicaRun(2, 2, Faults(2, 0, 0, 0)),
             ReplicaRun(1, 2, Faults(1, 0, 1, 0)), ReplicaRun(2, 2, Faults(0, 0, 1, 0)),
             ReplicaRun(1, 2, Faults(0, 0, 0, 1))}
RestoredRun == {ReplicaRun(2, 2, Faults(0, 0, 1, 0))}
=============================================================================
