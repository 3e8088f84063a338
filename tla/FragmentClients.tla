---------------------------- MODULE FragmentClients ----------------------------
(***************************************************************************)
(* The two clients of a server of fragments, an island of several ranks    *)
(* and a replica, beside each other: a run has one of them, and the other  *)
(* one is away.                                                            *)
(***************************************************************************)
EXTENDS FragmentSync, RLReplica

NoRun == [fragments |-> 1, windows |-> 0, faults |-> MaxFaults]

\* The replica is not there: only the island moves.
ReplicaAway == ReplicaInitAs("off") /\ plan = NoRun

\* The island has left: only the replica moves.
IslandGone ==
  /\ pc = [r \in Ranks |-> "left"] /\ words = [r \in Ranks |-> NoWords]
  /\ shard = [r \in Ranks |-> [f \in Fragment |-> [model |-> <<>>, since |-> 0]]]
  /\ fragIdx = [r \in Ranks |-> 1] /\ localStep = [r \in Ranks |-> 0]
  /\ trained = [r \in Ranks |-> 0] /\ syncEvery = [r \in Ranks |-> SyncEvery]
  /\ baseline = [f \in Fragment |-> <<>>] /\ baseRev = 0 /\ resync = FALSE

ClientsInit ==
  \/ Init /\ ReplicaAway
  \/ ReplicaInit /\ IslandGone

IsIsland == at = "off"

ClientsNext ==
  \/ IsIsland /\ Next /\ UNCHANGED replica
  \/ ~IsIsland /\ ReplicaNext /\ UNCHANGED island

ClientsSpec == ClientsInit /\ [][ClientsNext]_<<vars, replica>> /\ Fairness /\ ReplicaFairness

\* The replica alone.
ReplicaSpec == ReplicaInit /\ IslandGone /\ [][ClientsNext]_<<vars, replica>> /\ ReplicaFairness

-----------------------------------------------------------------------------

\* The island's share of the two properties the replica has in another form.
IslandCountedOnce == IsIsland => WorkCountedOnce
IslandContinuity == IsIsland => FragmentContinuity

\* What is pushed, by an island or a replica, fits the model it is applied to
\* and carries each step's work once; the replica's cycles are whole, and only
\* three failures in a row end it.
ExchangesSound ==
  /\ IslandCountedOnce /\ IslandContinuity
  /\ ReplicaTypeOK /\ CycleWhole /\ ReplicaContinuity /\ ReplicaCountedOnce /\ DiesOnlyOfThree

\* Every rank and every replica leaves.
EverybodyEnds == EverybodyLeaves /\ ReplicaEnds

\* Why ExchangesSound is inductive.
ClientsInv == IF IsIsland THEN ExchangeInv /\ ReplicaAway ELSE PushInv
=============================================================================
