----------------------------- MODULE MCRolloutPool -----------------------------
EXTENDS RolloutPool
CONSTANTS l1, l2
Hub(every) == [strategy |-> "hub", members |-> {l1, l2}, every |-> every, windows |-> 2, flight |-> 1, rounds |-> 4]
Own == [strategy |-> "own", members |-> {l1}, every |-> 1, windows |-> 3, flight |-> 2, rounds |-> 2]
ThreeScenarios == {Hub(1), Hub(2), Own}
=============================================================================
