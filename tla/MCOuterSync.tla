----------------------------- MODULE MCOuterSync -----------------------------
(* Instances of OuterSync for TLC. *)
EXTENDS OuterSync, TLC

CONSTANTS w1, w2, plain, ahead

OneVariant == [w \in Workers |-> plain]
\* One island is served the look-ahead, the other the plain parameters.
TwoVariants == [w \in Workers |-> IF w = w1 THEN ahead ELSE plain]

Faults(c, f, s, w) == ("call" :> c) @@ ("save" :> f) @@ ("server" :> s) @@ ("worker" :> w)
\* A call that fails; or a server restart and a failed save.
CallOrRestore == {Faults(1, 0, 0, 0), Faults(0, 1, 1, 0)}
\* Nothing fails.
NoFaults == {Faults(0, 0, 0, 0)}
\* A server restart and a worker restart.
Restarts == {Faults(0, 0, 1, 1)}

ConnSymmetry == Permutations(Conns)
=============================================================================
