------------------------------ MODULE Correction ------------------------------
(***************************************************************************)
(* HeLoCo's correction of a push against the outer momentum                *)
(* (block_correct, and whole_gradient_correct, which takes all tensors as  *)
(* one block), in exact arithmetic.  A block has two elements; its         *)
(* direction is a vector of length 5 with whole coordinates, so that every *)
(* cosine is a whole number of 25ths.  A fraction is a pair <<over, under>>.*)
(*                                                                         *)
(* Definitions named Faulty... are plausible mistakes in the code: put in  *)
(* place of the definition that follows them, each breaks a property.      *)
(***************************************************************************)
EXTENDS Integers, Sequences

Missing == 99  \* in place of an element: its tensor has no momentum yet

Directions == {v \in (-5..5) \X (-5..5) : v[1] * v[1] + v[2] * v[2] = 25}

Dot(u, v) == u[1] * v[1] + u[2] * v[2]
Cross(u, v) == u[1] * v[2] - u[2] * v[1]
Mix(a, u, b, v) == <<a * u[1] + b * v[1], a * u[2] + b * v[2]>>

AtMost(f, cap) == IF f[1] * cap[2] > cap[1] * f[2] THEN cap ELSE f

\* conf_b, the push's share: ||delta|| / (||delta|| + kappa ||m||), kappa = 3.
Conf(c) == <<c.length, c.length + 3 * c.weight>>

FaultyShrink(c) == <<c.ks[1] * (-Dot(c.delta, c.m)) * Conf(c)[1], c.ks[2] * 25 * Conf(c)[2]>>

\* beta_b = min(k_s (-cos_b) conf_b, beta_max), beta_max = 1/2.
Shrink(c) ==
  AtMost(<<c.ks[1] * (-Dot(c.delta, c.m)) * Conf(c)[1], c.ks[2] * 25 * Conf(c)[2]>>, <<1, 2>>)

\* lambda_b = min(k_d (1 - cos_b) conf_b, 1).
Turn(c) ==
  AtMost(<<c.kd[1] * (25 - Dot(c.delta, c.m)) * Conf(c)[1], c.kd[2] * 25 * Conf(c)[2]>>, <<1, 1>>)

\* Aligned well enough (cos_b >= c_ok), or nothing to compare with.
Passes(c) == c.m = <<0, 0>> \/ Dot(c.delta, c.m) >= c.ok

Opposed(c) == Dot(c.delta, c.m) < 0

\* The corrected block: its direction, times "times"; kept: its length is
\* that of the push, whatever the length of the vector.
Corrected(c) ==
  IF Passes(c) THEN [vector |-> c.delta, times |-> 1, kept |-> TRUE]
  ELSE IF Opposed(c)
  THEN LET b == Shrink(c) IN
       [vector |-> Mix(25 * b[2], c.delta, -b[1] * Dot(c.delta, c.m), c.m),
        times  |-> 25 * b[2], kept |-> FALSE]
  ELSE LET l == Turn(c) IN
       [vector |-> Mix(l[2] - l[1], c.delta, l[1], c.m), times |-> 1, kept |-> TRUE]

\* The momenta there are, without their places.
FaultyFlat(momenta) ==
  IF momenta[1] = Missing /\ momenta[2] # Missing THEN <<momenta[2], 0>>
  ELSE [i \in 1..2 |-> IF momenta[i] = Missing THEN 0 ELSE momenta[i]]

\* Two tensors of one element as one block; a missing momentum is zero.
Flat(momenta) == [i \in 1..2 |-> IF momenta[i] = Missing THEN 0 ELSE momenta[i]]

WholeCorrected(c, momenta) == Corrected([c EXCEPT !.m = Flat(momenta)])
=============================================================================
