------------------------------- MODULE MCSplice -------------------------------
(* Instances of Splice for TLC. *)
EXTENDS Splice
CONSTANTS r1, r2, r3
OneOfTwo == [r \in Requests |-> IF r = r1 THEN 2 ELSE 1]
\* Nothing goes wrong with a single wave.
OneBut1 == [m \in Modes |-> IF m = 1 THEN 0 ELSE 1]
=============================================================================
