--------------------------- MODULE VersionRegister ---------------------------
(***************************************************************************)
(* What the checkpoint channel between the parameter server and the        *)
(* rollout workers promises: a worker only ever holds a checkpoint that    *)
(* was offered as one piece, and while it lives it only moves to higher    *)
(* versions.  Nothing is said of which versions it skips.                  *)
(***************************************************************************)
EXTENDS Naturals

CONSTANT Workers

VARIABLES
  offered,   \* the <<version, content>> pairs put on the channel so far
  held       \* held[w] : such a pair, or Nothing

Nothing == <<0, <<>>>>

Init == offered = {} /\ held = [w \in Workers |-> Nothing]

Offer ==
  /\ \E o \in offered' \ offered : o[1] > 0 /\ offered' = offered \cup {o}
  /\ UNCHANGED held

Take(w) ==
  /\ \E o \in offered : o[1] > held[w][1] /\ held' = [held EXCEPT ![w] = o]
  /\ UNCHANGED offered

Restart(w) == held' = [held EXCEPT ![w] = Nothing] /\ UNCHANGED offered

Next == Offer \/ \E w \in Workers : Take(w) \/ Restart(w)

Spec == Init /\ [][Next]_<<offered, held>>
=============================================================================
