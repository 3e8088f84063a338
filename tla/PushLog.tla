------------------------------- MODULE PushLog -------------------------------
(***************************************************************************)
(* What the parameter server promises about pseudo-gradients: the model is *)
(* a log of pushes; a push is folded in at most once, ever; a push that    *)
(* was dropped stays dropped; and recovery returns to a log that was saved *)
(* as a whole.                                                             *)
(***************************************************************************)
EXTENDS Sequences

CONSTANT Push

VARIABLES
  log,    \* the pushes applied, in order
  saved,  \* the log a recovery returns to
  spent   \* pushes that were applied or dropped: they can never be applied again

logVars == <<log, saved, spent>>

Init == log = <<>> /\ saved = <<>> /\ spent = {}

Commit(p) ==
  /\ p \notin spent
  /\ log' = Append(log, p)
  /\ spent' = spent \cup {p}
  /\ UNCHANGED saved

Drop(S) == spent' = spent \cup S /\ UNCHANGED <<log, saved>>

Save == saved' = log /\ UNCHANGED <<log, spent>>

Recover(S) == log' = saved /\ spent' = spent \cup S /\ UNCHANGED saved

Next ==
  \/ \E p \in Push : Commit(p)
  \/ \E S \in SUBSET Push : Drop(S) \/ Recover(S)
  \/ Save

Spec == Init /\ [][Next]_logVars
=============================================================================
