------------------------------ MODULE CohortGate ------------------------------
(***************************************************************************)
(* The cohort gate (_await_cohort): a worker goes on, at startup and at    *)
(* every sync boundary, only when the parameter server counts min_replicas *)
(* workers, those with a fresh heartbeat plus those that finished.  Beside *)
(* the training thread every worker runs a heartbeat thread, and on a      *)
(* clean exit it announces /done before it stops that thread.              *)
(*                                                                         *)
(* A member of Workers is one worker process: a restarted process has a    *)
(* new uuid, so it is another member.  Time is abstract: an entry that is  *)
(* not refreshed goes stale (older than heartbeat_timeout), and the        *)
(* deadline of a gate may pass at any probe.                               *)
(*                                                                         *)
(* Definitions named Faulty... are plausible mistakes in the code: put in  *)
(* place of the definition that follows them, each breaks a property.      *)
(***************************************************************************)
EXTENDS Integers, FiniteSets

CONSTANTS
  Workers,
  MinReplicas,   \* min_replicas
  MaxBoundaries, \* bound: sync boundaries of a worker
  MaxFaults      \* bound: faults of each kind

FaultKinds == {"crash", "request", "server"}

ASSUME CohortAssumption ==
  /\ IsFiniteSet(Workers) /\ MinReplicas \in 2..Cardinality(Workers)
  /\ MaxBoundaries \in Nat /\ MaxFaults \in [FaultKinds -> Nat]

VARIABLES
  heartbeats, \* what the server has of each worker: nothing, a fresh or a stale entry
  finished,   \* _finished
  wire,       \* requests under way
  phase,      \* where each training thread is
  boundaries, \* sync boundaries a worker has yet to cross
  beating,    \* does its heartbeat thread run?
  seen,       \* the count its last probe of /status returned
  joined,     \* history: workers the server has ever heard of
  faults      \* faults left, by kind

vars == <<heartbeats, finished, wire, phase, boundaries, beating, seen, joined, faults>>

server == <<heartbeats, finished, joined>>
worker == <<phase, boundaries, beating, seen>>

Unknown == -1
Phases == {"outside", "gate", "training", "exiting", "left", "lost"}

Init ==
  /\ heartbeats = [w \in Workers |-> "none"]
  /\ finished = {} /\ wire = {} /\ joined = {}
  /\ phase = [w \in Workers |-> "outside"]
  /\ boundaries = [w \in Workers |-> MaxBoundaries]
  /\ beating = [w \in Workers |-> FALSE]
  /\ seen = [w \in Workers |-> Unknown]
  /\ faults = MaxFaults

Spend(kind) == faults[kind] > 0 /\ faults' = [faults EXCEPT ![kind] = @ - 1]

Goto(w, p) == phase' = [phase EXCEPT ![w] = p]

-----------------------------------------------------------------------------
(* The worker. *)

\* __enter__: the heartbeat thread starts before the gate.
Enter(w) ==
  /\ phase[w] = "outside" /\ Goto(w, "gate")
  /\ beating' = [beating EXCEPT ![w] = TRUE]
  /\ UNCHANGED <<server, wire, boundaries, seen, faults>>

\* The heartbeat thread's next ping; the one before it has ended.
SendBeat(w) ==
  /\ beating[w] /\ [kind |-> "beat", id |-> w] \notin wire
  /\ wire' = wire \cup {[kind |-> "beat", id |-> w]}
  /\ UNCHANGED <<server, worker, faults>>

Active == {w \in Workers : heartbeats[w] = "fresh"}

\* What the gate adds up of /status.
Count == Cardinality(Active) + Cardinality(finished)

Probe(w) ==
  /\ phase[w] = "gate" /\ seen[w] = Unknown
  /\ seen' = [seen EXCEPT ![w] = Count]
  /\ UNCHANGED <<server, wire, phase, boundaries, beating, faults>>

FaultyEnough(n) == n >= MinReplicas - 1

Enough(n) == n >= MinReplicas

PassGate(w) ==
  /\ phase[w] = "gate" /\ seen[w] # Unknown /\ Enough(seen[w])
  /\ Goto(w, "training")
  /\ seen' = [seen EXCEPT ![w] = Unknown]
  /\ UNCHANGED <<server, wire, boundaries, beating, faults>>

Short(w) == phase[w] = "gate" /\ seen[w] # Unknown /\ ~Enough(seen[w])

\* A probe that raises counts nobody.
ProbeFails(w) ==
  /\ phase[w] = "gate" /\ seen[w] = Unknown
  /\ Spend("request")
  /\ seen' = [seen EXCEPT ![w] = 0]
  /\ UNCHANGED <<server, wire, phase, boundaries, beating>>

\* Too few, and the deadline has not passed: sleep and probe again.
ProbeAgain(w) ==
  /\ Short(w)
  /\ seen' = [seen EXCEPT ![w] = Unknown]
  /\ UNCHANGED <<server, wire, phase, boundaries, beating, faults>>

\* A worker that leaves with an exception stops its heartbeat and says nothing.
FaultyLastWords(w) == {[kind |-> "done", id |-> w]}

LastWords(w) == {}

Leave(w) ==
  /\ Goto(w, "lost")
  /\ beating' = [beating EXCEPT ![w] = FALSE]
  /\ seen' = [seen EXCEPT ![w] = Unknown]
  /\ wire' = wire \cup LastWords(w)
  /\ UNCHANGED <<server, boundaries>>

FaultyPatience(w) == seen[w] = 0

\* The deadline is looked at after every probe that found too few.
Patience(w) == Short(w)

GiveUp(w) == Short(w) /\ Patience(w) /\ Leave(w) /\ UNCHANGED faults

MoreBoundaries(w) == boundaries[w] > 0

Boundary(w) ==
  /\ phase[w] = "training" /\ MoreBoundaries(w)
  /\ boundaries' = [boundaries EXCEPT ![w] = @ - 1]
  /\ Goto(w, "gate")
  /\ UNCHANGED <<server, wire, beating, seen, faults>>

FaultyKeepsBeating(w) == FALSE

\* The heartbeat thread runs on while /done is announced.
KeepsBeating(w) == beating[w]

AnnounceDone(w) ==
  /\ phase[w] = "training" /\ ~MoreBoundaries(w)
  /\ Goto(w, "exiting")
  /\ wire' = wire \cup {[kind |-> "done", id |-> w]}
  /\ beating' = [beating EXCEPT ![w] = KeepsBeating(w)]
  /\ UNCHANGED <<server, boundaries, seen, faults>>

FaultyStopped(w) == beating

Stopped(w) == [beating EXCEPT ![w] = FALSE]

\* _stop_heartbeat, when the announcement was answered, or failed: then it
\* may still arrive later.
StopHeartbeat(w) ==
  /\ phase[w] = "exiting"
  /\ IF [kind |-> "done", id |-> w] \in wire THEN Spend("request") ELSE UNCHANGED faults
  /\ Goto(w, "left")
  /\ beating' = Stopped(w)
  /\ UNCHANGED <<server, wire, boundaries, seen>>

\* The process dies, or the training loop raises.
Crash(w) ==
  /\ phase[w] \in {"gate", "training"}
  /\ Spend("crash") /\ Leave(w)

-----------------------------------------------------------------------------
(* The server. *)

Heartbeat(w) ==
  /\ [kind |-> "beat", id |-> w] \in wire
  /\ wire' = wire \ {[kind |-> "beat", id |-> w]}
  /\ heartbeats' = [heartbeats EXCEPT ![w] = "fresh"]
  /\ joined' = joined \cup {w}
  /\ UNCHANGED <<finished, worker, faults>>

\* One critical section moves the worker from active to finished.
Done(w) ==
  /\ [kind |-> "done", id |-> w] \in wire
  /\ wire' = wire \ {[kind |-> "done", id |-> w]}
  /\ finished' = finished \cup {w}
  /\ heartbeats' = [heartbeats EXCEPT ![w] = "none"]
  /\ joined' = joined \cup {w}
  /\ UNCHANGED <<worker, faults>>

LoseRequest ==
  /\ Spend("request")
  /\ \E r \in wire : wire' = wire \ {r}
  /\ UNCHANGED <<server, worker>>

\* heartbeat_timeout passes without a ping: its thread has stopped, or its
\* pings are lost or late.
Expire(w) ==
  /\ heartbeats[w] = "fresh"
  /\ IF beating[w] THEN Spend("request") ELSE UNCHANGED faults
  /\ heartbeats' = [heartbeats EXCEPT ![w] = "stale"]
  /\ UNCHANGED <<finished, joined, wire, worker>>

\* One tick of the heartbeat monitor.
Evict ==
  /\ \E w \in Workers : heartbeats[w] = "stale"
  /\ heartbeats' = [w \in Workers |-> IF heartbeats[w] = "stale" THEN "none" ELSE heartbeats[w]]
  /\ UNCHANGED <<finished, joined, wire, worker, faults>>

\* Neither table is in the checkpoint, and every connection breaks.
ServerRestart ==
  /\ Spend("server")
  /\ heartbeats' = [w \in Workers |-> "none"]
  /\ finished' = {} /\ wire' = {}
  /\ UNCHANGED <<joined, worker>>

-----------------------------------------------------------------------------

TrainingStep(w) ==
  \/ Enter(w) \/ Probe(w) \/ PassGate(w) \/ ProbeAgain(w) \/ GiveUp(w)
  \/ Boundary(w) \/ AnnounceDone(w) \/ StopHeartbeat(w)

Next ==
  \/ \E w \in Workers :
       TrainingStep(w) \/ SendBeat(w) \/ ProbeFails(w) \/ Crash(w) \/ Heartbeat(w) \/ Done(w) \/ Expire(w)
  \/ LoseRequest \/ Evict \/ ServerRestart

\* Threads run and handlers answer; an entry nobody refreshes gets old; and
\* a gate that finds too few again and again meets its deadline.
Fairness ==
  /\ \A w \in Workers :
       /\ WF_vars(TrainingStep(w)) /\ SF_vars(GiveUp(w))
       /\ WF_vars(SendBeat(w)) /\ WF_vars(Heartbeat(w)) /\ WF_vars(Done(w))
       /\ WF_vars(~beating[w] /\ Expire(w))
  /\ WF_vars(Evict)

Spec == Init /\ [][Next]_vars /\ Fairness

-----------------------------------------------------------------------------
(* Properties. *)

\* Every variable has its type.
TypeOK ==
  /\ heartbeats \in [Workers -> {"none", "fresh", "stale"}]
  /\ finished \subseteq Workers /\ joined \subseteq Workers
  /\ wire \subseteq [kind : {"beat", "done"}, id : Workers]
  /\ phase \in [Workers -> Phases]
  /\ boundaries \in [Workers -> 0..MaxBoundaries]
  /\ beating \in [Workers -> BOOLEAN]
  /\ seen \in [Workers -> {Unknown} \cup 0..2 * Cardinality(Workers)]
  /\ faults \in [FaultKinds -> Nat]

\* While nothing fails, the cohort that came together stays together for the
\* gate: a worker that finishes goes from active to finished without a gap,
\* so a slower worker is never held up by a faster one that is done.
CohortKept ==
  faults = MaxFaults /\ joined = Workers /\ (\A w \in Workers : phase[w] # "lost") =>
    Count >= Cardinality(Workers)

\* No worker gets through its first gate before the server has heard of
\* another one (min_replicas exists to stop silent solo training).
NeverSolo == \A w \in Workers : phase[w] \in {"training", "exiting"} => joined \ {w} # {}

\* A worker that crashed or gave up stops counting for good: only a clean
\* exit counts as finished.
LossNoticed ==
  \A w \in Workers :
    phase[w] = "lost" ~> [](heartbeats[w] # "fresh" /\ w \notin finished)

\* A ping that overtakes /done counts its worker twice, but not for ever.
CountedTwiceEnds ==
  \A w \in Workers : heartbeats[w] = "fresh" /\ w \in finished ~> ~(heartbeats[w] = "fresh" /\ w \in finished)

\* Counts settle: who is lost stops counting, who has finished counts once.
CountsSettle == LossNoticed /\ CountedTwiceEnds

\* Nobody waits at a gate for ever.
GateEnds == \A w \in Workers : phase[w] = "gate" ~> phase[w] # "gate"
=============================================================================
