----------------------------- MODULE OuterSteps -----------------------------
(***************************************************************************)
(* What the parameter server does with a push's gradients: the outer       *)
(* optimizers (Delayed Nesterov, HeLoCo, MLA, Bayes), HeLoCo's correction  *)
(* against a momentum read in an earlier critical section, the second,     *)
(* Delayed-Nesterov optimizer of the islands HeLoCo does not select, the   *)
(* fragments, and what a checkpoint keeps of all this.  The handlers read  *)
(* and apply a push under the stream lock; with a grace period several     *)
(* processors may be at work at once (see SyncRound).                      *)
(*                                                                         *)
(* All rules but the correction and the Kalman gain are linear, so a       *)
(* tensor is the vector of its coefficients: x[p] is how much of push p's  *)
(* gradient it holds, in units of 1/One.  The learning rate is 1, every    *)
(* decay 1/2; a Kalman gain is 0, 1/2 or 1.  A corrected push stands for   *)
(* its own gradient: what is kept is which momentum it was read against.   *)
(*                                                                         *)
(* Definitions named Faulty... are plausible mistakes in the code: put in  *)
(* place of the definition that follows them, each breaks a property.      *)
(***************************************************************************)
EXTENDS Layout

CONSTANTS
  Handlers,    \* handler threads
  IslandIds, Unknown,  \* island ids, and the -1 of a push that names none
  One,        \* the unit of a coefficient, which no number of steps divides down to 0
  Scenarios   \* the servers looked at, with their bounds

ASSUME StepAssumption ==
  /\ Unknown \notin IslandIds /\ One \in Nat \ {0}
  /\ \A s \in Scenarios :
       /\ s.method \in {"heloco", "diloco", "mla", "bayes"}
       /\ s.others \in {"uncorrected", "diloco"}
       /\ s.selected \subseteq IslandIds /\ s.numels \in Seq(Nat)
       /\ s.fragments \in 1..Len(s.numels) /\ s.period \in Nat \ {0}
       /\ s.grace \in BOOLEAN /\ (s.grace => s.fragments = 1)
       /\ s.pushes \in Nat /\ s.restarts \in Nat
       /\ One >= 2 * s.period * 2^s.pushes

VARIABLES
  scenario,
  theta,     \* the global model, per tensor
  own,       \* the outer optimizer: its state per tensor, and _push_count
  second,    \* _diloco_optimizer, of the same kind
  pushes,    \* the pushes received, in order
  job,       \* what each handler thread is applying
  disk,      \* the checkpoint: the model and the outer optimizer's state
  restarts,  \* how often the server was restarted
  base       \* history: per optimizer and tensor, the model at its last milestone

stepVars == <<scenario, theta, own, second, pushes, job, disk, restarts, base>>

Tensors == DOMAIN scenario.numels
Ids == 1..scenario.pushes
Zero == [p \in Ids |-> 0]

Plus(x, y) == [p \in Ids |-> x[p] + y[p]]
Minus(x, y) == [p \in Ids |-> x[p] - y[p]]
Over(x, n) == [p \in Ids |-> x[p] \div n]
Half(x) == Over(x, 2)

\* A tensor's lazily created optimizer state.  sure: P > 0 (Bayes only).
NoState == [seen |-> FALSE, m |-> Zero, buffer |-> Zero, sure |-> FALSE]
NoOptimizer == [state |-> [t \in Tensors |-> NoState], count |-> 0]

\* A thread works through the pushes of its batch, batch[at] being next.
Idle == [phase |-> "idle", batch |-> <<>>, at |-> 1, read |-> <<>>]
Present(th) == job[th].batch[job[th].at]

StepsInitAs(s) ==
  /\ scenario = s
  /\ theta = [t \in Tensors |-> Zero]
  /\ own = NoOptimizer /\ second = NoOptimizer
  /\ pushes = <<>>
  /\ job = [th \in Handlers |-> Idle]
  /\ disk = [theta |-> theta, state |-> own.state, base |-> theta]
  /\ restarts = 0
  /\ base = [own |-> theta, second |-> theta]

StepsInit == \E s \in Scenarios : StepsInitAs(s)

-----------------------------------------------------------------------------
(* Which push gets what. *)

\* The tensors of a fragment.
Covered(p) == Members(FragmentBounds(scenario.numels, scenario.fragments)[pushes[p].fragment])

GetsCorrection(island) == island = Unknown \/ island \in scenario.selected

\* The island is served true DiLoCo, through the second optimizer.
IsDiloco(island) ==
  scenario.method = "heloco" /\ scenario.others = "diloco" /\ ~GetsCorrection(island)

FaultyOptimizerOf(p) == "own"

OptimizerOf(p) == IF IsDiloco(pushes[p].island) THEN "second" ELSE "own"

\* p.grad: a tensor's gradient in push p.
Grad(p, t) == IF t \in pushes[p].zero THEN Zero ELSE [Zero EXCEPT ![p] = One]

-----------------------------------------------------------------------------
(* The optimizers' rules: the model x and state s of a tensor after gradient g. *)

\* The state after a step.
Touched(m, buffer, sure) == [seen |-> TRUE, m |-> m, buffer |-> buffer, sure |-> sure]

FaultyDelayedNesterov(x, s, g, milestone) ==
  LET sum == Plus(s.buffer, g)
      avg == Over(sum, scenario.period)
      m   == IF milestone THEN Plus(Half(s.m), avg) ELSE s.m
  IN  [x |-> Minus(x, IF milestone THEN Plus(avg, Half(m)) ELSE Over(g, scenario.period)),
       s |-> Touched(m, IF milestone THEN Zero ELSE sum, s.sure)]

\* Delayed Nesterov: 1/N of each gradient at once, the momentum of their mean
\* at a milestone.
DelayedNesterov(x, s, g, milestone) ==
  LET sum == Plus(s.buffer, g)
      m   == IF milestone THEN Plus(Half(s.m), Over(sum, scenario.period)) ELSE s.m
  IN  [x |-> Minus(x, Plus(Over(g, scenario.period), IF milestone THEN Half(m) ELSE Zero)),
       s |-> Touched(m, IF milestone THEN Zero ELSE sum, s.sure)]

\* HeLoCo and MLA: m <- mu m + (1-mu) g, then x - (g + mu m).
MomentumLookAhead(x, s, g) ==
  LET m == Half(Plus(s.m, g)) IN
  [x |-> Minus(x, Plus(g, Half(m))), s |-> Touched(m, s.buffer, s.sure)]

FaultyBayes(x, s, g, gain) ==
  LET sure == s.sure
      G    == IF sure THEN Plus(s.m, Over([p \in Ids |-> gain * (g[p] - s.m[p])], 2)) ELSE s.m
      m    == Half(Plus(s.m, G))
  IN  [x |-> Minus(x, Plus(G, Half(m))),
       s |-> Touched(m, s.buffer, sure \/ s.m # Zero)]

\* Bayes: the gradient is blended into the momentum by K = P / (P + R + eps).
\* P starts as the first gradient squared: K is 0 exactly when P is.
Bayes(x, s, g, gain) ==
  LET sure == IF s.seen THEN s.sure ELSE g # Zero
      G    == IF sure THEN Plus(s.m, Over([p \in Ids |-> gain * (g[p] - s.m[p])], 2)) ELSE s.m
      m    == Half(Plus(s.m, G))
  IN  [x |-> Minus(x, Plus(G, Half(m))),
       s |-> Touched(m, s.buffer, sure \/ s.m # Zero)]

\* _push_count += 1 inside the loop over the tensors.
FaultyCounted(o) == [o EXCEPT !.count = @ + Cardinality(Tensors)]

Counted(o) == [o EXCEPT !.count = @ + 1]

FaultyAtMilestone(o) == o.count % scenario.period = 0

AtMilestone(o) == (o.count + 1) % scenario.period = 0

\* One tensor's step of the named optimizer, in state o before the step.
Stepped(name, o, t, g, gain) ==
  LET s == o.state[t] IN
  CASE name = "second" \/ scenario.method = "diloco" ->
         DelayedNesterov(theta[t], s, g, AtMilestone(o))
    [] name = "own" /\ scenario.method \in {"heloco", "mla"} -> MomentumLookAhead(theta[t], s, g)
    [] name = "own" /\ scenario.method = "bayes" -> Bayes(theta[t], s, g, gain)

-----------------------------------------------------------------------------
(* Handler threads. *)

Busy(th) == job[th].phase # "idle"

FaultyMayBegin(th) == job[th].phase = "idle"

\* Without a grace period a push is read and applied under the stream lock.
MayBegin(th) == ~Busy(th) /\ (scenario.grace \/ \A other \in Handlers : ~Busy(other))

\* What can arrive: the island is told apart by HeLoCo only, a zero gradient
\* by Bayes only.  The processor of a grace batch passes no island on.
Arriving ==
  [island: IF scenario.method = "heloco" /\ ~scenario.grace THEN IslandIds \cup {Unknown}
                                                            ELSE {Unknown},
   fragment: 1..scenario.fragments,
   zero: IF scenario.method = "bayes" THEN SUBSET Tensors ELSE {{}}]

\* A push is received by its handler, or two are by their batch's processor.
Begin(th) ==
  /\ MayBegin(th)
  /\ \E batch \in {<<p>> : p \in Arriving}
                    \cup (IF scenario.grace THEN Arriving \X Arriving ELSE {}) :
       /\ Len(pushes) + Len(batch) <= scenario.pushes
       /\ pushes' = pushes \o batch
       /\ job' = [job EXCEPT ![th] =
            [Idle EXCEPT !.phase = "received",
                         !.batch = [i \in DOMAIN batch |-> Len(pushes) + i]]]
  /\ UNCHANGED <<scenario, theta, own, second, disk, restarts, base>>

\* Only HeLoCo, and not for a DiLoCo island, reads before it commits.
ReadsFirst(p) == scenario.method = "heloco" /\ ~IsDiloco(pushes[p].island)

\* The momentum as the correction of push p sees it.
Momentum(p) == [t \in Covered(p) |-> own.state[t].m]

FaultyMomentumRead(th) == IF job[th].at > 1 THEN job[th].read ELSE Momentum(Present(th))

MomentumRead(th) == Momentum(Present(th))

\* _apply_one, first half: clone the momentum under the lock.
ReadMomentum(th) ==
  /\ job[th].phase = "received"
  /\ ReadsFirst(Present(th))
  /\ job' = [job EXCEPT ![th].phase = "corrected", ![th].read = MomentumRead(th)]
  /\ UNCHANGED <<scenario, theta, own, second, pushes, disk, restarts, base>>

\* _apply_one, second half: commit what was corrected outside the lock.
CommitPush(th) ==
  LET p    == Present(th)
      name == OptimizerOf(p)
      o    == IF name = "own" THEN own ELSE second
      last == job[th].at = Len(job[th].batch)
  IN
  /\ \/ job[th].phase = "corrected"
     \/ job[th].phase = "received" /\ ~ReadsFirst(p)
  /\ \E gain \in IF scenario.method = "bayes" THEN {1, 2} ELSE {2} :
       LET step == [t \in Covered(p) |-> Stepped(name, o, t, Grad(p, t), gain)]
           next == Counted([o EXCEPT !.state =
                     [t \in Tensors |-> IF t \in Covered(p) THEN step[t].s ELSE o.state[t]]])
           x    == [t \in Tensors |-> IF t \in Covered(p) THEN step[t].x ELSE theta[t]]
       IN
         /\ theta' = x
         /\ own' = IF name = "own" THEN next ELSE own
         /\ second' = IF name = "second" THEN next ELSE second
         /\ base' = [base EXCEPT ![name] =
              [t \in Tensors |-> IF t \in Covered(p) /\ AtMilestone(o) THEN x[t] ELSE @[t]]]
  /\ job' = [job EXCEPT ![th].phase = IF last THEN "applied" ELSE "received",
                        ![th].at = IF last THEN @ ELSE @ + 1]
  /\ UNCHANGED <<scenario, pushes, disk, restarts>>

FaultySaved == [theta |-> theta, state |-> [t \in Tensors |-> [own.state[t] EXCEPT !.buffer = Zero]],
                base |-> base["own"]]

\* What a checkpoint holds: one critical section's view of the model and of
\* the outer optimizer's state; not its push count, and not the second one.
Saved == [theta |-> theta, state |-> own.state, base |-> base["own"]]

\* The push, or the batch, is done: a checkpoint is written if one is due.
Finish(th) ==
  /\ job[th].phase = "applied"
  /\ disk' \in {disk, Saved}
  /\ job' = [job EXCEPT ![th] = Idle]
  /\ UNCHANGED <<scenario, theta, own, second, pushes, restarts, base>>

\* The server dies and is started again from the checkpoint.
RestartFromDisk ==
  /\ restarts < scenario.restarts
  /\ restarts' = restarts + 1
  /\ theta' = disk.theta
  /\ own' = [state |-> disk.state, count |-> 0]
  /\ second' = NoOptimizer
  /\ base' = [own |-> disk.base, second |-> disk.theta]
  /\ job' = [th \in Handlers |-> Idle]
  /\ UNCHANGED <<scenario, pushes, disk>>

StepsNext ==
  \/ \E th \in Handlers : Begin(th) \/ ReadMomentum(th) \/ CommitPush(th) \/ Finish(th)
  \/ RestartFromDisk

-----------------------------------------------------------------------------
(* Properties. *)

\* Every variable has its type.
StepsTypeOK ==
  LET Vector    == [Ids -> Int]
      State     == [Tensors -> [seen: BOOLEAN, m: Vector, buffer: Vector, sure: BOOLEAN]]
      Optimizer == [state: State, count: 0..scenario.pushes]
  IN
  /\ scenario \in Scenarios
  /\ theta \in [Tensors -> Vector] /\ own \in Optimizer /\ second \in Optimizer
  /\ pushes \in Seq([island: IslandIds \cup {Unknown}, fragment: 1..scenario.fragments,
                     zero: SUBSET Tensors])
  /\ \A th \in Handlers :
       /\ job[th].phase \in {"idle", "received", "corrected", "applied"}
       /\ job[th].batch \in Seq(Ids)
       /\ Busy(th) => job[th].at \in DOMAIN job[th].batch
       /\ \A t \in DOMAIN job[th].read : t \in Tensors /\ job[th].read[t] \in Vector
  /\ disk \in [theta: [Tensors -> Vector], state: State, base: [Tensors -> Vector]]
  /\ restarts \in 0..scenario.restarts
  /\ base \in [{"own", "second"} -> [Tensors -> Vector]]

\* The pushes whose gradient is part of vector x.
In(x) == {p \in Ids : x[p] # 0}

OptState(name, t) == IF name = "own" THEN own.state[t] ELSE second.state[t]

\* The pushes an optimizer's momentum takes in by this step.
TakenIn(name, t) == In(OptState(name, t).m') \ In(OptState(name, t).m)

\* This step is a milestone for tensor t of a Delayed-Nesterov optimizer.
Milestone(name, t) ==
  /\ restarts' = restarts
  /\ name = "second" \/ scenario.method = "diloco"
  /\ TakenIn(name, t) # {}

\* Between two milestones the pushes of a Delayed-Nesterov optimizer change
\* the model by what standard Nesterov gives for their mean gradient:
\* -(avg + beta m_new), however they were interleaved, fragmented or restored.
MeanStep ==
  \A name \in {"own", "second"}, t \in Tensors : Milestone(name, t) =>
    \A p \in {q \in DOMAIN pushes : OptimizerOf(q) = name} :
      theta'[t][p] = base[name][t][p] - OptState(name, t).m'[p] \div 2
                       - (IF p \in TakenIn(name, t) THEN One \div scenario.period ELSE 0)

NesterovOfTheMean == [][MeanStep]_stepVars

\* A milestone averages the period's number of pushes.  The push count is not
\* in the checkpoint though the buffer is: each restart can add up to a period
\* less one.  With fragments the count runs over all of them: no bound then.
WholeStep ==
  \A name \in {"own", "second"}, t \in Tensors :
    Milestone(name, t) /\ scenario.fragments = 1 =>
      Cardinality(TakenIn(name, t)) \in
        scenario.period .. (scenario.period + restarts * (scenario.period - 1))

MilestoneWhole == [][WholeStep]_stepVars

Disjoint(x, y) == In(x) \cap In(y) = {}

\* The outer optimizer's momentum and buffer hold each gradient of the model
\* once, and no other, through restarts too: what is restored belongs together.
GradientOnce ==
  scenario.method = "diloco" =>
    \A t \in Tensors :
      /\ Disjoint(own.state[t].buffer, own.state[t].m)
      /\ In(own.state[t].buffer) \cup In(own.state[t].m) = In(theta[t])
      /\ \A p \in In(own.state[t].buffer) : own.state[t].buffer[p] = One

\* Without a grace period HeLoCo commits a correction to the very momentum it
\* was computed against, though it holds no lock in between.
CorrectionCurrent ==
  ~scenario.grace =>
    \A th \in Handlers : job[th].phase = "corrected" => job[th].read = Momentum(Present(th))

\* Each push of a batch is corrected against a momentum that has all the
\* batch's earlier pushes in it (_apply_one's "Algorithm 2 ordering").
BatchInOrder ==
  \A th \in Handlers : job[th].phase = "corrected" =>
    \A i \in 1..(job[th].at - 1) : \A t \in Covered(Present(th)) :
      job[th].batch[i] \in In(job[th].read[t])

\* HeLoCo's momentum never has a DiLoCo island's gradient in it, and the
\* second optimizer's never another's: "never mix momentum buffers".
MomentaApart ==
  \A t \in Tensors, p \in DOMAIN pushes :
    /\ p \in In(own.state[t].m) => ~IsDiloco(pushes[p].island)
    /\ p \in In(second.state[t].m) \cup In(second.state[t].buffer) => IsDiloco(pushes[p].island)

\* What a handler has received and not committed.
Waiting(th) ==
  IF job[th].phase \in {"received", "corrected"}
  THEN {job[th].batch[i] : i \in job[th].at .. Len(job[th].batch)} ELSE {}

\* The pushes that were committed, or lost in a restart.
Committed == DOMAIN pushes \ UNION {Waiting(th) : th \in Handlers}

\* The first gradient that tensor t got, if it got any, is zero.
StartsAtZero(t) ==
  \E p \in DOMAIN pushes :
    /\ t \in Covered(p) /\ t \in pushes[p].zero
    /\ \A earlier \in 1..(p - 1) : t \notin Covered(earlier)

\* Bayes: every gradient that is not zero moves the model, unless the tensor's
\* first one was zero; P is then zero for good, and the tensor never moves.
KeepsListening ==
  scenario.method = "bayes" /\ ~scenario.grace /\ restarts = 0 =>
    \A t \in Tensors :
      In(theta[t]) = {p \in Committed : t \in Covered(p) /\ t \notin pushes[p].zero /\ ~StartsAtZero(t)}

\* A Delayed-Nesterov optimizer takes exactly the steps of standard Nesterov on
\* the means of its periods, and buffers in between.
NesterovSound == NesterovOfTheMean /\ MilestoneWhole

\* Every gradient ends up once, in the right optimizer, corrected against the
\* right momentum.
StepsSound ==
  StepsTypeOK /\ GradientOnce /\ CorrectionCurrent /\ BatchInOrder /\ MomentaApart /\ KeepsListening

-----------------------------------------------------------------------------
(* Why a correction stays current, and the momenta apart, for any numbers. *)

Push == [island: IslandIds \cup {Unknown}, fragment: 1..scenario.fragments, zero: SUBSET Tensors]

\* A handler works on pushes that were received; without a grace period on its own.
JobsInv ==
  /\ scenario \in Scenarios /\ pushes \in Seq(Push)
  /\ job = [th \in Handlers |-> [phase |-> job[th].phase, batch |-> job[th].batch,
                                 at |-> job[th].at, read |-> job[th].read]]
  /\ \A th \in Handlers : Busy(th) =>
       job[th].batch \in Seq(DOMAIN pushes) /\ job[th].at \in 1..Len(job[th].batch)
  /\ ~scenario.grace => \A th, other \in Handlers : Busy(th) /\ Busy(other) => th = other

\* What an optimizer's tensor holds something of, in its momentum or buffer.
Holds(s, p) == s.m[p] # 0 \/ s.buffer[p] # 0

Shaped(o) == o = [state |-> o.state, count |-> o.count]

\* HeLoCo's momentum, on disk too.
MainApart ==
  /\ Shaped(own)
  /\ \A t \in Tensors : \A p \in Ids : own.state[t].m[p] # 0 \/ disk.state[t].m[p] # 0 =>
       p \in DOMAIN pushes /\ ~IsDiloco(pushes[p].island)

\* The momentum and the buffer of the second optimizer.
SecondApart ==
  /\ Shaped(second)
  /\ \A t \in Tensors : \A p \in Ids : Holds(second.state[t], p) =>
       p \in DOMAIN pushes /\ IsDiloco(pushes[p].island)

ApartInv == (scenario.method = "heloco" => MainApart) /\ SecondApart

StepsInv == JobsInv /\ CorrectionCurrent /\ ApartInv

-----------------------------------------------------------------------------
(* Why the other properties hold, for any numbers. *)

\* How many commits there can still be at most, and what a coefficient is that
\* vanishes in none of them.
Left == scenario.pushes - Cardinality(Committed)
Lasting == 2^Left

Vector == [Ids -> Int]
States == [Tensors -> [seen: BOOLEAN, m: Vector, buffer: Vector, sure: BOOLEAN]]

TypedInv ==
  /\ theta \in [Tensors -> Vector]
  /\ own \in [state: States, count: Nat] /\ second \in [state: States, count: Nat]
  /\ disk \in [theta: [Tensors -> Vector], state: States, base: [Tensors -> Vector]]
  /\ restarts \in 0..scenario.restarts
  /\ base \in [{"own", "second"} -> [Tensors -> Vector]]
  /\ \A th \in Handlers :
       /\ job[th].phase \in {"idle", "received", "corrected", "applied"}
       /\ job[th].batch \in Seq(Ids)
       /\ \A t \in DOMAIN job[th].read : t \in Tensors /\ job[th].read[t] \in Vector

\* What can have arrived.
ArrivedInv ==
  /\ Len(pushes) <= scenario.pushes
  /\ \A p \in DOMAIN pushes :
       /\ scenario.method # "bayes" => pushes[p].zero = {}
       /\ scenario.grace => pushes[p].island = Unknown

\* Each push is with one handler, which goes through its batch in order; without
\* a grace period it is the last one received.
OrderInv ==
  \A th \in Handlers : Busy(th) =>
    /\ \A i, j \in 1..Len(job[th].batch) : i # j => job[th].batch[i] # job[th].batch[j]
    /\ \A other \in Handlers : other # th /\ Busy(other) =>
         \A i \in 1..Len(job[th].batch), j \in 1..Len(job[other].batch) :
           job[th].batch[i] # job[other].batch[j]
    /\ ~scenario.grace => Len(job[th].batch) = 1 /\ job[th].batch[1] = Len(pushes)
    /\ job[th].phase = "corrected" => ReadsFirst(Present(th))

\* Each commit counts once.
CountsInv == own.count + second.count <= Cardinality(Committed)

\* In a model, an optimizer's state and the model at its last milestone there is
\* nothing of push q.
Without(x, state, b, q) ==
  \A t \in Tensors : x[t][q] = 0 /\ ~Holds(state[t], q) /\ b[t][q] = 0

\* Nothing is held of a push that was not committed.
SpentInv ==
  \A q \in Ids \ Committed :
    /\ Without(theta, own.state, base["own"], q) /\ Without(theta, second.state, base["second"], q)
    /\ Without(disk.theta, disk.state, disk.base, q)

\* The books of a Delayed-Nesterov optimizer on push q and one tensor: what is
\* buffered is a whole gradient, of which the model has got its part since the last
\* milestone; what is in the momentum is there for good.
Books(x, s, b, q) ==
  /\ s.buffer[q] \in {0, One} /\ s.m[q] \in Nat
  /\ s.buffer[q] = 0 \/ s.m[q] = 0
  /\ s.m[q] = 0 \/ s.m[q] >= Lasting
  /\ x[q] = b[q] - s.buffer[q] \div scenario.period

\* All of a gradient in the model is still known to the optimizer.
Remembered(x, s, q) == x[q] <= 0 /\ (x[q] = 0 <=> ~Holds(s, q))

NesterovInv ==
  /\ scenario.method = "diloco" => \A t \in Tensors : \A q \in Ids :
       /\ Books(theta[t], own.state[t], base["own"][t], q) /\ Remembered(theta[t], own.state[t], q)
       /\ Books(disk.theta[t], disk.state[t], disk.base[t], q) /\ Remembered(disk.theta[t], disk.state[t], q)
  /\ \A t \in Tensors : \A q \in Ids : q \in DOMAIN pushes /\ IsDiloco(pushes[q].island) =>
       Books(theta[t], second.state[t], base["second"][t], q)

\* How many gradients are buffered: those counted since the last milestone, and
\* less than a period more for each restart.
Extra == restarts * (scenario.period - 1)

BufferedIn(o, t) == Cardinality(In(o.state[t].buffer))

MilestoneInv ==
  scenario.fragments = 1 => \A t \in Tensors :
    /\ scenario.method = "diloco" =>
         /\ BufferedIn(own, t) \in (own.count % scenario.period) .. ((own.count % scenario.period) + Extra)
         /\ Cardinality(In(disk.state[t].buffer)) \in 0..(Extra + scenario.period - 1)
    /\ scenario.method = "heloco" =>
         BufferedIn(second, t) \in (second.count % scenario.period) .. ((second.count % scenario.period) + Extra)

\* With a grace period HeLoCo's momentum keeps what it has taken in, of a batch's
\* earlier pushes too.
RetainInv ==
  scenario.method = "heloco" /\ scenario.grace => \A t \in Tensors :
    /\ \A q \in Ids : /\ own.state[t].m[q] = 0 \/ own.state[t].m[q] >= Lasting
                      /\ disk.state[t].m[q] = 0 \/ disk.state[t].m[q] >= Lasting
    /\ \A th \in Handlers : Busy(th) =>
         \A i \in 1..(job[th].at - 1) : own.state[t].m[job[th].batch[i]] # 0

\* Bayes, before any restart: what a tensor's state says of the gradients it got.
ListensInv ==
  scenario.method = "bayes" /\ ~scenario.grace /\ restarts = 0 => \A t \in Tensors :
    /\ own.state[t].seen <=> \E p \in Committed : t \in Covered(p)
    /\ own.state[t].sure <=> own.state[t].seen /\ ~StartsAtZero(t)
    /\ \A q \in Ids :
         /\ own.state[t].m[q] \in Nat /\ theta[t][q] <= 0
         /\ own.state[t].m[q] # 0 => theta[t][q] # 0
         /\ theta[t][q] # 0 <=>
              own.state[t].sure /\ q \in Committed /\ t \in Covered(q) /\ t \notin pushes[q].zero

ValuesInv ==
  /\ TypedInv /\ ArrivedInv /\ OrderInv /\ CountsInv /\ SpentInv
  /\ NesterovInv /\ MilestoneInv /\ RetainInv /\ ListensInv

\* The server's steps without fairness.
StepsSafety == StepsInit /\ [][StepsNext]_stepVars
=============================================================================
