------------------------------ MODULE Simulator ------------------------------
(***************************************************************************)
(* The prototype, archive/heloco_stable_v2.py: one process that simulates  *)
(* workers of different paces.  Time is a number; a worker's task has an   *)
(* end on that clock, and its thread is waited for when the end comes.     *)
(* AsyncExperiment applies one push at a time; after the first of a series *)
(* others may follow for max_wait_time, then the idle workers get new      *)
(* tasks.  SyncExperiment applies the mean of all, the round that          *)
(* sync_workers in the server is modelled on.  Losses, diagnostics and     *)
(* model values are left out: a push is known by its worker and its slice  *)
(* of the data.                                                            *)
(*                                                                         *)
(* Definitions named Faulty... are plausible mistakes in the code: put in  *)
(* place of the definition that follows them, each breaks a property.      *)
(***************************************************************************)
EXTENDS Integers, FiniteSets, Sequences, SequencesExt

CONSTANT
  Experiments  \* the settings looked at, each with its bounds

Fields == {"sync", "paces", "fixed", "inner", "phases", "every", "wait", "delayed"}

ASSUME SimulatorAssumption ==
  \A e \in Experiments :
    /\ DOMAIN e = Fields /\ {e.sync, e.fixed, e.delayed} \subseteq BOOLEAN
    /\ e.paces \in Seq(Nat \ {0}) /\ Len(e.paces) > 0
    /\ {e.inner, e.phases, e.every} \subseteq Nat \ {0} /\ e.wait \in Nat

VARIABLES
  setting,  \* Experiment's arguments; fixed: data_partition is non_iid_lang
  place,    \* where run is: "start", "loop" or "ended" ("none": no run)
  tasks,    \* what each worker trains, if it does (its future)
  finish,   \* training_finished_time
  visits, updates,  \* of each DataShard: visit_times, local_updates
  clock,    \* time_now
  began,    \* sync_start_time
  total,    \* num_total_local_updates
  target,   \* eval_target
  stats,    \* the steps at which the model was evaluated
  pushed,   \* update_logs: what was synchronized
  grads,    \* whose parts are in p.grad
  applied   \* history: the parts of each of the outer optimizer's steps

simVars == <<setting, place, tasks, finish, visits, updates, clock, began, total, target,
             stats, pushed, grads, applied>>

None == -1

Islands == DOMAIN setting.paces
Shards == Islands          \* NUM_DATA_SHARDS = NUM_WORKERS
NumWorkers == Len(setting.paces)
ModelId == IF setting.sync THEN Len(applied) ELSE Len(pushed)

MaxUpdates == setting.inner * NumWorkers * setting.phases
EvalInterval == setting.inner * NumWorkers * setting.every

FaultyFinished == total > MaxUpdates

Finished == total >= MaxUpdates

Idle == {w \in Islands : tasks[w] = <<>>}

SimInitAs(e, p) ==
  /\ setting = e /\ place = p
  /\ tasks = [w \in DOMAIN e.paces |-> <<>>]
  /\ finish = [w \in DOMAIN e.paces |-> 0]
  /\ visits = [s \in DOMAIN e.paces |-> 0] /\ updates = [s \in DOMAIN e.paces |-> 0]
  /\ clock = 0 /\ began = None /\ total = 0 /\ target = 0
  /\ stats = <<>> /\ pushed = <<>> /\ grads = {} /\ applied = <<>>

SimInit == \E e \in Experiments : SimInitAs(e, "start")

-----------------------------------------------------------------------------

FaultyDue(steps) == steps >= target

\* evaluate: at the multiples of the interval, and when all is done.
Due(steps) == steps >= Min({target, MaxUpdates})

Evaluate(steps) ==
  IF Due(steps)
  THEN target' = target + EvalInterval /\ stats' = Append(stats, steps)
  ELSE UNCHANGED <<target, stats>>

\* Who is served before w in a loop over the workers, and gets the same shard.
Before(p, w, s) == Cardinality({v \in DOMAIN p : v < w /\ p[v] = s})

LeastVisited(p, w) ==
  \A s \in Shards : visits[p[w]] + Before(p, w, p[w]) <= visits[s] + Before(p, w, s)

\* _pick_shard, for each of some workers in turn.
Picks(ws) ==
  IF setting.fixed THEN {[w \in ws |-> w]}
  ELSE {p \in [ws -> Shards] : \A w \in ws : LeastVisited(p, w)}

FaultyUpdatesFor(p, w) == updates[p[w]] + setting.inner * Cardinality({v \in DOMAIN p : p[v] = p[w]})

\* The shard's local_updates when w's task is submitted.
UpdatesFor(p, w) == updates[p[w]] + setting.inner * (Before(p, w, p[w]) + 1)

\* assign_task_to_worker, for each of them.
Assign(p) ==
  /\ visits' = [s \in Shards |-> visits[s] + Before(p, NumWorkers + 1, s)]
  /\ updates' = [s \in Shards |-> updates[s] + setting.inner * Before(p, NumWorkers + 1, s)]

\* The task, with the part of the shard that inner_loop reads: its last
\* num_train_steps batches before upto.
Task(p, w) == [island |-> w, shard |-> p[w], upto |-> UpdatesFor(p, w), model |-> ModelId]

Slice(t) == (t.upto - setting.inner + 1)..t.upto

FaultyTrainedBy(w) == setting.inner * setting.paces[w]

TrainedBy(w) == finish[w] + setting.inner * setting.paces[w]

-----------------------------------------------------------------------------
(* AsyncExperiment. *)

Dispatch(p) ==
  /\ Assign(p)
  /\ tasks' = [w \in Islands |-> IF w \in DOMAIN p THEN <<Task(p, w)>> ELSE tasks[w]]
  /\ finish' = [w \in Islands |-> IF w \in DOMAIN p THEN TrainedBy(w) ELSE finish[w]]

Start ==
  /\ place = "start" /\ place' = "loop"
  /\ Evaluate(0)
  /\ IF setting.sync THEN UNCHANGED <<tasks, finish, visits, updates>>
     ELSE \E p \in Picks(Islands) : Dispatch(p)
  /\ UNCHANGED <<setting, clock, began, total, pushed, grads, applied>>

\* min over the pending workers: the first of those that end at the same time.
Fastest(w) ==
  /\ w \notin Idle
  /\ \A v \in Islands \ Idle : finish[w] < finish[v] \/ (finish[w] = finish[v] /\ w <= v)

\* _next_sync_worker: none when the next one ends too late for this series.
NextToSync(w) == Fastest(w) /\ (began # None => finish[w] - began <= setting.wait)

At(w) == Max({clock, finish[w]})

Synchronizable(time) == began = None \/ time - began <= setting.wait

FaultyIdled(now) == [finish EXCEPT ![CHOOSE w \in Islands : NextToSync(w)] = now]

\* The idle workers, the one just served among them, are as late as the clock.
Idled(now) == [w \in Islands |-> IF w \in Idle \/ NextToSync(w) THEN now ELSE finish[w]]

FaultyKept(n) == IF (n + 1) % NumWorkers = 0 THEN {} ELSE grads

\* The parts still in p.grad when the n-th push comes: delayed_sgd adds up as
\* many as there are workers.
Kept(n) == IF ~setting.delayed \/ n % NumWorkers = 0 THEN {} ELSE grads

StepDue(n) == ~setting.delayed \/ (n + 1) % NumWorkers = 0

Push(w, now) ==
  [island |-> w, task |-> tasks[w][1], at |-> now, ended |-> finish[w], tau |-> ModelId - tasks[w][1].model]

Synchronize(w) ==
  LET now   == At(w)
      parts == Kept(ModelId) \cup {ModelId + 1}
  IN
  /\ place = "loop" /\ ~setting.sync /\ ~Finished
  /\ NextToSync(w) /\ Synchronizable(now)
  /\ clock' = now /\ began' = IF began = None THEN now ELSE began
  /\ total' = total + setting.inner
  /\ pushed' = Append(pushed, Push(w, now))
  /\ grads' = parts
  /\ applied' = IF StepDue(ModelId) THEN Append(applied, parts) ELSE applied
  /\ tasks' = [tasks EXCEPT ![w] = <<>>]
  /\ finish' = Idled(now)
  /\ Evaluate(total + setting.inner)
  /\ UNCHANGED <<setting, place, visits, updates>>

FaultyOver == began

\* The series is over: the next push starts another.
Over == None

DispatchIdle ==
  /\ place = "loop" /\ ~setting.sync /\ ~Finished
  /\ ~\E w \in Islands : NextToSync(w) /\ Synchronizable(At(w))
  /\ began' = Over
  /\ clock' = Max({clock} \cup {finish[w] : w \in {v \in Islands : NextToSync(v)}})
  /\ \E p \in Picks(Idle) : Dispatch(p)
  /\ UNCHANGED <<setting, place, total, target, stats, pushed, grads, applied>>

-----------------------------------------------------------------------------
(* SyncExperiment: train, synchronize and evaluate. *)

Round ==
  /\ place = "loop" /\ setting.sync /\ ~Finished
  /\ \E p \in Picks(Islands) :
       LET now == Max({clock} \cup {TrainedBy(w) : w \in Islands}) IN
       /\ Assign(p)
       /\ clock' = now /\ finish' = [w \in Islands |-> now]
       /\ pushed' = pushed \o [w \in Islands |->
            [island |-> w, task |-> Task(p, w), at |-> now, ended |-> TrainedBy(w), tau |-> 0]]
  /\ total' = total + setting.inner * NumWorkers
  /\ grads' = {Len(pushed) + w : w \in Islands}
  /\ applied' = Append(applied, grads')
  /\ Evaluate(total')
  /\ UNCHANGED <<setting, place, tasks, began>>

\* close: what still trains is waited for, and forgotten.
Close ==
  /\ place = "loop" /\ Finished /\ place' = "ended"
  /\ UNCHANGED <<setting, tasks, finish, visits, updates, clock, began, total, target,
                 stats, pushed, grads, applied>>

SimNext == Start \/ (\E w \in Islands : Synchronize(w)) \/ DispatchIdle \/ Round \/ Close

\* One thread, which waits for nothing but tasks that end.
SimFairness == WF_simVars(SimNext)

-----------------------------------------------------------------------------
(* Properties. *)

Running == UNION {ToSet(tasks[w]) : w \in Islands}
AllTasks == Running \cup {pushed[i].task : i \in DOMAIN pushed}

TasksOf(e) ==
  [island: Nat, shard: DOMAIN e.paces, upto: Nat, model: Nat]

\* Every variable has its type.
SimTypeOK ==
  /\ setting \in Experiments /\ place \in {"none", "start", "loop", "ended"}
  /\ \A w \in Islands : tasks[w] = <<>> \/ (Len(tasks[w]) = 1 /\ tasks[w][1] \in TasksOf(setting))
  /\ DOMAIN tasks = Islands /\ finish \in [Islands -> Nat]
  /\ visits \in [Shards -> Nat] /\ updates \in [Shards -> Nat]
  /\ clock \in Nat /\ began \in Nat \cup {None} /\ total \in 0..MaxUpdates /\ target \in Nat
  /\ stats \in Seq(0..MaxUpdates) /\ grads \subseteq DOMAIN pushed
  /\ \A i \in DOMAIN pushed : pushed[i].island \in Islands /\ pushed[i].task \in TasksOf(setting)
  /\ \A k \in DOMAIN applied : applied[k] \subseteq DOMAIN pushed

\* A push is applied when the simulated worker ends, not later, however long
\* others were left idle: no task that runs has its end in the past.
NothingLate ==
  /\ \A w \in Islands \ Idle : finish[w] >= clock
  /\ \A i \in DOMAIN pushed : setting.sync \/ pushed[i].at = pushed[i].ended

\* How often v's tasks can end while w trains, and any other's.
Ends(w, v) == (setting.paces[w] + setting.paces[v] - 1) \div setting.paces[v]
Most(w) == Cardinality(UNION {{v} \X (1..Ends(w, v)) : v \in Islands \ {w}})

\* While a worker trains, another is pushed at most as often as its pace lets
\* it end: the staleness of a push is bounded by the paces alone.
StaleBounded ==
  /\ \A i \in DOMAIN pushed : pushed[i].tau <= Most(pushed[i].island)
  /\ \A w \in Islands : \A t \in ToSet(tasks[w]) : ModelId - t.model <= Most(w)

\* No two tasks read the same batches of a shard; and with the least visited
\* shard for each task, no shard is read for more than one task beyond its
\* share (max_local_updates_per_shard).
SlicesApart ==
  /\ \A t, u \in AllTasks : t # u /\ t.shard = u.shard => Slice(t) \cap Slice(u) = {}
  /\ \A s \in Shards : setting.inner * Cardinality({t \in AllTasks : t.shard = s}) = updates[s]
  /\ ~setting.fixed => \A s \in Shards : updates[s] <= setting.inner * (setting.phases + 1)

\* The model is evaluated at the start, at the end, and within each interval.
EvaluatedThroughout ==
  place = "ended" =>
    /\ stats[1] = 0 /\ stats[Len(stats)] = total
    /\ \A k \in 1..(Len(stats) - 1) :
         stats[k] < stats[k + 1] /\ stats[k + 1] - stats[k] <= EvalInterval

\* At the end every push is in exactly one outer step: delayed_sgd neither
\* drops parts nor leaves some behind, and a step of it has one part for each
\* worker, as each round of SyncExperiment has.
EachPartOnce ==
  /\ place = "ended" =>
       \A i \in DOMAIN pushed : Cardinality({k \in DOMAIN applied : i \in applied[k]}) = 1
  /\ setting.sync \/ setting.delayed => \A k \in DOMAIN applied : Cardinality(applied[k]) = NumWorkers

\* A run ends.
SimEnds == (place = "start") ~> (place = "ended")

\* The simulated clock and the books of the prototype agree: pushes are applied
\* when they are due, no staler than paces make them, each once, from data of
\* their own, with an evaluation in every interval.
SimSound ==
  /\ SimTypeOK
  /\ NothingLate /\ StaleBounded /\ SlicesApart /\ EvaluatedThroughout /\ EachPartOnce
-----------------------------------------------------------------------------
(* Why they agree, for any paces: an inductive strengthening of SimSound. *)

\* How many updates the run takes at a time, and how many times it did.
Pulse == IF setting.sync THEN setting.inner * NumWorkers ELSE setting.inner
Pulses == IF setting.sync THEN Len(applied) ELSE Len(pushed)

\* How many pushes an outer step has.
Parts == IF setting.sync \/ setting.delayed THEN NumWorkers ELSE 1

SimPushes == [island: Islands, task: TasksOf(setting), at: Nat, ended: Nat, tau: Int]

\* Every variable has its type; the counts of updates, pushes and rounds agree.
CountInv ==
  /\ setting \in Experiments /\ place \in {"none", "start", "loop", "ended"}
  /\ tasks \in [Islands -> Seq(TasksOf(setting))]
  /\ \A w \in Islands \ Idle : Len(tasks[w]) = 1
  /\ finish \in [Islands -> Nat] /\ visits \in [Shards -> Nat] /\ updates \in [Shards -> Nat]
  /\ clock \in Nat /\ began \in Nat \cup {None} /\ total \in Nat /\ target \in Nat
  /\ stats \in Seq(0..MaxUpdates)
  /\ pushed \in Seq(SimPushes)
  /\ applied \in Seq(SUBSET Nat) /\ grads \subseteq DOMAIN pushed
  /\ setting.sync => Len(pushed) = NumWorkers * Len(applied) /\ Idle = Islands
  /\ total = Pulse * Pulses /\ total <= MaxUpdates
  /\ place \in {"none", "start"} => Pulses = 0 /\ Idle = Islands

\* No task is late; an idle worker is as late as the clock; what may join the
\* present series has done so.
LateInv ==
  /\ \A i \in DOMAIN pushed : setting.sync \/ pushed[i].at = pushed[i].ended
  /\ ~setting.sync =>
       /\ began # None => began <= clock /\ clock - began <= setting.wait
       /\ \A w \in Islands : IF w \in Idle THEN finish[w] = clock ELSE finish[w] >= clock

\* The pushes of v since model m; when w's task was dispatched.
Since(m, v) == Cardinality({i \in DOMAIN pushed : i > m /\ pushed[i].island = v})
Dispatched(w) == finish[w] - setting.inner * setting.paces[w]

\* While w trains, v's pushes are its pace apart.
Apart(w, v) ==
  LET n    == Since(tasks[w][1].model, v)
      each == setting.inner * setting.paces[v]
  IN
  /\ n <= Ends(w, v)
  /\ IF v \in Idle THEN n = 0 \/ clock > Dispatched(w) + (n - 1) * each
                   ELSE finish[v] > Dispatched(w) + n * each

PaceInv ==
  /\ \A i \in DOMAIN pushed : pushed[i].tau <= Most(pushed[i].island)
  /\ ~setting.sync => \A w \in Islands \ Idle :
       /\ tasks[w][1].model \in 0..Len(pushed) /\ Dispatched(w) <= clock
       /\ Since(tasks[w][1].model, w) = 0
       /\ \A v \in Islands \ {w} : Apart(w, v)

\* A shard's tasks end at the multiples of inner up to its updates, one at each;
\* with the least visited shard for each task all shards are visited about as often.
SharesInv ==
  /\ \A t, u \in AllTasks : t.shard = u.shard /\ t.upto = u.upto => t = u
  /\ \A t \in AllTasks : t.shard \in Shards /\ \E n \in 1..visits[t.shard] : t.upto = setting.inner * n
  /\ \A s \in Shards : \A n \in 1..visits[s] : \E t \in AllTasks : t.shard = s /\ t.upto = setting.inner * n
  /\ \A s \in Shards : updates[s] = setting.inner * visits[s]
  /\ ~setting.fixed => \A s, other \in Shards : visits[s] <= visits[other] + 1 /\ visits[s] <= setting.phases + 1

\* All evaluations but a last one are at the multiples of the interval.
EvalInv ==
  IF place \in {"none", "start"} THEN stats = <<>> /\ target = 0
  ELSE /\ Len(stats) > 0
       /\ \A k \in 1..Len(stats) : stats[k] = IF k = Len(stats) /\ Finished THEN total ELSE (k - 1) * EvalInterval
       /\ IF Finished THEN /\ Len(stats) > 1 /\ (Len(stats) - 2) * EvalInterval < total
                           /\ total <= (Len(stats) - 1) * EvalInterval
          ELSE /\ target = Len(stats) * EvalInterval
               /\ (Len(stats) - 1) * EvalInterval <= total /\ total < target
       /\ place = "ended" => Finished

\* The outer steps take the pushes one after the other, Parts at a time; what is
\* in p.grad came after the last step.
PartsInv ==
  /\ \A k \in DOMAIN applied : applied[k] = ((k - 1) * Parts + 1)..(k * Parts)
  /\ ~setting.sync => Len(pushed) = Parts * Len(applied) + (Len(pushed) % Parts)
  /\ setting.delayed /\ ~setting.sync /\ Len(pushed) % Parts # 0 => grads = (Parts * Len(applied) + 1)..Len(pushed)

SimInv == CountInv /\ LateInv /\ PaceInv /\ SharesInv /\ EvalInv /\ PartsInv

\* The prototype's steps without fairness.
SimSafety == SimInit /\ [][SimNext]_simVars
=============================================================================
