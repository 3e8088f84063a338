------------------------------ MODULE RolloutPool ------------------------------
(***************************************************************************)
(* Reinforcement learning with generation taken out of the trainers:       *)
(* rollout workers load checkpoints, generate groups and push them to one  *)
(* bounded queue; pure learners pop them, drop what is too stale, train in *)
(* windows of sync_every steps and meet their coordinator at each          *)
(* boundary.  Two strategies share this code:                              *)
(*   "hub"  several learners push pseudo-gradients to the parameter        *)
(*          server, which publishes checkpoints as revision + 1;           *)
(*   "own"  one learner publishes its own weights in the background.       *)
(*                                                                         *)
(* The relays between publisher and workers are reduced to the newest      *)
(* version one can fetch (RelayHub is the detailed channel).  A group is a *)
(* worker, a serial number and the version it was spawned under.           *)
(*                                                                         *)
(* Definitions named Faulty... are plausible mistakes in the code: put in  *)
(* place of the definition that follows them, each breaks a property.      *)
(***************************************************************************)
EXTENDS Integers, FiniteSets, Sequences, Functions, FiniteSetsExt, SequencesExt

CONSTANTS
  Workers, Learners,
  Scenarios,        \* the runs looked at: strategy, learners, sync_every,
                    \* num_outer_steps of a learner, groups_per_round and num_rounds of a worker
  QueueSize,        \* maxsize of the rollout queue
  BufferSize,       \* buffer_groups of a learner
  BatchGroups,      \* num_prompts_per_train_step
  MaxStaleness,
  MaxSyncFailures,  \* _MAX_SYNC_FAILURES
  MaxFaults         \* bound: faults of all kinds together

FaultKinds == {"push", "pop", "unpushed", "reply", "server", "publish", "untrainable", "nan"}

ASSUME PoolAssumption ==
  /\ Learners # {}
  /\ \A c \in Scenarios :
       /\ c.strategy \in {"hub", "own"} /\ c.members \subseteq Learners
       /\ c.strategy = "own" => \E l \in Learners : c.members = {l}
       /\ {c.every, c.windows, c.flight, c.rounds} \subseteq Nat \ {0}
  /\ {QueueSize, BufferSize, BatchGroups,
      MaxStaleness, MaxSyncFailures} \subseteq Nat \ {0}
  /\ MaxFaults \in Nat

VARIABLES
  scenario,           \* which of Scenarios this run is
  worker,             \* per worker: version loaded, groups in flight, groups sent, next serial
  queue,              \* the rollout queue
  latePush, latePop,  \* requests whose client has given up and the queue has not served
  consumer,           \* per learner: the batch in the hand of its consumer task
  buffer,             \* per learner: the asyncio.Queue between consumer and collector
  learner,            \* per learner: the window loop
  revision, log,      \* the parameter server: _revision, and per learner the windows folded in
  published,          \* newest version the workers can fetch; 0 is none
  publishing, ckpt,   \* "own": the background publish, and _checkpoint_version
  trained,            \* history: the groups that went into a train step
  faults

poolW == <<worker, queue, latePush>>
feed == <<latePop, consumer, buffer>>
server == <<revision, log>>
channel == <<published, publishing, ckpt>>
vars == <<scenario, poolW, feed, learner, server, channel, trained, faults>>

strategy == scenario.strategy
members == scenario.members
SyncEvery == scenario.every
GroupsPerRound == scenario.flight
NumRounds == scenario.rounds
MaxWindows == scenario.windows

NewWindow(s) ==
  [s EXCEPT !.pc = "window", !.h = 0, !.collecting = TRUE, !.got = <<>>, !.train = <<>>]

FirstWindow ==
  [pc |-> "window", h |-> 0, collecting |-> TRUE, got |-> <<>>, train |-> <<>>,
   win |-> 0, base |-> 0, baseRev |-> 0, known |-> 1, failed |-> 0]

Init ==
  /\ scenario \in Scenarios
  /\ worker = [w \in Workers |-> [version |-> 0, flight |-> {}, sent |-> 0, serial |-> 0]]
  /\ queue = <<>> /\ latePush = {} /\ latePop = 0
  /\ consumer = [l \in Learners |-> <<>>] /\ buffer = [l \in Learners |-> <<>>]
  /\ learner = [l \in Learners |-> FirstWindow]
  /\ revision = 0 /\ log = [l \in Learners |-> <<>>]
  /\ published = (IF strategy = "own" THEN 1 ELSE 0) /\ publishing = "none" /\ ckpt = 1
  /\ trained = {}
  /\ faults = [k \in FaultKinds |-> 0]

Fault(k) ==
  /\ SumFunction(faults) < MaxFaults
  /\ faults' = [faults EXCEPT ![k] = @ + 1]

-----------------------------------------------------------------------------
(***************************************************************************)
(* A rollout worker.  Its loop keeps generating whatever the queue says;   *)
(* an accepted, a refused and a lost batch look the same to it.            *)
(***************************************************************************)
Stopped(w) == worker[w].sent >= NumRounds * GroupsPerRound

\* fetch_latest has a newer checkpoint: load it, with groups still in flight.
Load(w) ==
  /\ ~Stopped(w) /\ published > worker[w].version
  /\ worker' = [worker EXCEPT ![w].version = published]
  /\ UNCHANGED <<scenario, trained, queue, latePush, feed, learner, server, channel, faults>>

Spawn(w) ==
  /\ ~Stopped(w) /\ worker[w].version > 0
  /\ Cardinality(worker[w].flight) < GroupsPerRound
  /\ worker' = [worker EXCEPT ![w].serial = @ + 1,
                              ![w].flight = @ \cup {[from |-> w, nr |-> worker[w].serial + 1, version |-> worker[w].version]}]
  /\ UNCHANGED <<scenario, trained, queue, latePush, feed, learner, server, channel, faults>>

\* The version a finished group is tagged with when it is sent.
FaultyTag(w, g) == [g EXCEPT !.version = worker[w].version]
Tag(w, g) == g

Sent(w, g) == worker' = [worker EXCEPT ![w].flight = @ \ {g}, ![w].sent = @ + 1]
FaultyFull == Len(queue) > QueueSize
Full == Len(queue) >= QueueSize
Enqueue(g) == queue' = IF Full THEN queue ELSE Append(queue, g)

Push(w) == \E g \in worker[w].flight :
  /\ ~Stopped(w)
  /\ Sent(w, g) /\ Enqueue(Tag(w, g))
  /\ UNCHANGED <<scenario, trained, latePush, feed, learner, server, channel, faults>>

\* The request is lost, or the client's timeout ends it before it is served.
PushTimesOut(w) == \E g \in worker[w].flight :
  /\ ~Stopped(w) /\ Fault("push")
  /\ Sent(w, g)
  /\ latePush' \in {latePush, latePush \cup {Tag(w, g)}}
  /\ UNCHANGED <<scenario, trained, queue, feed, learner, server, channel>>

ServeLatePush == \E g \in latePush :
  /\ Enqueue(g) /\ latePush' = latePush \ {g}
  /\ UNCHANGED <<scenario, trained, worker, feed, learner, server, channel, faults>>

-----------------------------------------------------------------------------
(***************************************************************************)
(* A learner's consumer task: pop, then put each group into the buffer.    *)
(***************************************************************************)
Alive(l) == l \in members /\ learner[l].pc \in {"window", "sync"}

FaultyRest(q) == q
Rest(q) == Tail(q)

\* One call of pop: _handle_pop and its answer.  An empty queue answers 204,
\* and the consumer asks again after queue_poll_interval_s.
Pop(l) ==
  /\ Alive(l) /\ consumer[l] = <<>> /\ queue # <<>>
  /\ consumer' = [consumer EXCEPT ![l] = <<Head(queue)>>]
  /\ queue' = Rest(queue)
  /\ UNCHANGED <<scenario, trained, worker, latePush, latePop, buffer, learner, server, channel, faults>>

\* The pop is not answered in time: the queue has served it, or serves it later.
PopTimesOut(l) ==
  /\ Alive(l) /\ consumer[l] = <<>> /\ Fault("pop")
  /\ \/ latePop' = latePop + 1 /\ UNCHANGED queue
     \/ queue # <<>> /\ queue' = Rest(queue) /\ UNCHANGED latePop
  /\ UNCHANGED <<scenario, trained, worker, latePush, consumer, buffer, learner, server, channel>>

ServeLatePop ==
  /\ latePop > 0
  /\ latePop' = latePop - 1
  /\ queue' = IF queue = <<>> THEN queue ELSE Rest(queue)
  /\ UNCHANGED <<scenario, trained, worker, latePush, consumer, buffer, learner, server, channel, faults>>

Put(l) ==
  /\ Alive(l) /\ consumer[l] # <<>> /\ Len(buffer[l]) < BufferSize
  /\ buffer' = [buffer EXCEPT ![l] = @ \o consumer[l]]
  /\ consumer' = [consumer EXCEPT ![l] = <<>>]
  /\ UNCHANGED <<scenario, trained, poolW, latePop, learner, server, channel, faults>>

-----------------------------------------------------------------------------
(***************************************************************************)
(* The window loop: the batch of step h + 1 is collected while step h is   *)
(* trained, but never across a window boundary.                            *)
(***************************************************************************)
Reference(l) == IF strategy = "hub" THEN learner[l].known ELSE ckpt

FaultyTooStale(l, g) == Reference(l) - g.version > MaxStaleness + 1
TooStale(l, g) == Reference(l) - g.version > MaxStaleness

Collecting(l) == Alive(l) /\ learner[l].collecting /\ Len(learner[l].got) < BatchGroups

Collect(l) ==
  /\ Collecting(l) /\ buffer[l] # <<>>
  /\ buffer' = [buffer EXCEPT ![l] = Tail(@)]
  /\ LET g == Head(buffer[l])
     IN \/ TooStale(l, g) /\ UNCHANGED <<learner, faults>>
        \/ ~TooStale(l, g) /\ Fault("untrainable") /\ UNCHANGED learner
        \/ /\ ~TooStale(l, g)
           /\ learner' = [learner EXCEPT ![l].got = Append(@, g)]
           /\ UNCHANGED faults
  /\ UNCHANGED <<scenario, trained, poolW, latePop, consumer, server, channel>>

CollectsAhead(h) == h < SyncEvery

StartStep(l) ==
  LET s == learner[l]
  IN /\ Alive(l) /\ s.pc = "window" /\ s.train = <<>>
     /\ s.h < SyncEvery /\ Len(s.got) = BatchGroups
     /\ learner' = [learner EXCEPT ![l].h = @ + 1, ![l].train = s.got, ![l].got = <<>>,
                                   ![l].collecting = CollectsAhead(s.h + 1)]
     /\ trained' = trained \cup ToSet(s.got)
     /\ UNCHANGED <<scenario, poolW, feed, server, channel, faults>>

\* The end of a learner cancels its consumer and drops what it holds.
End(l, how) ==
  /\ learner' = [learner EXCEPT ![l].pc = how, ![l].got = <<>>, ![l].train = <<>>, ![l].collecting = FALSE]
  /\ consumer' = [consumer EXCEPT ![l] = <<>>]
  /\ buffer' = [buffer EXCEPT ![l] = <<>>]

FinishStep(l) ==
  LET s == learner[l]
  IN /\ Alive(l) /\ s.train # <<>>
     /\ \/ /\ learner' = [learner EXCEPT ![l].train = <<>>,
                                         ![l].pc = IF s.h = SyncEvery THEN "sync" ELSE @,
                                         ![l].win = IF s.h = SyncEvery THEN @ + 1 ELSE @]
           /\ UNCHANGED <<consumer, buffer, faults>>
        \/ Fault("nan") /\ End(l, "diverged")
     /\ UNCHANGED <<scenario, trained, poolW, latePop, server, channel>>

FaultyCanArrive(l) == TRUE
\* Something may still come to the learner's buffer.
CanArrive(l) ==
  \/ queue # <<>> \/ latePush # {} \/ consumer[l] # <<>>
  \/ \E w \in Workers : ~Stopped(w)

\* rollout_stall_timeout_s is longer than any wait for a pool that lives.
Stall(l) ==
  /\ Collecting(l) /\ buffer[l] = <<>> /\ ~CanArrive(l)
  /\ End(l, "stalled")
  /\ UNCHANGED <<scenario, trained, poolW, latePop, server, channel, faults>>

-----------------------------------------------------------------------------
(***************************************************************************)
(* The boundary.  A window that ends goes on to the next one, whether or   *)
(* not its exchange succeeded; three failures in a row end the run.        *)
(***************************************************************************)
AfterSync(l, s) ==
  IF s.failed >= MaxSyncFailures THEN [s EXCEPT !.pc = "raised"]
  ELSE IF s.win = MaxWindows THEN [s EXCEPT !.pc = "done"]
  ELSE NewWindow(s)

Settle(l, s) ==
  LET next == AfterSync(l, s)
  IN /\ learner' = [learner EXCEPT ![l] = next]
     /\ IF next.pc \in {"raised", "done"}
        THEN /\ consumer' = [consumer EXCEPT ![l] = <<>>]
             /\ buffer' = [buffer EXCEPT ![l] = <<>>]
        ELSE UNCHANGED <<consumer, buffer>>

FaultyAdopted(s, rev) == [s EXCEPT !.baseRev = rev, !.known = rev + 1, !.failed = 0]
\* _adopt_flat and the freshness reference after a push that was answered.
Adopted(s, rev) == [s EXCEPT !.base = s.win, !.baseRev = rev, !.known = rev + 1, !.failed = 0]

Failed(s) == [s EXCEPT !.failed = @ + 1]
Applied(l) ==
  /\ revision' = revision + 1
  /\ log' = [log EXCEPT ![l] = Append(@, <<learner[l].base + 1, learner[l].win>>)]
Rejects(l) == learner[l].baseRev > revision

SyncHub(l) ==
  /\ Alive(l) /\ learner[l].pc = "sync" /\ strategy = "hub"
  /\ \/ ~Rejects(l) /\ Applied(l) /\ Settle(l, Adopted(learner[l], revision + 1)) /\ UNCHANGED faults
     \/ Rejects(l) /\ Settle(l, Adopted(learner[l], revision)) /\ UNCHANGED <<server, faults>>
     \/ Fault("unpushed") /\ Settle(l, Failed(learner[l])) /\ UNCHANGED server
     \/ ~Rejects(l) /\ Fault("reply") /\ Applied(l) /\ Settle(l, Failed(learner[l]))
  /\ UNCHANGED <<scenario, trained, poolW, latePop, channel>>

FaultyMayPublish == TRUE
MayPublish == publishing = "none"

\* A boundary starts a background publish, or skips it while one is in flight.
SyncOwn(l) ==
  /\ Alive(l) /\ learner[l].pc = "sync" /\ strategy = "own"
  /\ publishing' = IF MayPublish THEN "snapshot" ELSE publishing
  /\ Settle(l, [learner[l] EXCEPT !.base = learner[l].win])
  /\ UNCHANGED <<scenario, trained, poolW, latePop, server, published, ckpt, faults>>

SnapshotOwn ==
  /\ publishing = "snapshot"
  /\ publishing' = "post" /\ ckpt' = ckpt + 1
  /\ UNCHANGED <<scenario, trained, poolW, feed, learner, server, published, faults>>

PostOwn ==
  /\ publishing = "post"
  /\ publishing' = "none"
  /\ \/ published' = ckpt /\ UNCHANGED faults
     \/ Fault("publish") /\ UNCHANGED published
  /\ UNCHANGED <<scenario, trained, poolW, feed, learner, server, ckpt>>

HubPublish ==
  /\ strategy = "hub" /\ revision + 1 > published
  /\ published' = revision + 1
  /\ UNCHANGED <<scenario, trained, poolW, feed, learner, server, publishing, ckpt, faults>>

\* The parameter server of this strategy is started without a checkpoint.
ServerRestart ==
  /\ strategy = "hub" /\ Fault("server")
  /\ revision' = 0 /\ log' = [l \in Learners |-> <<>>]
  /\ UNCHANGED <<scenario, trained, poolW, feed, learner, channel>>

-----------------------------------------------------------------------------
WorkerStep(w) == Load(w) \/ Spawn(w) \/ Push(w)
Consume(l) == Pop(l) \/ Put(l)
TrainStep(l) == Collect(l) \/ StartStep(l) \/ FinishStep(l) \/ Stall(l) \/ SyncHub(l) \/ SyncOwn(l)
Publish == SnapshotOwn \/ PostOwn \/ HubPublish
Late == ServeLatePush \/ ServeLatePop

Next ==
  \/ \E w \in Workers : WorkerStep(w) \/ PushTimesOut(w)
  \/ \E l \in Learners : Consume(l) \/ PopTimesOut(l) \/ TrainStep(l)
  \/ Publish \/ Late \/ ServerRestart

\* Every task of an event loop is resumed again and again; a generation ends;
\* the publisher keeps polling.
Fairness ==
  /\ \A w \in Workers : WF_vars(Load(w)) /\ WF_vars(Spawn(w) \/ Push(w))
  /\ \A l \in Learners : WF_vars(Consume(l)) /\ WF_vars(TrainStep(l))
  /\ WF_vars(Publish) /\ WF_vars(Late)

Spec == Init /\ [][Next]_vars /\ Fairness

-----------------------------------------------------------------------------
\* Every variable has its type.
TypeOK ==
  /\ Len(queue) <= QueueSize /\ latePop \in Nat
  /\ \A w \in Workers : Cardinality(worker[w].flight) <= GroupsPerRound /\ worker[w].version <= published
  /\ \A l \in Learners :
       /\ Len(buffer[l]) <= BufferSize /\ Len(learner[l].got) <= BatchGroups
       /\ learner[l].h <= SyncEvery /\ learner[l].base <= learner[l].win
       /\ learner[l].pc \in {"window", "sync", "done", "raised", "stalled", "diverged"}
  /\ publishing \in {"none", "snapshot", "post"} /\ published \in Nat /\ ckpt \in Nat

\* Where a group can be when it has left its worker: in a line, in a request
\* still to be served, or trained.
Lines == {"queue", "consumer", "buffer", "got"}
Kinds == Lines \cup {"late", "trained"}

Line(k, l) ==
  CASE k = "queue" -> queue [] k = "consumer" -> consumer[l]
    [] k = "buffer" -> buffer[l] [] k = "got" -> learner[l].got

Content(k, l) ==
  CASE k = "late" -> latePush [] k = "trained" -> trained [] OTHER -> ToSet(Line(k, l))

SamePlace(k, l, j, m) == k = j /\ (k \in {"consumer", "buffer", "got"} => l = m)

\* A group is in one place at most, over the queue, the requests still to be
\* served, and all learners, and is gone from all of them once it has been
\* trained: whatever times out and is served late, no two learners train the
\* same rollout and none trains it twice.
AtMostOnce ==
  /\ \A k \in Lines, l \in Learners : IsInjective(Line(k, l))
  /\ \A k, j \in Kinds, l, m \in Learners :
       ~SamePlace(k, l, j, m) => Content(k, l) \cap Content(j, m) = {}

\* What is trained is no staler than max_staleness at the time it is trained,
\* not only when it was collected.  With background publishing the reference
\* may advance by one between the two, and by no more.
TrainedFresh ==
  \A l \in Learners : \A i \in 1..Len(learner[l].train) :
    Reference(l) - learner[l].train[i].version <= MaxStaleness + (IF strategy = "own" THEN 1 ELSE 0)

\* The stamp of a group is the version it was generated under, although the
\* worker swaps checkpoints with groups in flight: groups of one worker are
\* stamped in the order they were started.
StampsInOrder ==
  LET all == ToSet(queue) \cup trained
  IN \A g, k \in all : g.from = k.from /\ g.nr <= k.nr => g.version <= k.version

\* The windows a learner's pushes carry: as long as no answer to an applied
\* push is lost, each window is folded into the server's model exactly once,
\* in order; one whose exchange failed travels on inside the next push.
WorkContinuous ==
  faults["reply"] = 0 =>
    \A l \in Learners : \A i \in 1..Len(log[l]) - 1 : log[l][i + 1][1] = log[l][i][2] + 1

\* How far the freshness reference of a self-publishing learner runs ahead of
\* what the workers can fetch: by the publishes that failed, and by the one in
\* flight.  One more than max_staleness of them, and every rollout is stale.
PublishLag ==
  strategy = "own" => ckpt - published <= faults["publish"] + (IF publishing = "post" THEN 1 ELSE 0)

\* Every learner comes to an end: it finishes its windows, or it raises; it
\* never waits for a pool that has nothing left to send.
LearnersEnd == \A l \in Learners : <>(~Alive(l))

\* No group is trained twice and, but for lost answers, no window is counted
\* twice or left out.
PoolSound == TypeOK /\ AtMostOnce /\ WorkContinuous

\* What is trained is fresh, by a stamp that is true, against a reference that
\* does not run away from what can be fetched.
StampsFresh == TrainedFresh /\ StampsInOrder /\ PublishLag

-----------------------------------------------------------------------------
(* Inductive strengthenings of PoolSound and StampsFresh. *)

Groups == [from: Workers, nr: Nat, version: Nat]
Loops ==
  [pc: {"window", "sync", "done", "raised", "stalled", "diverged"}, h: Nat, collecting: BOOLEAN,
   got: Seq(Groups), train: Seq(Groups), win: Nat, base: Nat, baseRev: Nat, known: Nat, failed: Nat]

Typed ==
  /\ scenario \in Scenarios
  /\ worker \in [Workers -> [version: Nat, flight: SUBSET Groups, sent: Nat, serial: Nat]]
  /\ queue \in Seq(Groups) /\ latePush \subseteq Groups /\ trained \subseteq Groups
  /\ latePop \in Nat
  /\ consumer \in [Learners -> Seq(Groups)] /\ buffer \in [Learners -> Seq(Groups)]
  /\ learner \in [Learners -> Loops]
  /\ revision \in Nat /\ log \in [Learners -> Seq(Nat \X Nat)]
  /\ published \in Nat /\ ckpt \in Nat /\ publishing \in {"none", "snapshot", "post"}
  /\ faults \in [FaultKinds -> Nat]

\* Lines keep their bounds, workers load what was published, and no more is
\* published than there is.
BoundInv ==
  /\ Len(queue) <= QueueSize
  /\ \A w \in Workers :
       /\ IsFiniteSet(worker[w].flight) /\ Cardinality(worker[w].flight) <= GroupsPerRound
       /\ worker[w].version <= published
  /\ \A l \in Learners :
       /\ Len(consumer[l]) <= 1 /\ Len(buffer[l]) <= BufferSize
       /\ Len(learner[l].got) <= BatchGroups
       /\ learner[l].h <= SyncEvery /\ learner[l].base <= learner[l].win
  /\ strategy = "own" => published <= ckpt
  /\ strategy = "hub" => publishing = "none"

Abroad ==
  ToSet(queue) \cup latePush \cup trained
    \cup UNION {ToSet(consumer[l]) \cup ToSet(buffer[l]) \cup ToSet(learner[l].got) : l \in Learners}

Existing == Abroad \cup UNION {worker[w].flight : w \in Workers}

\* A group is in flight or abroad, and its number and stamp are its worker's.
GroupInv ==
  /\ \A w \in Workers : \A g \in worker[w].flight : g.from = w /\ g \notin Abroad
  /\ \A g \in Existing :
       g.nr <= worker[g.from].serial /\ g.version <= worker[g.from].version
  /\ \A g, k \in Existing : g.from = k.from /\ g.nr <= k.nr => g.version <= k.version

\* A learner holds groups for a batch only inside a window; who publishes for
\* itself takes at most one snapshot while a batch waits or is trained.
Behind(l, g) ==
  Reference(l) - g.version <= MaxStaleness + (IF strategy = "own" /\ publishing # "snapshot" THEN 1 ELSE 0)

FreshInv ==
  \A l \in Learners :
    /\ ~learner[l].collecting => learner[l].got = <<>>
    /\ learner[l].pc # "window" => learner[l].train = <<>> /\ ~learner[l].collecting
    /\ learner[l].h = SyncEvery => ~learner[l].collecting
    /\ l \notin members => learner[l].got = <<>> /\ learner[l].train = <<>>
    /\ \A g \in ToSet(learner[l].got) \cup ToSet(learner[l].train) : Behind(l, g)

\* The next push begins where the last one in the server's model ended.
WorkInv ==
  /\ strategy = "own" => \A l \in Learners : log[l] = <<>>
  /\ faults["reply"] = 0 => \A l \in Learners : log[l] # <<>> =>
       log[l][Len(log[l])][2] = learner[l].base /\ learner[l].baseRev <= revision
=============================================================================
