# panofabric-engine in TLA+

panofabric-engine trains one model on several *islands* (groups of GPUs) that are
connected by slow and unreliable links. Islands train on their own for a window of
steps, send what changed (a pseudo-gradient) to a parameter server, and go on from
the model it sends back. Around this outer loop the repository has a relay that
distributes weights, a rollout queue and workers for reinforcement learning, a
serving gateway with pipeline stages, and a launcher.

This directory specifies the program's concurrent core in TLA+, checks it with TLC
on small instances, and proves the properties that matter most with TLAPS. All
definitions are translations of the code under `src/`. `PROJECT.json` names the lines
each definition stands for (`map`), every run, every deliberate mistake the runs must
notice (`mutants`), the hazards and the theorems.

To repeat a check or a proof, in this directory:

    tlc -workers 2 -config OuterSync.cfg MCOuterSync
    tlapm OuterSyncProofs.tla

## 1. Inventory

Paths are under `src/panoengine/` unless they start with `src/`.

### Outer synchronization (`decentralized/async_diloco.py`)

**Server, `AsyncDiLoCoServer`.** A threaded HTTP server, one thread per connection.
State under `_lock`: the model and outer optimizer, `_revision` (commits so far),
`_snapshot_cache` (flat parameters per fragment and variant, emptied by a commit),
`_served` (the ring of snapshots that deltas are computed against),
`_last_checkpoint_revision`, the speed pool of DyLU, `_heartbeats`, `_finished`. Beside
it: `_session_slots` (a counting semaphore; none free means 503), `_stream_lock`
(one streamed push at a time) with the buffers it is read into, and `_grace_cond` with
the current batch. Operations: POST `/sync` (push or pull), GET `/heartbeat`, `/done`,
`/status`, the heartbeat monitor, saving and loading the checkpoint.

**Worker, `AsyncDiLoCo`.** A context manager around a training loop; a hook on the inner
optimizer counts steps and, at a boundary, passes the cohort gate, pushes and adopts
the reply. State: baseline parameters and revision, `_deltas_since_full`,
`_pending_resync` with its backoff, the in-flight exchange in fragment mode, the
heartbeat thread.

*Interaction.* One HTTP exchange per boundary. The server commits **before** it answers,
so every failure leaves the worker not knowing whether its push counted. The worker's
rule is: a 503 (nothing read) is retried with the same payload; any other failure
drops the push, and the worker re-baselines by a pull.

*Hard behaviours.* Lost and late replies; handlers that outlive their client; a restored
checkpoint that takes the revision back; several critical sections per session; a
shared cache, ring and read buffer; batches that several threads fill and one processes;
a count of workers that changes while a gate reads it.

*Correct means:* a push counts at most once; a snapshot is what its revision says; a
delta fits the base it is added to; a worker's baseline does not go back; a round
averages exactly what it should; every thread and slot is given back; the checkpoint
is loadable after any crash; a gate opens when, and only when, enough workers are there.

**Modes of the same classes.** `grace_period > 0`: arrivals within a window share a batch
that one thread processes. `sync_workers > 0`: a round waits for that many pushes and
makes one step of their mean. `num_fragments > 1`: each boundary exchanges one fragment,
overlapped with training. `replica_pg`: an island of several ranks, whose lead talks
to the server while the others follow by broadcasts. DyLU: the server chooses each
worker's next window length from its speed.

**Subclasses.** `heloco.py` corrects pushes against the momentum and serves a look-ahead
snapshot to some islands and the plain model to others, at one revision; it may step
islands it does not select with a second optimizer. `mla.py` and `bayes.py` replace the
outer optimizer; Delayed Nesterov (`async_diloco.py`) is the default one.

### The rest

| Component | State | Operations and interactions | Hard behaviours | Correct means |
|---|---|---|---|---|
| Parameter-server process, `decentralized/parameter_server.py` | last published revision | builds the server; polls its revision and publishes snapshots to relays; `HeLoCoRLClient` pushes for RL trainers | the snapshot is copied without the server's lock; one baseline revision for all fragments | what is published under a revision is the model at it |
| Relay, `decentralized/relay.py` | manifests and shards per version, eviction of old ones; client: relay health | publish manifest, publish shards, fetch latest, verify, fall back to another relay | manifest before shards, eviction during a fetch, a hub that starts over with lower versions | a fetched checkpoint is complete and of one version; the newest becomes available |
| Rollout queue, `decentralized/rollout_queue.py` | a bounded queue, counters | push (refused when full), pop (204 when empty), client retries | a reply lost after the pop | no group trained twice; losses only where a reply is lost |
| RL workers and learner, `train/rl/{worker,replicas,controller,actors,train}.py` | policy version, window counters, group buffer, prefetched batch, handoff of weights | load checkpoint, roll out, push, pop, train, publish, window sync | version raised before it is published, staleness of prefetched data, handoff while a fragment is adopted | a rollout is labelled with the version that produced it and trained in time; a merge tears nothing |
| Gateway, `serve/gateway.py` | targets, in-flight counters, health | pick, forward, retarget, probe | the table changes during an await | counters are the requests under way; the pool converges |
| Pipeline serving, `serve/{engine_stage,stage_transport}.py` | scheduler of each stage, frames in flight, waves | framed steps down the chain, tokens back over the ring, aborts, weight swaps | schedulers that must agree without talking | all stages take the same step; a token reaches its request |
| Sharder and weights, `serve/{sharder,weights}.py` | a staging directory, its manifest and fingerprint; downloaded files | shard under a lock, wait for the manifest, ranged downloads with digests | crashes between files, a waiter that sees another model's manifest | what is loaded is whole and of one model |
| Launcher, `src/run_heloco.py` | roles as process groups, logs, directories | launch, watch, signal, kill, collect | failures and interrupts at any look | no leader outlives its run, nor helpers of one that was killed; the summary is of the runs that succeeded |
| Prototype, `src/archive/heloco_stable_v2.py` | simulated clock, tasks, data | tasks of workers, series of arrivals, phases, evaluation | stale ends, phases that are no multiple of an interval | pushes when they are due, once, from data of their own |
| Recipes, configuration, models, examples, deployment | – | – | – | no part of the running protocol |

## 2. Plan, and where it stands

| Order | Modules | Composes | State |
|---|---|---|---|
| 1 | `PushLog`, `OuterSync`, proofs | server and workers; implements `PushLog` | written, checked, safety and refinement proved |
| 2 | `SyncRound`, proofs, `StreamedPush` | sessions, batches, workers; bodies and buffers | written, checked, safety proved |
| 3 | `CheckpointFile`, proofs | handler threads, files, crashes | written, checked, proved |
| 4 | `CohortGate`, proofs | server registry, training and heartbeat threads | written, checked, safety proved |
| 5 | `FragmentServer`, `FragmentSync`, `RLReplica`, `FragmentClients`, proofs | one server with an island of ranks, or with an RL replica | written, checked, safety proved |
| 6 | `VersionRegister`, `RelayHub`, proofs | commits, hub, relays, workers; implements `VersionRegister` | written, checked, safety and refinement proved |
| 7 | `RolloutPool`, proofs | workers, queue, learners, publisher | written, checked, safety proved |
| 8 | `Gateway`, proofs, `Splice`, `StageWeights`, proofs | requests, table, probes; stages; directories and downloads | written, checked, safety proved |
| 9 | `OuterSteps`, `ServerPush`, `Launcher`, proofs, `Simulator` | optimizers with checkpoints; sessions with them; roles; the prototype | written, checked, safety proved |
| 10 | `Layout`, `Correction`, `Prototype`, `Plans` | pure operators with what they promise | written, checked |

## 3. Modules

**`PushLog`** is the abstract promise about pseudo-gradients. The model is a log; a push is
appended at most once, ever; a push that was dropped stays dropped; a recovery goes
back to a log that was saved as a whole.

**`OuterSync`** is the whole-model protocol without grace windows and rounds. A model is the
sequence of pushes folded into it, so two models are equal iff the same pushes were
applied in the same order. A snapshot carries its model, the revision sent with it, its
variant, and two history fields no guard reads (which server process built it; whether
the worker's copy is exact). A session is the record of one POST:
`sent -> busy | admitted -> [saving ->] ready -> encoded -> answered | closed`.
`HandlePush` is the critical section under `_stream_lock` up to the claim of a due
checkpoint; `SaveCheckpoint`, `EncodeReply` and `SendReply` are the later critical
sections, so that other sessions come between. A client that times out leaves its
handler running. `ServerRestart` loads the checkpoint and breaks every connection;
`WorkerRestart` forgets the baseline. The mapping to `PushLog` takes the model as the log,
the file's model as the saved log, and as spent all pushes that are no longer on their way.

**`SyncRound`** has the batches of `grace_period` (`round = 0`) and `sync_workers`
(`round > 0`): joining, election of the processor when the deadline passes or
the round is full, waiting on the condition variable, the processor's steps one at a
time (other processors may commit in between), its snapshot, the publication of result
or error, and waiters waking. Encoding, deltas and restarts are left to `OuterSync`.
In this module time passes by `Expire`, and a 503 whose retries are used up is `RefuseBusy`.

**`StreamedPush`** reads one session's header and body, tensor by tensor, into the shared
buffers of the streaming path or into memory of its own. A body may break off at any
tensor. What is stepped is recorded with the sender of each tensor. **`ServerPush`** puts it together with
`OuterSteps`: what holds of a push from its body to the optimizer's state.

**`CheckpointFile`** takes apart what `OuterSync` treats as one step: claim, copy under the
lock, write to `path.tmp`, rename; with crashes and failing writes anywhere. A file is an
identity that names point to, so a writer keeps writing to a file that was renamed.

**`OuterSteps`** is what a commit does to the model: Delayed Nesterov with its buffer and
period, MLA, Bayes, HeLoCo with its two sections and its second optimizer, per fragment,
and what a checkpoint keeps. All the rules but two are linear in the gradients, so a tensor
is the vector of how much of each push it holds, in units of 1/`One` (768 in the run). The learning
rate is 1 and each decay 1/2; halves and shares are rounded down, and `One` is assumed large enough,
`2 * period * 2^pushes` at least, that what a push gave is not rounded down to nothing by the commits there can
be. The correction only records which momentum
it was computed against; the gain of Bayes is 0, 1/2 or 1.

**`CohortGate`** has the training thread and the heartbeat thread of each worker, their
requests, and the server's two tables. A probe of `/status` and the step through the
gate are two actions. A restarted worker has a new uuid, so it is another member of
`Workers`.

**`FragmentServer`** is the server as a client of fragments sees it, with one exchange; its
clients are two. **`FragmentSync`** is an island of ranks in lockstep: a rank's place is the
collective it waits in, and a collective completes when all wait in the same one.
**`RLReplica`** is a HeLoCo RL replica that generates its own rollouts: collection of the
next batch while one is trained on, the handoff of weights to the generators in the
background, and the exchange at a window's end or, in fragments, inside it. The group
buffer and the weight handoff belong to an RL library and are modelled from how
`controller.py` uses them: slots, first-in first-out, pause, push, pull, release.
**`FragmentClients`** puts the two side by side: a run has the one or the other.

**`RelayHub`** is the checkpoint channel: commits that write a model part by part, the hub's
unlocked copy and recheck, the posts of manifest and shards to each relay, eviction, and the
workers' fetches. **`VersionRegister`** is its abstraction: a worker holds a checkpoint that
was offered as one piece, and moves to higher versions only.

**`RolloutPool`** is RL with generation taken out of the trainers, in both strategies, with
the relays reduced to the newest version one can fetch. A group is a worker, a serial
number and the version it was spawned under. A request whose client has given up is
still served.

**`Gateway`**: a step is what happens between two awaits of the one event loop.
**`Splice`**: the drivers and followers of a pipeline with their links; the engine behind
each stage is a scheduler of requests. **`StageWeights`**: `ensure_shard` by several
processes, and `fetch_stage` by one; a shard or a file is the model it is of, or torn.

**`Launcher`**: a role is a leader, which the launcher polls, and helpers, which it does not
see. **`Simulator`**: the event loop of the prototype, whose clock is a number.

**`Layout`**, **`Correction`** and **`Prototype`** are pure operators, written with folds.
`Correction` is exact: a direction is a vector of length 5 with whole coordinates, so cosines
are 25ths. **`Plans`** states what they promise; each of its initial states is an input.

`MC...` modules hold the instances' constants, and put components of one kind side by side:
an initial state belongs to one of them, and only that one moves. They compose nothing:
a property of one component is not weakened by the others being there. The modules whose name
ends in `Proofs` hold the proofs. Definitions
called `Faulty...` are the mistakes of the mutants: each stands in front of the correct
definition, and no specification uses it.

## 4. Runs

Most of a run's properties are conjunctions of named parts; each part says in its module
what it is about, and has a `Faulty...` operator of its own that breaks it.

| Run | Instance | What it shows |
|---|---|---|
| `outer_sync` | 2 workers, 2 pushes each, 3 connections, 2 slots; one failed call, or one restore and one failed save | pushes are unique, snapshots are what they are labelled, deltas are exact until a restore and wrong for a bounded time after it, baselines never go back, the file lags by a bounded number of commits; the server implements `PushLog` |
| `outer_sync_live` | 1 slot, 1 server restart, 1 worker restart | training completes |
| `mixed_islands` | 2 workers that are served different variants, no faults | **violated**, see below |
| `sync_round` | rounds of three; rounds of two, or the grace window, each with an abandoned call and a failing step; the prototype with 3 workers | rounds whole and of one model, pushes once, replies contain their push, no waiter hangs; simulated pushes on time, once, from slices of their own |
| `server_process` | 2 threads that save, 2 crashes or failing writes; eight servers and up to four pushes by two threads with restarts; two sessions that read bodies; a campaign of two methods and two islands with two troubles | the file is always loadable and holds what was claimed; optimizers hold what their rules say; only whole bodies are applied; no leader outlives its run |
| `fragment_sync` | 2 ranks, 6 steps, 1–2 fragments, 2 failed calls, 1 failed gate, 1 restore; or a replica in five settings | ranks never wait in different collectives; slices are of one model; no work counts twice; rollouts are fresh; everybody leaves |
| `restore_heals` | a replica with 2 fragments, 1 restore | **violated**, see below |
| `hub_gateway` | 2 relays that retain 1, 1 worker, 2 shards, 2 outer steps, 1 lost request or restart; or a gateway with 2 replicas, 2 requests, 2 retargets, 2 flips | what is published is one step's model; the channel implements `VersionRegister`; the newest model arrives; the load is true; the pool converges |
| `rollout_pool` | 1 worker, 1–2 learners, both strategies, 1 fault of any kind | no group trained twice or too stale, true stamps, windows without gap, learners end |
| `splice` | 3 stages, 3 requests of 1–2 tokens, 2 engine slots, lockstep, 1 wave and 2 waves, 1 incident (none with 1 wave) | all stages take the same step, tokens are true, requests end everywhere |
| `waiters` | the cohort gate: 2 workers, 2 boundaries, 1 crash, 1 lost or late request, 1 server restart; or 2 stages, 3 submissions of 2 models, 2 crashes; or 3 files of a tree published 3 times; or the inputs of `Plans` | finishing opens no gap in the count, nobody starts alone, losses are noticed, double counting ends, gates end; what is loaded is whole and waits end; cuts and numbers are as promised |
| `half_cleared` | 2 stages, 3 submissions of 2 models, 1 process killed | **violated**, see below |

**Bounds.** Three connections for two workers leave room for a handler whose client is gone
while both workers have a call; two slots for three connections make 503s happen. Two
pushes each, with a checkpoint at every second commit, a ring of two snapshots and a full
download after one delta, reach every eviction, refresh, claim and restore. A fault of
a kind at a time keeps traces readable; what repeated faults could add is covered by the
theorems where there is one. In `SyncRound` one window is enough for the grace window to have
two batches with their own processors, since arrivals may fall in different windows; rounds
with faults get three, so that a late push can land in a later round.

*Server process.* Five files are one more than two threads, `path` and `path.tmp` can hold.
Four pushes are two periods of Delayed Nesterov with period two, and more than one with
period three; two restarts can each lose a push count; Bayes is also served in fragments, so that the first
gradient a tensor gets need not be of the first push. Two sessions suffice for a shared
buffer, two tensors for a body that breaks off in the middle, and the number of slots decides
whether they meet. Two islands and two methods are the least for which a failing
island leaves another running and a run is followed by one.

*Fragments.* Two ranks are a lead and a follower. Six steps with windows of two are three
boundaries, one more than fragments, so that a fragment comes round again. The replica has
five settings: one fragment with four windows and three lost calls (three in a row end the
run); two fragments with two windows and two lost calls; one and two fragments with a
restore; a group that has nothing to train on. Two slots per batch of one allow one version of
staleness.

*Relay and pool.* Two relays that keep one checkpoint each make an eviction meet a fetch; two
outer steps and two tries of the hub make it publish torn. One fault of any kind is enough
for each of the failure paths but repetition of one (so `raised`, which needs two failed
syncs in a row, is not reached). The hub's command line passes a single relay; two are what
the classes allow. A queue and a buffer of one group, batches of one and a staleness of one
are the smallest with refusals, waits and drops.

*Serving.* With three requests and two slots, one must wait for another's end; three stages are
the least with one that is neither first nor last; two waves the least that overlap, and with one the third request is queued behind another; four
frames on all the links are more than one step needs. Two retargets let a target leave
and come back under a request, and the second request makes the counter of the first one's
target go wrong if it can. Three submissions let a directory be built, be replaced and be
asked for again, two crashes let a process be killed in the midst of each of the last two;
three publications let a model come back; one rank per directory, and a waiter's deadline passes only when nobody
works any more.

*Prototype.* Paces (1,2,5) and (2,3,3), three phases of three pushes, waits of 0, 1 and 3, both
ways to choose shards and to apply pushes; with rounds, tasks of two steps. Texts are up to two
files of up to three records of up to two characters, held-out limits 1–4, all or half of a
file; 2–12 tokens. *Plans.* Up to four parts, sizes up to three (memories from zero), eight
layers, files of twelve units: enough for ties, remainders, zero shares and a part larger than
its ideal share.

Connections are symmetric in `outer_sync`, which checks no liveness.

**Deadlock** is checked in `hub_gateway`, where workers and the prober go on for ever. Everywhere else
bounded actors finish and the system stops; that nobody stops too early is what
`TrainingCompletes`, `RunsEnd`, `EverythingEnds`, `GateEnds`, `EverybodyEnds`, `HubDelivers`,
`LearnersEnd`, `RequestsServed` and `WeightsArrive` say.

**Fairness.** Always weak but for one action, and never for a fault, a timeout of a call, a
lost request, a crash or somebody's decision to start again.
* `OuterSync`, `SyncRound`: every session's handler, every worker's exchange and the start of the
  next one are threads that block on nothing but what the guards say; a batch's deadline
  passes because the code waits with a timeout.
* `CohortGate`: threads and handlers, the monitor; giving up is strongly fair, as the deadline
  is compared after every probe that found too few, and it passes once.
* `FragmentSync`, `RLReplica`: ranks run; a collective everybody joined completes, one that
  cannot complete is aborted by its timeout; a request is answered or fails; the training loop,
  generation, the handoff and the exchange's thread are tasks that are resumed.
* `StreamedPush`: each session's handler runs; a body that stalls meets the handler's timeout.
* `RelayHub`: commits end, the hub's loop and the workers' loops go on. `RolloutPool`: every task
  of an event loop is resumed, a generation ends, the publisher polls.
* `Gateway`: the prober runs; a request's body arrives and its upstream ends, by the socket
  timeout if by nothing else. `Splice`: driver and followers, and absorbing, which is done
  in every pass of the wave driver. `StageWeights`: a process that can take a step takes it.
* `Launcher`: the launcher goes on, every island ends at some time. `Simulator`: one thread.

### What the violated runs show

`mixed_islands`. HeLoCo serves the islands it corrects a look-ahead snapshot and the others the
plain model, at one revision (`heloco.py` 579-595). The ring a delta is computed against
is keyed by the revision alone (`async_diloco.py:852`), so the later of the two takes the other's
place, and the next delta of the other island is computed against a snapshot it never
held. The comment at 609 says "the delta is computed against the snapshot SERVED at that
revision". No restart and no fault is needed; islands of one kind are safe (`HeldIsSound`).

`restore_heals`. `HeLoCoRLClient._adopt_flat` keeps one baseline revision for all fragments
(`parameter_server.py:660`). After a restore the first fragment that is rejected moves it
to the server's revision, so the next fragment's push, computed against the lost model, is
accepted and stepped. The docstring of `push` promises that each fragment re-baselines on its
own next push (577).

`half_cleared`. A resubmission with another model removes what it finds in the staging directory
(`engine_stage.py` 516-519), in the order the directory lists it, manifest and fingerprint among the
rest. Killed meanwhile, it can leave both of them and not all stages; when the first model is
submitted again, the directory is not stale (509-511) and its manifest exists (520), so nothing is
sharded and a stage is given a directory that is not there. With a second process killed between the
new manifest and its fingerprint, the old fingerprint vouches for the new model's shards. The comment at 497 says that the
fingerprint of "what the shards were built from" guards against that. A process started again for
the *same* submission clears the rest, and `ReturnedWhole` holds until somebody was killed in
the midst of clearing.

### Seen while reading, without a run

*Server and workers.*
* The stale test (`async_diloco.py:1504`) compares numbers only, and a restore uses numbers again:
  once the new server has caught up it accepts a push computed against a model that was lost,
  although the class docstring promises a rejection.
* The reply to a stale push (1515) is built without the island's id, so an island on the look-ahead is
  sent the plain parameters, or the other way round, and pushes against them once.
* A round counts arrivals, not islands (1448 against the docstring 536-545): a push whose caller gave up
  counts next to the same worker's next one. A round whose peer has gone keeps its threads and
  slots (1454), though `request_timeout` is said to bound a dead peer (473-475). A grace window makes
  one outer step per arrival (1566), not one on the mean (513-516).
* Processors of grace windows and rounds save outside every lock through one `path.tmp` (1062): one
  save can rename the file another is still writing. `CheckpointFile` has that mode
  (`Serialized = FALSE`), for which neither the run nor the proofs claim anything.
* The int8 path that reads a whole body reads scales for all parameters (728-733), which fits only because
  fragments exclude grace windows and rounds.
* The checkpoint has neither Delayed Nesterov's `_push_count` nor the second optimizer of
  HeLoCo. `build_server` refuses fragments for DiLoCo, but not for HeLoCo with
  `other_islands_method="diloco"`. Batches call `_apply_one` without the island, so worker selection is
  ignored there while pulls still use it. Two batches of a grace window may correct against a
  momentum that moves before the commit; the claim at `heloco.py` 609-612 holds within a batch.
* Bayes: an element whose first pseudo-gradient is exactly 0 has gain 0 for good (`bayes.py` 150-186).

*RL.*
* In fragments, an exchange that fails in the background and is joined inside a window raises
  out of `_run_window` and ends the run at once (`replicas.py` 323-376), against "A failed outer sync must not
  kill the run" (`controller.py` 488). There too, a merged fragment is adopted while a
  handoff may be reading the weights. After a lost reply the next push carries the window again,
  though the log says it is dropped. The merged model is pulled under the version of the
  weights before the merge.
* The reference of staleness is advanced by publishes that fail (`replicas.py` 553).
* "The next watch-loop tick corrects" a torn publication (`parameter_server.py` 313-315) only if another commit
  follows. After a restart of the hub its new versions are evicted at once.

*Serving.*
* A stage that fails to get the lock before a stale manifest is unlinked returns the old
  model's shards (`engine_stage.py` 507-530); a holder killed between manifest and fingerprint makes the next one
  clear directories others load from; waiters never try the lock again. `ReturnedWhole` and
  `LoadedWhole` say where they stop. Explicit stage layers are only checked for their sum (`sharder.py`).
* With tensor parallelism and a manifest URL every rank fetches into one directory and one
  `.part` file (`weights.py` 60-67).
* `Splice`: an abort by the client of a request in a wave leaves it in the driver's books for
  ever, an abort before admission is lost, a failing reload at stage 0 is skipped by it and
  done by the followers, or ends the wave driver.
* A step of stage 0 that raises. `run_first` reports it to the clients and goes on, since "the frame is already
  broadcast, so every stage is in the same state" (`engine_stage.py` 883-886). In the model it is not:
  the next stage has scheduled that step and waits for its hidden states, which were never sent;
  the next frame has another tag than it expects, `recv` (161-169) raises in `run_follower`, which
  does not catch it, and the stage is dead while stage 0 goes on. In waves the same happens when the
  step raises before its output is shipped; after that, its token frame is matched with a later
  step. Hence the hypothesis `failed = 0` of `StepsAgree` and `TokensTrue`, and the exemption in
  `RequestsServed`: what the run `splice` and the theorems show ends with the first step that raises.
* `Gateway`: counting puts a removed key back (121 against 159-162); a client that disconnects marks a good
  target unhealthy until the next probe.

*Launcher and prototype.*
* With `data_distribution "both"` the second mode's directories have no suffix, and the collecting
  loop uses none for either (`run_heloco.py` 1738, 1795-1802). Ranks of an island whose leader died are never signalled
  (643-655). An interrupt after a run's last look is lost (1519-1521). The preflight looks at
  `outer_method`, not `methods`. An empty `correction_workers` is read as "all" by the server and
  counted as one by the launcher. A killed role is not waited for before ports are bound again.
  One bad field in a metrics row leaves the columns before it counted.
* The prototype with fixed languages and unequal paces lets a fast worker run out of its indices; the toy split
  evaluates on training data; its correction fades to nothing at `cos_ok`, which its
  docstring calls authoritative, where `block_correct` is discontinuous.

## 5. Proofs

Nothing is assumed but the assumptions the modules declare on their constants and, where said
below, one named hypothesis; none bounds how many workers, connections, pushes, relays,
requests, restarts or faults there are. The inductive invariants stand at the end of each
specification module, so that TLC can check them too.

**Outer sync** (`OuterSyncProofs`; `ConstAssumption`).

* `TypeCorrect`: `Spec => []TypeOK`.
* `AppliedOnce`: `Spec => []AtMostOnce`. The property is not inductive: nothing in it says
  that a push on its way has not been applied. `OnceInv` adds that a pending push is on one
  connection, is in neither the model nor the file (a restore may bring the file's log
  back), and that logs hold issued pushes only, so that a new push differs from all of them.
* `SnapshotsFaithful`: `Spec => []SnapshotFaithful`, by `FaithInv`: the revision is the length
  of the log, in memory and on disk; a built cache entry *is* the present model; and
  every snapshot a session, the ring or a worker holds is dated no later than the process
  that built it.
* `RejectedAfterRestore`: `Spec => []RejectOnlyAfterRestore`, from the same dates.
* `BaselinesAdvance`: `Spec => BaselineAdvances`. `CallInv` says that the session a worker waits
  on is its own and carries the baseline the worker still has; `ReplyInv`, that a reply
  by the same server process is no older than that baseline.
* `SkewAndLagBounded`: `Spec => [](SkewBounded /\ CheckpointLag)`. A wrong baseline lasts `DeltaRefresh`
  deltas at most, since a session that offers a delta has one left (`CallInv`). The file is a
  prefix of the log that misses less than one interval for every failed save, and one
  more while the stream lock is held to write it (`LagInv`). `PlansAssumption` says that
  some plan allows the most failing saves.
* `HeldIsSound`: `SingleVariant /\ Spec => []HeldSound`, with `DeltaExact` by `ExactInv`: until the
  first restore the base the server finds is the very snapshot the worker holds. Two
  snapshots at one revision are the same by `FaithInv`, *if the server builds one variant*.
  The hypothesis is not for comfort: with two variants the property is false, see `mixed_islands`.
* `ServerImplementsPushLog`: `Spec => PushLogSpec`, one step per action: a commit is `Commit`, a rejection or
  a call given up before its commit is `Drop`, a finished save is `Save`, `ServerRestart` is `Recover`, and
  all else stutters. `OnceInv` is what makes a commit an allowed one: the push is not spent.

**Rounds** (`SyncRoundProofs`; `RoundAssumption`: workers, threads and batches are finite in
number, with a batch for every thread).

* `RoundsAreWhole`: `RoundsWhole`, `OneProcessor`, `AppliedOnce` and `ReplyShowsPush` hold always. `SessionInv`
  and `BatchInv` tie a session to its batch: a member's push is among the batch's,
  a processor has claimed its batch and has applied the first `applied` of its pushes.
  `ShownInv` follows the pushes into the outer steps, up to the revision a member is told.
  `OnceInv` says that a push is in one place: with a session that has not joined, with a batch
  that has still to apply it, or in a step.
* `RoundsAreSound`: `ASSUME EveryoneNeeded PROVE Spec => []RoundsSound`, which adds `OneModelPerRound`.
  `EveryoneNeeded` says that a round waits for all islands: `run_heloco.py:528` starts the server with
  `--sync_workers` equal to their number. The heart is `EveryoneIsIn`: a full round has as many pushes
  as there are workers, and of each worker one at most, so by counting it has one
  of each; hence nobody is left outside who could push against another model, and all start
  the next round at the revision this one commits (`OneModel`). `MCSyncRound` states the hypothesis of
  its instance as an assumption. With fewer arrivals per round than workers the property fails,
  and with a call that was given up too (`scenario.abandoned`), which it therefore exempts.

**Prototype** (also `SyncRoundProofs`; `SimulatorAssumption`: an experiment has a worker, paces, inner
steps, phases and an evaluation interval are positive, and a wait is a number).

* `PrototypeIsSound`: `SimSafety => []SimSound`, for any number of workers of any paces, any wait, with or
  without `delayed_sgd`, fixed partitions and rounds. The invariant `SimInv` is in `Simulator`, part by part:
  `CountInv` ties updates, pushes and rounds together; `LateInv` says that an idle worker's clock is
  the run's, so none is started in the past; `PaceInv` that, while `w` trains, each `v` pushes at most once
  in every pace of its own since `w` was dispatched, so a push is no staler than the paces allow
  (`Most`); `SharesInv` that the tasks of a shard end at the multiples of the inner steps, one at each, and
  that with the least visited shard for each task no shard is two visits ahead of another; `EvalInv`
  and `PartsInv` place the evaluations and the outer steps. The least shard exists by well-foundedness
  of `<` on `Nat`; a shard's updates are counted by its tasks, one multiple of the inner steps for each.

**Checkpoint file** (`ServerProcessProofs`; `FileAssumption`, `FileSupply`: a new file can always
be made, and `Serialized`).

* `CheckpointAtomic`: `Spec => []CheckpointSound`, and `CheckpointMonotone`: `Spec => NeverOlder`.
  `SaveInv` says that one thread at most is between commit and rename, that its copy is
  the present model, that `path.tmp` is never the checkpoint itself, and that the
  checkpoint is never newer than the model. `ClaimInv` says that, as long as nothing failed,
  the last claim is in the file or with the one thread that saves, and that nobody commits
  meanwhile.

**Fragments** (`ServerProcessProofs`; no assumption on constants).

* `FragmentsWhole`: for any list of sizes and any number of fragments up to its length, `_fragment_bounds`
  returns that many ranges, none empty, which follow each other from the first tensor to the last.
  `FragmentsEven`: when every tensor has an element, no fragment exceeds its even share by as much as the
  largest tensor. `_fragment_bounds` is a fold over the sizes, and the library's induction theorems are out of
  reach; so induction is done over sets: a set of numbers that holds 0 and is closed under successor is `Nat`
  (`SetInduction`, from the well-foundedness of `<`), and `FoldExists` takes a fold over indices to the list of its
  intermediate results. `CutInv` says that after `i` tensors at least one tensor is left for each fragment to come;
  `EvenInv`, that no finished fragment is too big and that the open one is not yet full.

**Bodies of pushes** (`ServerProcessProofs`; `StreamAssumption`).

* `PushesAreWhole`: `StreamSafety => [](StreamTypeOK /\ AppliedOwn)`. `LockInv` says
  that one session at a time reads into the shared buffers, or steps from them; `BodyInv`, that while
  it does, the first `i` tensors of its fragment are its own, and that all were read once it is being handled;
  `SlotsInv`, that what the semaphore has given away is what sessions hold. That ranges stay within the
  model's tensors is `FragmentsWhole`.

**Outer steps** (`ServerProcessProofs`; the assumptions of `OuterSteps`).

* `MomentaStayApart`: `StepsSafety => [](CorrectionCurrent /\ MomentaApart)`. `JobsInv` says that without a
  grace window one handler is at work, so that nothing is committed between the two sections of
  HeLoCo's commit; `ApartInv`, that a push which is not of an optimizer's islands has coefficient
  zero in its momentum and buffer, for HeLoCo's in the checkpoint too.
* `StepsAreSound`: `StepsSafety => []StepsSound`, with `PushesGoRight` for the whole way of a push
  (`StreamSafety /\ StepsSafety => []PushesRight`). `SoundInv` adds to the above what coefficients are.
  `SpentInv`: of a push that was not committed there is nothing in the model, in an optimizer or on disk, so its
  gradient meets empty places. `Books`, kept for each push and tensor: a buffered gradient is whole, and the model
  has got `1/period` of it since the last milestone; what the momentum holds is not buffered. `Remembered`: what is in the
  model of a gradient is in the optimizer. That "holds something of push `q`" is the same as a coefficient
  that is not zero needs a unit that repeated halving does not use up: `Lasting` is `2^Left`, with `Left` the commits
  that can still come, and a coefficient of a momentum is 0 or at least that (`PowerSteps`, `Units`; hence the
  assumption `One >= 2 * period * 2^pushes`). `RetainInv` says this of HeLoCo's momentum when batches are stepped;
  `OrderInv`, that handlers work on different pushes, in order; `ListensInv`, that Bayes' `P` is positive
  exactly if the tensor's first gradient was not zero.
* `NesterovSteps`: `StepsSafety => NesterovSound`, by the same invariant. What a milestone takes in is what was
  buffered and the present push (`TakesBuffer`); `Books` gives the model at the last milestone. `MilestoneInv`
  counts what is buffered: `count % period`, and at most `period - 1` more for each restart, which restores the buffer
  and sets the count back to 0.

**Launcher** (`ServerProcessProofs`; `LauncherAssumption`: methods and islands are named by strings,
and there is at least one of each).

* `CampaignsAreSound`: `CampaignSafety => []CampaignSound`. `RolesInv` says that nobody is killed but between two
  runs, and that when the launcher found all islands ended well they still are so; `LoopsInv` is where the
  two loops are, and what suffix goes with it; `BooksInv` says which directory a run logs in
  (`DirectoryOf`): different methods or distributions never share one.

**Cohort gate** (`WaitersProofs`; `CohortAssumption`: finitely many workers, `min_replicas` between
two and their number).

* `CohortTypeCorrect`: `Spec => []TypeOK`; it needs that a count is at most twice the workers.
* `NobodyStartsAlone`: `Spec => []NeverSolo`. `SoloInv` adds what a count stands for: whoever
  is fresh or finished was heard of, `/done` is sent on a clean exit only, and a probe that
  saw `min_replicas` was made when somebody else had been heard of. The history `joined`
  survives a server restart, which is what a count remembered across one needs.
* `CohortStays`: `Spec => []CohortKept`, by `KeptInv`: as long as no fault happened, whoever
  was heard of is fresh or finished, the heartbeat thread beats until the exit, and nobody
  has left before `/done` was handled. The count may exceed the cohort (a late ping), so
  the last step is an inequality on the cardinality of a union.

**Relay** (`HubGatewayProofs`; `RelayAssumption`, with at least one relay).

* `HubIsSound`: `Spec => []HubSound`. While a commit is writing, the parts below `writing` are of the next
  step and the others of this one (`CommitInv`). A copy of the hub, taken without the lock, is
  of the revision read before it as long as no commit has begun since (`HubInv`): so a recheck that finds the
  same revision and a free lock vouches for it. A publication may still be torn, when the hub
  has run out of retries; `PublishedWhole` says so. `RelayInv` bounds what a relay keeps:
  the lemma `KeptNewest` about eviction, over any finite set of versions.
* `ChannelIsKept`: `Spec => ChannelKept`, that is, the channel implements `VersionRegister` (the end of a hub's copy is
  `Offer`, the end of a worker's fetch is `Take`, its restart is `Restart`, anything else stutters), and the
  newest version of a relay never falls while the relay lives. `PoolInv` has
  what a worker's fetch in pieces needs: it wants something that was offered, newer
  than what it holds.

**Gateway** (`HubGatewayProofs`; `GatewayAssumption`: finitely many requests).

* `GatewayLoadTrue`: `GatewaySpec => []LoadTrue`. `LoadInv` compares the counter with the set of requests
  under way at every replica, also one that is out of the table and may come back: what
  a retarget loses of the count is in the history `lost`, and never makes the counter exceed
  the requests.

**Stage weights** (`WaitersProofs`; `StageAssumption`: stages and files are numbered from 1).

* `WeightsAreWhole`: `WeightsSpec => []WeightsWhole`. `FetchInv` says that the files before the
  present one are those of the manifest read. `DirectoryInv` says, until somebody is killed in
  the midst of clearing, that manifest, fingerprint and shards are of one model while nobody
  clears, and that a process that has had the lock leaves what nobody touches again.
  `CalmInv` adds, for runs without crashes, that who waits has somebody to wait for, and that
  nobody clears when only one model was ever asked for.
* `WeightsReturnedWhole`: `WeightsSpec => ReturnedWhole`, and `FetchResumes`: `WeightsSpec => ResumeKeeps`. Without
  the exemption `~cut` the first is false, see `half_cleared`. Both are parts of `WeightsArrive`, whose
  third, `WaitEnds`, is liveness and only model-checked.

**Pipeline** (`SpliceProofs`; `SpliceAssumption`; any number of stages, waves, requests and frames).

* `StepsAlwaysAgree`: `Spec => []StepsAgree`. The schedulers run the same code on the same frames, so a
  stage is where its upstream neighbour was before the frames between them. `AgreeInv` says so:
  `After` is what one frame makes of a stage, and `Follows` that the frames of a link, in their
  order, turn the stage behind it into the one before it without a frame it does not expect.
  `Local` is what of a stage `After` works on; `wave_of` matters only for requests that are in
  the engine, since stage 0 forgets a request's wave earlier than the others do (`Unmapped`).
  The last stage of a lockstep pipeline samples, so it books before it could be told (`Ahead`).
  `OrderInv` (lockstep) and `WaveInv` (waves) say how many steps are under way and where; `ToldInv` says that
  in waves a request that ends at its length has left stage 0's engine, so that forgetting its wave changes
  nothing; `ArrivalInv`, that a request enters each engine once, which keeps its queues free of
  doubles (`EngineInv`). All this holds as long as no step of stage 0 raised, `BaseInv` always.
  `Keep` and `Path` are recursive functions: that they exist, and what they are for every sequence, is
  shown by taking the least number for which it fails (`SetInduction`, from the well-foundedness of the
  naturals), in the first two sections of the module.
* `TokensAlwaysTrue`: `Spec => TokensTrue`, that is `TokensInOrder` and the action property `EmbedsTrueToken`, by
  `JInv`: `IInv` with `TokenInv`. In lockstep (`SoloInv`) stage 0 books what it is told, and the tokens on the ring are
  stamped by the last stage's own rows and books, which `AgreeInv` makes those of stage 0 (`AllAlike`). In waves three
  records must agree that nobody compares: `NamesInv` says that the rows queued at the step are
  those of the hidden states and tokens still on the links, so `zip(rids, toks)` in `_absorb` pairs like with like; `CountInv`,
  that a follower has booked what stage 0 has, but for the step that is on its way to it, so the
  last stage's numbers are those of stage 0; `BooksInv`, that a live request is told all that is
  booked but for its row, and that one whose text ended, which is no longer live but still in
  the engine, has its abort queued for its wave, so that no step embeds a placeholder that nobody will replace.

**Rollout pool** (`RolloutPoolProofs`; `PoolAssumption`, with at least one learner; any number of workers,
learners, windows and faults).

* `RolloutsUsedOnce`: `Spec => []PoolSound`. `AtMostOnce` speaks of places (the queue, the late requests, the
  consumer, buffer and batch of every learner, the trained groups); `Travel` is the one lemma every
  step goes through: the groups of `X` come to one place, and every other place keeps its line,
  loses its first group or all of them, and has nothing of `X` left. `GroupInv` adds that a
  group in flight is in none of the places and that its number is new. `WorkInv` says
  where the next push of a learner begins: at the end of the last one that was folded in.
* `RolloutsAreFresh`: `Spec => []StampsFresh`. `FreshInv` follows a group from the test in `Collect` to its
  train step: a learner holds groups inside a window only, so the reference cannot move
  under them, except by the one background publish whose snapshot is still to be taken;
  while that is pending, the groups in hand are within `max_staleness` itself (`Behind`).

**Fragments** (`FragmentProofs`; `FragmentServerAssumption`, `FragmentAssumption`, `ReplicaAssumption`: the
window length is divisible by the number of fragments (`async_diloco.py:1769`, `replicas.py:239`), and there are at least as
many slots as a batch has groups).

* `IslandsAreSound`: `Spec => []IslandSound`, by `IslandInv`. Neither `Lockstep` nor `ShardsAgree` is inductive: they
  say nothing of the lead while it works alone, or between a rank's broadcast and its adoption.
  `PlaceInv` gives every place the collective the others wait in meanwhile (`Partner`), and
  says where ranks can be lost; `WordsInv`, that the lead's words are true of its exchange until
  all have adopted it; `EqualInv`, that the ranks count alike all the time.
* `RolloutsStayFresh`: `ReplicaSafety => []RolloutsFresh`, and `MergesStayApart`: `ReplicaSafety => MergesApart`
  (`ReplicaSafety` is the replica's specification without fairness). A bound on the age of a
  batch follows from slots, by way of `AgeInv`: the batches taken since a group was born, and the
  groups before it, fit in the slots with it (`Fits`), since a batch keeps its slots until its weights have
  been handed over (`SlotInv`). `HandoffInv` relates the generators' version to the trainer's: they
  lag by what is not handed over, and by nothing at a merge.
* `ExchangesAreSound`: `ClientsSpec => []ExchangesSound`, for an island and a replica alike.
  *Fit*: until the first restore the server's model only grows, and the client's baseline, what a push
  was computed against and what an answer brings are prefixes of it (`Grown`, with `GrowthInv` or `OriginInv`).
  *Once*: the work in the model is apart, and apart from what is late (`ApartInv`); the client counts a
  fragment's next work from a step by which all earlier work on it was done, also that of requests
  it gave up and that may still arrive (`DoneBy`, with `CountInv` or `OnceInv`). What an exchange does
  meanwhile is in `FlightInv`: after a push was dropped the island pushes nothing until it
  has pulled the whole model. A replica has no such resync, hence its `lost = {}`.
  *Whole*: `CycleInv` says that the fragments pushed in a window are the last `n` of the rotation, with
  `n` boundaries behind; so a window of `fragments` equal shares ends with every fragment pushed once.

**Only model-checked.** Everything temporal beyond invariants and action properties, since
liveness is out of the prover's reach. Of `CutsFit`, the fragments are proved, not the
stages, shards and spans; `RulesTame` (`Correction`, `Prototype`) is only checked, over bounded
inputs. Of these, the folds over their input need an induction of their own, by sets, each.

## 6. Not modelled

* Floating-point values: optimizers are linear maps (`OuterSteps`), the correction exact
  arithmetic (`Correction`), quantization integers (`Layout`); losses, rewards and advantages no
  property looks at.
* Local blending of fragments (`fragment_update_alpha` is 0, its default); `DiLoCoRLReplica`, whose exchange
  is the torchft library's; failures of actors inside push, pull or load; how long a group's
  generation takes.
* Lost links and crashed stages of a pipeline, its HTTP front end, the GPU engine.
* Argument parsing, the parsing of metrics, CSV files, plots and heat maps, logging;
  `async_trainer.py`, which is glue around the worker.
* Training recipes, model definitions, configuration registries, examples and deployment
  scripts: tables and library glue without state of their own.
* `src/archive` and `src/early_stage_code` hold four copies of the prototype, two as notebooks,
  12 700 lines of the repository's 33 800. One of them is modelled where it has control worth
  checking (`Simulator`, `Prototype`); the rest of it is a transformer, diagnostics and plots.
  These copies, the configuration and the docstrings are why the map covers a fifth of the
  lines, and most of the protocol code.
