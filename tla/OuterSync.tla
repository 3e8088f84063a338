------------------------------ MODULE OuterSync ------------------------------
(***************************************************************************)
(* The parameter server and its workers, whole-model protocol (one         *)
(* fragment, no grace window, no round): AsyncDiLoCoServer with its HTTP   *)
(* handler, checkpoint and delta-download ring, and the AsyncDiLoCo worker *)
(* that pushes a pseudo-gradient at the end of each window, adopts the     *)
(* reply, and re-baselines by a pull when an exchange failed.              *)
(*                                                                         *)
(* Model parameters are abstracted to the sequence of pushes folded into   *)
(* them: two models are equal iff the same pushes were applied in the same *)
(* order.  A snapshot is such a model together with the revision number    *)
(* the server sent with it.  inc (the server incarnation that built a      *)
(* snapshot) and exact are history: no guard reads them.                   *)
(*                                                                         *)
(* Definitions named Faulty... are plausible mistakes in the code: put in  *)
(* place of the definition that follows them, each breaks a property.      *)
(***************************************************************************)
EXTENDS Integers, FiniteSets, Sequences, SequencesExt

CONSTANTS
  Workers,        \* the islands
  Conns,          \* connection identities (bounds concurrent requests)
  NoConn,         \* "no connection"
  Variants,       \* snapshot variants the server builds (one for the base class)
  VariantOf,      \* which variant each worker is served
  DefaultVariant, \* the variant built for an unknown island
  MaxPushes,      \* bound: windows each worker completes
  MaxSessions,    \* max_sessions, the session semaphore
  BusyRetries,    \* busy_retries, how often a 503 is retried
  ServedMax,      \* _served_max, capacity of the delta ring
  DeltaRefresh,   \* _delta_refresh_every
  CheckpointEvery,\* checkpoint_every
  FaultPlans      \* bounds on each kind of fault, functions on FaultKinds

FaultKinds == {"call", "save", "server", "worker"}

ASSUME ConstAssumption ==
  /\ Workers # {} /\ NoConn \notin Conns
  /\ VariantOf \in [Workers -> Variants] /\ DefaultVariant \in Variants
  /\ MaxPushes \in Nat /\ MaxSessions \in Nat \ {0} /\ BusyRetries \in Nat
  /\ ServedMax \in Nat \ {0} /\ DeltaRefresh \in Nat
  /\ CheckpointEvery \in Nat \ {0}
  /\ FaultPlans \subseteq [FaultKinds -> Nat]

\* One of the plans allows the most failed saves.
ASSUME PlansAssumption == \E p \in FaultPlans : \A q \in FaultPlans : q["save"] <= p["save"]

VARIABLES
  model,       \* the authoritative parameters: pushes applied, in order
  revision,    \* _revision
  cache,       \* _snapshot_cache, per variant
  served,      \* _served: the ring of snapshots, in insertion order
  lastCkpt,    \* _last_checkpoint_revision
  disk,        \* the checkpoint file
  inc,         \* history: how often the server process was started
  streamOwner, \* which session holds _stream_lock
  conn,        \* the session on each connection
  baseline,    \* a worker's _global_params and _baseline_revision
  deltas,      \* _deltas_since_full
  resync,      \* _pending_resync
  call,        \* the connection a worker is blocked on
  attempt,     \* 503 retries made for the present call
  pushes,      \* history: windows the worker has turned into pushes
  faults       \* faults left, per kind

serverVars == <<model, revision, cache, served, lastCkpt, disk, inc, streamOwner>>
workerVars == <<baseline, deltas, resync, call, attempt, pushes>>
vars == <<serverVars, conn, workerVars, faults>>

Pushes == [worker: Workers, n: Nat]
Snapshots == [model: Seq(Pushes), revision: Nat, variant: Variants, inc: Nat, exact: BOOLEAN]
NoSnapshot == [model |-> <<>>, revision |-> 0, variant |-> DefaultVariant, inc |-> 0, exact |-> TRUE]

(***************************************************************************)
(* A session: one POST to /sync.  push = 0 is a pull-only request; basis   *)
(* is what the worker held when it built the request (its revision is the  *)
(* header's baseline_revision); offer is accept_delta; base is the         *)
(* snapshot the reply is encoded against (NoSnapshot: a full download).    *)
(*   free -> sent -> busy (503) | admitted -> [saving ->] ready            *)
(*        -> encoded -> answered, or closed when the exchange failed.      *)
(***************************************************************************)
Phases == {"free", "sent", "busy", "admitted", "saving", "ready", "encoded", "answered", "closed"}
SlotHeld == {"admitted", "saving", "ready", "encoded"}

Sessions ==
  [phase: Phases, worker: Workers, push: Nat, basis: Snapshots, offer: BOOLEAN,
   applied: BOOLEAN, reply: Snapshots, base: Snapshots]

FreeSession ==
  [phase |-> "free", worker |-> CHOOSE w \in Workers : TRUE, push |-> 0, basis |-> NoSnapshot,
   offer |-> FALSE, applied |-> FALSE, reply |-> NoSnapshot, base |-> NoSnapshot]

InPhase(c, phase) == conn[c].phase = phase
Waiting(c) == \E w \in Workers : call[w] = c
\* The session on c becomes s.
Become(c, s) == conn' = [conn EXCEPT ![c] = s]

PushOf(c) == [worker |-> conn[c].worker, n |-> conn[c].push]
HasBaseline(w) == baseline[w].inc # 0

Init ==
  /\ model = <<>> /\ revision = 0
  /\ cache = [v \in Variants |-> [built |-> FALSE, model |-> <<>>]]
  /\ served = <<>>
  /\ lastCkpt = 0 /\ disk = [model |-> <<>>, revision |-> 0]
  /\ inc = 1 /\ streamOwner = NoConn
  /\ conn = [c \in Conns |-> FreeSession]
  /\ baseline = [w \in Workers |-> NoSnapshot]
  /\ deltas = [w \in Workers |-> 0]
  /\ resync = [w \in Workers |-> FALSE]
  /\ call = [w \in Workers |-> NoConn]
  /\ attempt = [w \in Workers |-> 0]
  /\ pushes = [w \in Workers |-> 0]
  /\ faults \in FaultPlans

-----------------------------------------------------------------------------
(* The worker starts an exchange. *)

FaultyOffersDelta(w) == deltas[w] < DeltaRefresh
FaultyOfferAlways(w) == HasBaseline(w)

OffersDelta(w) == HasBaseline(w) /\ deltas[w] < DeltaRefresh

Request(w, c, push) ==
  /\ call[w] = NoConn
  /\ InPhase(c, "free")
  /\ Become(c, [FreeSession EXCEPT !.phase = "sent", !.worker = w, !.push = push,
                                   !.basis = baseline[w], !.offer = OffersDelta(w)])
  /\ call' = [call EXCEPT ![w] = c]
  /\ attempt' = [attempt EXCEPT ![w] = 0]
  /\ UNCHANGED <<serverVars, baseline, deltas, resync, faults>>

\* A window of local steps ends: push its pseudo-gradient.
StartPush(w, c) ==
  /\ HasBaseline(w) /\ ~resync[w]
  /\ pushes[w] < MaxPushes
  /\ pushes' = [pushes EXCEPT ![w] = @ + 1]
  /\ Request(w, c, pushes[w] + 1)

\* The initial pull, and the pull-only resync after a failed exchange.
StartPull(w, c) ==
  /\ ~HasBaseline(w) \/ resync[w]
  /\ Request(w, c, 0)
  /\ UNCHANGED pushes

-----------------------------------------------------------------------------
(* The server handles a request. *)

FreeSlots == MaxSessions - Cardinality({c \in Conns : conn[c].phase \in SlotHeld})

Admit(c) ==
  /\ InPhase(c, "sent")
  /\ FreeSlots > 0
  /\ Become(c, [conn[c] EXCEPT !.phase = "admitted"])
  /\ UNCHANGED <<serverVars, workerVars, faults>>

\* 503: nothing was read; a client that gave up will not ask again.
AnswerBusy(c) ==
  /\ InPhase(c, "sent")
  /\ FreeSlots <= 0
  /\ Become(c, IF Waiting(c) THEN [conn[c] EXCEPT !.phase = "busy"] ELSE FreeSession)
  /\ UNCHANGED <<serverVars, workerVars, faults>>

\* The request ends in a 500 (or a dropped socket) before anything is applied.
FailSession(c) ==
  /\ InPhase(c, "admitted")
  /\ faults["call"] > 0
  /\ faults' = [faults EXCEPT !["call"] = @ - 1]
  /\ Become(c, IF Waiting(c) THEN [conn[c] EXCEPT !.phase = "closed"] ELSE FreeSession)
  /\ UNCHANGED <<serverVars, workerVars>>

\* The flat parameters sent for variant v, through the cache ca, of model m.
SnapshotModel(v, m, ca) == IF ca[v].built THEN ca[v].model ELSE m

\* The variants differ once a default-variant worker's push has seeded the
\* momentum that the look-ahead is built from; until then they coincide.
Shown(v, m) ==
  IF \E i \in DOMAIN m : VariantOf[m[i].worker] = DefaultVariant THEN v ELSE DefaultVariant

FaultySnapshotLastSent(v, m, r, ca) ==
  [model |-> SnapshotModel(v, m, ca), variant |-> v, inc |-> inc, exact |-> TRUE,
   revision |-> IF ca[v].built /\ served # <<>> THEN served[Len(served)].revision ELSE r]

FaultySnapshotNextRevision(v, m, r, ca) ==
  [model |-> SnapshotModel(v, m, ca), revision |-> r + 1, variant |-> v, inc |-> inc, exact |-> TRUE]

Snapshot(v, m, r, ca) ==
  LET shown == SnapshotModel(v, m, ca) IN
  [model |-> shown, revision |-> r, variant |-> Shown(v, shown), inc |-> inc, exact |-> TRUE]

Cached(v, m, ca) == [ca EXCEPT ![v] = [built |-> TRUE, model |-> SnapshotModel(v, m, ca)]]

FaultyInvalidatedCache == cache

\* What a commit leaves of the snapshot cache: nothing.
InvalidatedCache == [v \in Variants |-> [built |-> FALSE, model |-> <<>>]]

\* The stale test reads only the revision number.
Stale(c) == conn[c].basis.revision > revision

HandlePull(c) ==
  /\ InPhase(c, "admitted")
  /\ conn[c].push = 0
  /\ LET v == VariantOf[conn[c].worker] IN
       /\ Become(c, [conn[c] EXCEPT !.phase = "ready",
                                    !.reply = Snapshot(v, model, revision, cache)])
       /\ cache' = Cached(v, model, cache)
  /\ UNCHANGED <<model, revision, served, lastCkpt, disk, inc, streamOwner, workerVars, faults>>

\* A stale push is answered with the current model and not applied.  This
\* reply is built without the island id, hence with the default variant.
HandleStalePush(c) ==
  /\ InPhase(c, "admitted")
  /\ conn[c].push # 0
  /\ streamOwner = NoConn
  /\ Stale(c)
  /\ Become(c, [conn[c] EXCEPT !.phase = "ready",
                               !.reply = Snapshot(DefaultVariant, model, revision, cache)])
  /\ cache' = Cached(DefaultVariant, model, cache)
  /\ UNCHANGED <<model, revision, served, lastCkpt, disk, inc, streamOwner, workerVars, faults>>

FaultyCheckpointDue == revision + 1 - lastCkpt > CheckpointEvery

CheckpointDue == revision + 1 - lastCkpt >= CheckpointEvery

\* Body read, outer step, snapshot and the claim of a due checkpoint, all in
\* the stream lock's critical section.
HandlePush(c) ==
  /\ InPhase(c, "admitted")
  /\ conn[c].push # 0
  /\ streamOwner = NoConn
  /\ ~Stale(c)
  /\ LET v   == VariantOf[conn[c].worker]
         m   == Append(model, PushOf(c))
         due == CheckpointDue
     IN
       /\ model' = m
       /\ revision' = revision + 1
       /\ cache' = Cached(v, m, InvalidatedCache)
       /\ Become(c, [conn[c] EXCEPT !.phase = IF due THEN "saving" ELSE "ready",
                                    !.applied = TRUE,
                                    !.reply = Snapshot(v, m, revision + 1, InvalidatedCache)])
       /\ lastCkpt' = IF due THEN revision + 1 ELSE lastCkpt
       /\ streamOwner' = IF due THEN c ELSE NoConn
  /\ UNCHANGED <<served, disk, inc, workerVars, faults>>

\* save_checkpoint: the file is replaced, or the save fails and is only logged.
SaveCheckpoint(c) ==
  /\ InPhase(c, "saving")
  /\ \/ disk' = [model |-> model, revision |-> revision] /\ UNCHANGED faults
     \/ /\ faults["save"] > 0
        /\ faults' = [faults EXCEPT !["save"] = @ - 1]
        /\ UNCHANGED disk
  /\ Become(c, [conn[c] EXCEPT !.phase = "ready"])
  /\ streamOwner' = NoConn
  /\ UNCHANGED <<model, revision, cache, served, lastCkpt, inc, workerVars>>

FaultyRetainedAt(r) == {i \in DOMAIN served : served[i].revision <= r}

RetainedAt(r) == {i \in DOMAIN served : served[i].revision = r}

\* Choose the body: a delta against the retained snapshot of the revision
\* the worker named, or the full model.
EncodeReply(c) ==
  /\ InPhase(c, "ready")
  /\ LET held == RetainedAt(conn[c].basis.revision)
         base == IF conn[c].offer /\ held # {} THEN served[CHOOSE i \in held : TRUE]
                                               ELSE NoSnapshot
     IN Become(c, [conn[c] EXCEPT !.phase = "encoded", !.base = base])
  /\ UNCHANGED <<serverVars, workerVars, faults>>

\* _served[revision] = snapshot: an existing key keeps its place in the
\* order, a new one goes last, and the oldest insertion is evicted.
Retain(s) ==
  LET held == RetainedAt(s.revision)
      ring == IF held # {} THEN [i \in DOMAIN served |-> IF i \in held THEN s ELSE served[i]]
                           ELSE Append(served, s)
  IN  IF Len(ring) > ServedMax THEN Tail(ring) ELSE ring

FaultyFinished(c) == IF Waiting(c) THEN [conn[c] EXCEPT !.phase = "answered"] ELSE conn[c]

Finished(c) == IF Waiting(c) THEN [conn[c] EXCEPT !.phase = "answered"] ELSE FreeSession

\* Retain the snapshot, write the reply and release the session slot.
SendReply(c) ==
  /\ InPhase(c, "encoded")
  /\ served' = Retain(conn[c].reply)
  /\ Become(c, Finished(c))
  /\ UNCHANGED <<model, revision, cache, lastCkpt, disk, inc, streamOwner, workerVars, faults>>

\* The server process dies and a new one starts from the checkpoint file.
\* Every connection breaks; the ring and the cache were in memory only.
ServerRestart ==
  /\ faults["server"] > 0
  /\ faults' = [faults EXCEPT !["server"] = @ - 1]
  /\ model' = disk.model /\ revision' = disk.revision
  /\ lastCkpt' = disk.revision
  /\ cache' = InvalidatedCache /\ served' = <<>>
  /\ inc' = inc + 1 /\ streamOwner' = NoConn
  /\ conn' = [c \in Conns |->
       IF Waiting(c) THEN [conn[c] EXCEPT !.phase = "closed"] ELSE FreeSession]
  /\ UNCHANGED <<disk, workerVars>>

-----------------------------------------------------------------------------
(* The worker's exchange ends. *)

EndCall(w) ==
  /\ call' = [call EXCEPT ![w] = NoConn]
  /\ attempt' = [attempt EXCEPT ![w] = 0]

\* A full download replaces the baseline; a delta is added to it, which
\* reproduces the server's snapshot iff both sides start from the same base.
Rebuilt(held, base, reply) ==
  IF base = NoSnapshot \/ base = held THEN reply ELSE [reply EXCEPT !.exact = FALSE]

\* Applied or rejected, the reply is adopted wholesale.
Adopt(w) ==
  LET s == conn[call[w]] IN
  /\ call[w] # NoConn
  /\ s.phase = "answered"
  /\ baseline' = [baseline EXCEPT ![w] = Rebuilt(@, s.base, s.reply)]
  /\ deltas' = [deltas EXCEPT ![w] = IF s.base = NoSnapshot THEN 0 ELSE @ + 1]
  /\ resync' = [resync EXCEPT ![w] = FALSE]
  /\ EndCall(w)
  /\ Become(call[w], FreeSession)
  /\ UNCHANGED <<serverVars, pushes, faults>>

FaultyMayRetry(w) == attempt[w] <= BusyRetries

MayRetry(w) == attempt[w] < BusyRetries

\* 503: wait and send the same request again.
RetryBusy(w) ==
  /\ call[w] # NoConn
  /\ InPhase(call[w], "busy")
  /\ MayRetry(w)
  /\ attempt' = [attempt EXCEPT ![w] = @ + 1]
  /\ Become(call[w], [conn[call[w]] EXCEPT !.phase = "sent"])
  /\ UNCHANGED <<serverVars, baseline, deltas, resync, call, pushes, faults>>

\* The push is sent again in the next window.
FaultyDropExchange(w) ==
  /\ pushes' = [pushes EXCEPT ![w] = IF conn[call[w]].push # 0 THEN @ - 1 ELSE @]
  /\ EndCall(w)
  /\ UNCHANGED <<serverVars, baseline, deltas, resync>>

\* What the worker does about a failed exchange: drop it, never repeat it,
\* and re-baseline by a pull.
DropExchange(w) ==
  /\ resync' = [resync EXCEPT ![w] = HasBaseline(w)]
  /\ EndCall(w)
  /\ UNCHANGED <<serverVars, baseline, deltas, pushes>>

\* The exchange failed on the wire: 500, reset, or 503 once too often.
CallFails(w) ==
  /\ call[w] # NoConn
  /\ \/ InPhase(call[w], "closed")
     \/ InPhase(call[w], "busy") /\ ~MayRetry(w)
  /\ Become(call[w], FreeSession)
  /\ DropExchange(w)
  /\ UNCHANGED faults

\* The worker's socket times out or breaks.  The server does not notice: a
\* request it has is still carried out, and a reply already sent is lost.
CallTimesOut(w) ==
  /\ call[w] # NoConn
  /\ conn[call[w]].phase \in SlotHeld \cup {"sent", "answered"}
  /\ faults["call"] > 0
  /\ faults' = [faults EXCEPT !["call"] = @ - 1]
  /\ Become(call[w], IF InPhase(call[w], "answered") THEN FreeSession ELSE conn[call[w]])
  /\ DropExchange(w)

\* The worker process dies and starts again without a baseline.
WorkerRestart(w) ==
  /\ faults["worker"] > 0
  /\ faults' = [faults EXCEPT !["worker"] = @ - 1]
  /\ baseline' = [baseline EXCEPT ![w] = NoSnapshot]
  /\ deltas' = [deltas EXCEPT ![w] = 0]
  /\ resync' = [resync EXCEPT ![w] = FALSE]
  /\ EndCall(w)
  /\ conn' = [c \in Conns |->
       IF c = call[w] /\ conn[c].phase \in {"busy", "answered", "closed"}
       THEN FreeSession ELSE conn[c]]
  /\ UNCHANGED <<serverVars, pushes>>

-----------------------------------------------------------------------------
ServerStep(c) ==
  \/ Admit(c) \/ AnswerBusy(c)
  \/ HandlePull(c) \/ HandleStalePush(c) \/ HandlePush(c)
  \/ SaveCheckpoint(c) \/ EncodeReply(c) \/ SendReply(c)

WorkerStep(w) == Adopt(w) \/ RetryBusy(w) \/ CallFails(w)

Next ==
  \/ \E w \in Workers, c \in Conns : StartPush(w, c) \/ StartPull(w, c)
  \/ \E c \in Conns : ServerStep(c) \/ FailSession(c)
  \/ \E w \in Workers : WorkerStep(w) \/ CallTimesOut(w) \/ WorkerRestart(w)
  \/ ServerRestart

Spec == Init /\ [][Next]_vars

(***************************************************************************)
(* Handler threads and training loops keep running: a step of a session or *)
(* of a worker that stays possible is taken.  Faults need not happen.      *)
(***************************************************************************)
Fairness ==
  /\ \A c \in Conns : WF_vars(ServerStep(c))
  /\ \A w \in Workers :
       /\ WF_vars(WorkerStep(w))
       /\ WF_vars(\E c \in Conns : StartPush(w, c) \/ StartPull(w, c))

FairSpec == Spec /\ Fairness

-----------------------------------------------------------------------------
(* Properties. *)

\* Every variable has its type.
TypeOK ==
  /\ model \in Seq(Pushes) /\ revision \in Nat
  /\ cache \in [Variants -> [built: BOOLEAN, model: Seq(Pushes)]]
  /\ served \in Seq(Snapshots)
  /\ lastCkpt \in Nat /\ disk \in [model: Seq(Pushes), revision: Nat]
  /\ inc \in Nat \ {0} /\ streamOwner \in Conns \cup {NoConn}
  /\ conn \in [Conns -> Sessions]
  /\ baseline \in [Workers -> Snapshots]
  /\ deltas \in [Workers -> Nat]
  /\ resync \in [Workers -> BOOLEAN]
  /\ call \in [Workers -> Conns \cup {NoConn}]
  /\ attempt \in [Workers -> 0..BusyRetries]
  /\ pushes \in [Workers -> 0..MaxPushes]
  /\ faults \in [FaultKinds -> Nat]

NoRepeat(log) == \A i, j \in DOMAIN log : log[i] = log[j] => i = j

\* A pseudo-gradient is folded into the model at most once, whatever is
\* retried, lost, late or restored (_sync's "can't be applied twice").
AtMostOnce == NoRepeat(model)

IsPast(s) == s.revision <= revision /\ s.model = SubSeq(model, 1, s.revision)

Faithful(s) == s.inc = inc /\ s.exact => IsPast(s)

\* A snapshot this server process handed out, in a reply, in the ring or
\* with a worker, is the model it had at the revision it is labelled with:
\* never a stale cache entry under a new number.
SnapshotFaithful ==
  /\ \A c \in Conns : Faithful(conn[c].reply)
  /\ \A i \in DOMAIN served : Faithful(served[i])
  /\ \A w \in Workers : Faithful(baseline[w])

PendingPush(c) == conn[c].phase \in {"sent", "busy", "admitted"} /\ conn[c].push # 0

\* A push the stale test lets through was computed against a model that the
\* server's present model extends (the class docstring's continuity), as long
\* as the server has not been restored: revisions are then used again.
PushContinuity ==
  inc = 1 => \A c \in Conns : PendingPush(c) /\ ~Stale(c) =>
    conn[c].basis.exact /\ IsPrefix(conn[c].basis.model, model)

\* Adding a delta to what the worker holds gives what the server meant: the
\* delta is computed against the snapshot served at the named revision.  A
\* restored server's ring may pair a worker's old snapshot with a new one.
DeltaExact == inc = 1 => \A w \in Workers : baseline[w].exact

\* A wrong baseline cannot outlive the refresh: it came from at most
\* DeltaRefresh deltas in a row, the next download is a full one.
SkewBounded == \A w \in Workers : deltas[w] <= DeltaRefresh /\ (~baseline[w].exact => deltas[w] > 0)

\* Only a baseline of an earlier server process is ever rejected as stale.
RejectOnlyAfterRestore ==
  \A c \in Conns : PendingPush(c) /\ Stale(c) => conn[c].basis.inc < inc

\* At most so many saves have failed.
FailedSaves == Max({p["save"] : p \in FaultPlans}) - faults["save"]

\* The checkpoint is a state this server passed through, and it misses fewer
\* than CheckpointEvery commits for each save that failed, and one more
\* interval; a commit whose checkpoint is being written may be missing too.
CheckpointLag ==
  /\ disk.revision <= revision
  /\ disk.model = SubSeq(model, 1, disk.revision)
  /\ revision - disk.revision <
       CheckpointEvery * (1 + FailedSaves) + (IF streamOwner = NoConn THEN 0 ELSE 1)

\* What workers, the ring and the file hold stays close to the model: pushes
\* fit it, deltas fit the baselines they are added to, a wrong baseline is
\* refreshed in time, and the checkpoint is not far behind.
HeldSound == TypeOK /\ PushContinuity /\ DeltaExact /\ SkewBounded /\ CheckpointLag

\* Between two adoptions from the same server process a worker never goes
\* back to an older revision, late replies and retries included.
BaselineAdvances ==
  [][\A w \in Workers :
       baseline'[w].inc = baseline[w].inc => baseline'[w].revision >= baseline[w].revision]_vars

\* A push still on its way, in a session or waiting out a 503.
Undecided(p) == \E c \in Conns : PendingPush(c) /\ PushOf(c) = p

AllPushes == [worker: Workers, n: 1..MaxPushes]

Spent == {p \in AllPushes : p.n <= pushes[p.worker] /\ ~Undecided(p)}

PL == INSTANCE PushLog WITH Push <- AllPushes, log <- model, saved <- disk.model, spent <- Spent

\* The server implements the push log.
PushLogSpec == PL!Spec

-----------------------------------------------------------------------------
(* Inductive strengthenings of AtMostOnce and SnapshotFaithful. *)

Absent(p, log) == \A i \in DOMAIN log : log[i] # p

Issued(log) == \A i \in DOMAIN log : log[i].n \in 1..pushes[log[i].worker]

\* A push on its way is in no log yet, and travels on one connection only.
OnceInv ==
  /\ Issued(model) /\ Issued(disk.model)
  /\ NoRepeat(model) /\ NoRepeat(disk.model)
  /\ \A c \in Conns : PendingPush(c) =>
       /\ conn[c].push <= pushes[conn[c].worker]
       /\ Absent(PushOf(c), model) /\ Absent(PushOf(c), disk.model)
  /\ \A c, d \in Conns :
       PendingPush(c) /\ PendingPush(d) /\ PushOf(c) = PushOf(d) => c = d

\* A snapshot is not from the future of the process that built it.
Dated(s) == s.inc <= inc /\ (s.inc = inc => s.revision <= revision)

Genuine(s) == Dated(s) /\ Faithful(s)

FaithInv ==
  /\ revision = Len(model) /\ disk.revision = Len(disk.model)
  /\ \A v \in Variants : cache[v].built => cache[v].model = model
  /\ \A c \in Conns : Genuine(conn[c].reply) /\ Genuine(conn[c].basis)
  /\ \A i \in DOMAIN served : Genuine(served[i])
  /\ \A w \in Workers : Genuine(baseline[w])

(* Inductive strengthenings of HeldSound and BaselineAdvances. *)

\* A snapshot is a server's, or the placeholder for none.
Real(s) == s.inc # 0 \/ s = NoSnapshot

\* The session a worker waits on is its own and carries what the worker holds.
CallInv ==
  \A w \in Workers : call[w] # NoConn =>
    LET s == conn[call[w]] IN
    /\ s.phase # "free" /\ s.worker = w /\ s.basis = baseline[w]
    /\ s.offer => deltas[w] < DeltaRefresh

Replied == {"saving", "ready", "encoded", "answered"}

\* A reply is at least as new as what the worker held when it asked.
GoodSession(s) ==
  /\ s.reply.exact /\ Real(s.basis)
  /\ s.base # NoSnapshot => s.offer
  /\ s.offer => s.basis.inc # 0
  /\ s.phase \in Replied =>
       /\ s.reply.inc # 0
       /\ s.reply.inc = s.basis.inc => s.reply.revision >= s.basis.revision

ReplyInv ==
  /\ \A c \in Conns : GoodSession(conn[c])
  /\ \A i \in DOMAIN served : served[i].exact /\ served[i].inc # 0
  /\ \A w \in Workers : Real(baseline[w])

ExactSession(s) == s.basis.exact /\ s.base \in {NoSnapshot, s.basis}

\* Before any restore the delta base the server finds is what the worker holds.
ExactInv ==
  inc = 1 => /\ \A w \in Workers : baseline[w].exact
             /\ \A c \in Conns : ExactSession(conn[c])

\* The claimed checkpoint runs ahead of the file by an interval for each
\* failed save, and by one more while the stream lock is held to write it.
LagInv ==
  /\ disk.revision <= revision /\ disk.model = SubSeq(model, 1, disk.revision)
  /\ \A c \in Conns : conn[c].phase = "saving" => streamOwner = c
  /\ lastCkpt <= revision /\ revision - lastCkpt < CheckpointEvery
  /\ streamOwner # NoConn => revision = lastCkpt
  /\ FailedSaves >= 0
  /\ lastCkpt - disk.revision <=
       CheckpointEvery * FailedSaves + (IF streamOwner = NoConn THEN 0 ELSE CheckpointEvery)

-----------------------------------------------------------------------------
\* Every worker gets through all its windows and ends with a baseline it may
\* train on: no call, no resync and no session slot is held for ever.
TrainingCompletes ==
  <>[](\A w \in Workers : pushes[w] = MaxPushes /\ call[w] = NoConn /\ HasBaseline(w) /\ ~resync[w])
=============================================================================
