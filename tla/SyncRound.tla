------------------------------ MODULE SyncRound ------------------------------
(***************************************************************************)
(* Aggregation under the parameter server's condition variable: the grace  *)
(* window (RoundSize = 0: a batch closes at its deadline and every arrival *)
(* is an outer step of its own) and the synchronous round (RoundSize =     *)
(* sync_workers: a batch closes at that many arrivals, and their mean is   *)
(* one outer step).  Handler threads enter the batch, sleep on _grace_cond *)
(* and elect a processor; workers push, adopt, give up and resync as in    *)
(* OuterSync.  There is no restart here, so a revision names a model.      *)
(*                                                                         *)
(* Definitions named Faulty... are plausible mistakes in the code: put in  *)
(* place of the definition that follows them, each breaks a property.      *)
(***************************************************************************)
EXTENDS Integers, FiniteSets, Sequences

CONSTANTS
  Workers, Conns, NoConn,
  Batches, NoBatch,  \* identities of _GraceBatch objects
  Scenarios          \* the settings looked at, with their bounds

ASSUME RoundAssumption ==
  /\ IsFiniteSet(Workers) /\ Workers # {}
  /\ IsFiniteSet(Conns) /\ IsFiniteSet(Batches)
  /\ NoConn \notin Conns /\ NoBatch \notin Batches
  /\ Cardinality(Conns) <= Cardinality(Batches)
  /\ Scenarios \subseteq [round: Nat, sessions: Nat \ {0}, windows: [Workers -> Nat], call: Nat, step: Nat, abandoned: {FALSE}]

VARIABLES
  steps,     \* the outer steps committed, each the pushes averaged in it
  current,   \* _grace_batch, the batch that is open
  batch,     \* the _GraceBatch objects
  conn,      \* the session on each connection
  baseline,  \* the revision a worker holds (-1: none yet)
  resync, call,
  windows,   \* windows a worker has finished, by a push or by a resync
  scenario   \* sync_workers, max_sessions, the windows each worker trains, and the calls
             \* that time out and the batches whose processing raises still to come

roundVars == <<steps, current, batch>>
workerVars == <<baseline, resync, call, windows>>
vars == <<roundVars, conn, workerVars, scenario>>

RoundSize == scenario.round   \* sync_workers; 0: the grace window
revision == Len(steps)

\* A pseudo-gradient: its window, and the revision it was computed against.
Grads == [worker: Workers, n: Nat, basis: Nat]

EmptyBatch ==
  [grads |-> <<>>, expired |-> FALSE, claimed |-> FALSE, done |-> FALSE, error |-> FALSE,
   revision |-> 0]

(***************************************************************************)
(* A session: free -> sent -> admitted -> waiting | applying -> snapped    *)
(* -> published -> answered, or closed when it failed.  awake: not blocked *)
(* in _grace_cond.wait().                                                  *)
(***************************************************************************)
Phases == {"free", "sent", "admitted", "waiting", "applying", "snapped", "published", "answered",
           "closed"}
SlotHeld == {"admitted", "waiting", "applying", "snapped", "published"}

FreeSession ==
  [phase |-> "free", worker |-> CHOOSE w \in Workers : TRUE, push |-> 0, basis |-> 0,
   batch |-> NoBatch, awake |-> TRUE, applied |-> 0, revision |-> 0]

InPhase(c, phase) == conn[c].phase = phase
Waiting(c) == \E w \in Workers : call[w] = c
Become(c, s) == conn' = [conn EXCEPT ![c] = s]
HasBaseline(w) == baseline[w] >= 0

\* The session after an error: the 500 reaches whoever still waits for it.
Closed(c) == IF Waiting(c) THEN [conn[c] EXCEPT !.phase = "closed", !.batch = NoBatch, !.applied = 0]
                           ELSE FreeSession

Init ==
  /\ steps = <<>> /\ current = NoBatch
  /\ batch = [b \in Batches |-> EmptyBatch]
  /\ conn = [c \in Conns |-> FreeSession]
  /\ baseline = [w \in Workers |-> -1]
  /\ resync = [w \in Workers |-> FALSE]
  /\ call = [w \in Workers |-> NoConn]
  /\ windows = [w \in Workers |-> 0]
  /\ scenario \in Scenarios

-----------------------------------------------------------------------------
(* Workers. *)

FaultyMoreWindows(w) == windows[w] <= scenario.windows[w]

MoreWindows(w) == windows[w] < scenario.windows[w]

Request(w, c, push) ==
  /\ call[w] = NoConn
  /\ InPhase(c, "free")
  /\ Become(c, [FreeSession EXCEPT !.phase = "sent", !.worker = w, !.push = push,
                                   !.basis = IF HasBaseline(w) THEN baseline[w] ELSE 0])
  /\ call' = [call EXCEPT ![w] = c]
  /\ UNCHANGED <<roundVars, baseline, resync, scenario>>

StartPush(w, c) ==
  /\ HasBaseline(w) /\ ~resync[w]
  /\ MoreWindows(w)
  /\ windows' = [windows EXCEPT ![w] = @ + 1]
  /\ Request(w, c, windows[w] + 1)

InitialPull(w, c) ==
  /\ ~HasBaseline(w)
  /\ scenario.windows[w] > 0   \* the worker takes part
  /\ Request(w, c, 0)
  /\ UNCHANGED windows

\* The window after a failed exchange pushes nothing: it ends in a pull.
Resync(w, c) ==
  /\ resync[w]
  /\ MoreWindows(w)
  /\ windows' = [windows EXCEPT ![w] = @ + 1]
  /\ Request(w, c, 0)

StartCall(w, c) == StartPush(w, c) \/ InitialPull(w, c) \/ Resync(w, c)

Adopt(w) ==
  /\ call[w] # NoConn
  /\ InPhase(call[w], "answered")
  /\ baseline' = [baseline EXCEPT ![w] = conn[call[w]].revision]
  /\ resync' = [resync EXCEPT ![w] = FALSE]
  /\ call' = [call EXCEPT ![w] = NoConn]
  /\ Become(call[w], FreeSession)
  /\ UNCHANGED <<roundVars, windows, scenario>>

\* A failed exchange is dropped and re-baselined by a pull.
DropExchange(w) ==
  /\ resync' = [resync EXCEPT ![w] = HasBaseline(w)]
  /\ call' = [call EXCEPT ![w] = NoConn]
  /\ UNCHANGED <<roundVars, baseline, windows>>

CallFails(w) ==
  /\ call[w] # NoConn
  /\ InPhase(call[w], "closed")
  /\ Become(call[w], FreeSession)
  /\ DropExchange(w)
  /\ UNCHANGED scenario

\* The worker gives up; the handler thread keeps going, or keeps sleeping.
CallTimesOut(w) ==
  /\ call[w] # NoConn
  /\ conn[call[w]].phase \in SlotHeld \cup {"sent", "answered"}
  /\ scenario.call > 0
  /\ scenario' = [scenario EXCEPT !.call = @ - 1, !.abandoned = TRUE]
  /\ Become(call[w], IF InPhase(call[w], "answered") THEN FreeSession ELSE conn[call[w]])
  /\ DropExchange(w)

-----------------------------------------------------------------------------
(* Handler threads. *)

FreeSlots == scenario.sessions - Cardinality({c \in Conns : conn[c].phase \in SlotHeld})

Admit(c) ==
  /\ InPhase(c, "sent")
  /\ FreeSlots > 0
  /\ Become(c, [conn[c] EXCEPT !.phase = "admitted"])
  /\ UNCHANGED <<roundVars, workerVars, scenario>>

\* 503 and no retry left (the retries before that change nothing).
RefuseBusy(c) ==
  /\ InPhase(c, "sent")
  /\ FreeSlots <= 0
  /\ Become(c, Closed(c))
  /\ UNCHANGED <<roundVars, workerVars, scenario>>

HandlePull(c) ==
  /\ InPhase(c, "admitted")
  /\ conn[c].push = 0
  /\ Become(c, [conn[c] EXCEPT !.phase = "published", !.revision = revision])
  /\ UNCHANGED <<roundVars, workerVars, scenario>>

FaultyComplete(b) ==
  IF RoundSize > 0 THEN Len(b.grads) >= RoundSize - 1 ELSE b.expired

\* What closes an unclaimed batch: its deadline, or the arrival of its last member.
Complete(b) == IF RoundSize > 0 THEN Len(b.grads) >= RoundSize ELSE b.expired

FaultyDetached(b) == current

\* The open batch once b is claimed: late arrivals open a fresh one.
Detached(b) == NoBatch

\* The session on c in batch b with content x, at the head of its wait loop.
InLoop(c, b, x) ==
  IF ~x.claimed /\ Complete(x) THEN [conn[c] EXCEPT !.phase = "applying", !.batch = b]
  ELSE [conn[c] EXCEPT !.phase = "waiting", !.batch = b, !.awake = FALSE]

FaultyElected(x) == x

\* The batch after a thread looked at it: claimed if it is complete.
Elected(x) == [x EXCEPT !.claimed = @ \/ Complete(x)]

\* notify_all: every sleeper is woken, whatever its batch.
Notified(cn) == [d \in Conns |-> [cn[d] EXCEPT !.awake = TRUE]]

Woken(cn) == IF RoundSize > 0 THEN Notified(cn) ELSE cn

\* One critical section: join the open batch or open one, then wait or claim.
\* Only the round wakes the others here.
EnterBatch(c) ==
  /\ InPhase(c, "admitted")
  /\ conn[c].push # 0
  /\ \E b \in Batches :
       /\ IF current # NoBatch THEN b = current
          ELSE b = CHOOSE f \in Batches : \A d \in Conns : conn[d].batch # f
       /\ LET g == [worker |-> conn[c].worker, n |-> conn[c].push, basis |-> conn[c].basis]
              x == [batch[b] EXCEPT !.grads = Append(@, g)]
          IN  /\ batch' = [batch EXCEPT ![b] = Elected(x)]
              /\ current' = IF Elected(x).claimed THEN Detached(b) ELSE b
              /\ conn' = [Woken(conn) EXCEPT ![c] = InLoop(c, b, x)]
  /\ UNCHANGED <<steps, workerVars, scenario>>

\* The deadline passes: every wait of the batch times out.
Expire(b) ==
  /\ RoundSize = 0
  /\ batch[b].grads # <<>> /\ ~batch[b].expired
  /\ batch' = [batch EXCEPT ![b].expired = TRUE]
  /\ conn' = [c \in Conns |-> IF conn[c].batch = b THEN [conn[c] EXCEPT !.awake = TRUE] ELSE conn[c]]
  /\ UNCHANGED <<steps, current, workerVars, scenario>>

FaultyDone(x) == x.claimed

Done(x) == x.done

\* Batches no thread refers to are gone.
Collected(bs, cn) ==
  [b \in Batches |-> IF \E c \in Conns : cn[c].batch = b THEN bs[b] ELSE EmptyBatch]

\* A woken thread looks at its batch: published, failed, claimed by another,
\* its own to claim, or still open.
Wake(c) ==
  /\ InPhase(c, "waiting") /\ conn[c].awake
  /\ LET b == conn[c].batch
         x == batch[b]
         out == IF x.error THEN Closed(c)
                ELSE [conn[c] EXCEPT !.phase = "published", !.revision = x.revision, !.batch = NoBatch]
     IN  IF Done(x)
         THEN /\ Become(c, out)
              /\ batch' = Collected(batch, [conn EXCEPT ![c] = out])
              /\ UNCHANGED current
         ELSE /\ Become(c, InLoop(c, b, x))
              /\ batch' = [batch EXCEPT ![b] = Elected(x)]
              /\ current' = IF Elected(x).claimed /\ ~x.claimed THEN Detached(b) ELSE current
  /\ UNCHANGED <<steps, workerVars, scenario>>

\* The next outer step of a batch: the mean of the round, or one arrival.
NextStep(grads, n) == IF RoundSize > 0 THEN grads ELSE <<grads[n + 1]>>

\* How far into the batch its processor is.
AppliedBy(grads, n) == IF RoundSize > 0 THEN Len(grads) ELSE n + 1

ApplyNext(c) ==
  LET grads == batch[conn[c].batch].grads
      n     == conn[c].applied
  IN
  /\ InPhase(c, "applying")
  /\ n < Len(grads)
  /\ steps' = Append(steps, NextStep(grads, n))
  /\ Become(c, [conn[c] EXCEPT !.applied = AppliedBy(grads, n)])
  /\ UNCHANGED <<current, batch, workerVars, scenario>>

\* The snapshot all members get; other processors may have committed since.
TakeSnapshot(c) ==
  LET b == conn[c].batch IN
  /\ InPhase(c, "applying")
  /\ conn[c].applied = Len(batch[b].grads)
  /\ batch' = [batch EXCEPT ![b].revision = revision]
  /\ Become(c, [conn[c] EXCEPT !.phase = "snapped", !.revision = revision])
  /\ UNCHANGED <<steps, current, workerVars, scenario>>

Published(x, error) == [x EXCEPT !.done = TRUE, !.error = error]

FaultyNotifyWaiters(cn) == cn

NotifyWaiters(cn) == Notified(cn)

\* _grace_batch_publish by the processor on c, which then goes on as s.
PublishAs(c, s, error) ==
  LET b  == conn[c].batch
      cn == NotifyWaiters([conn EXCEPT ![c] = s])
  IN  /\ conn' = cn
      /\ batch' = Collected([batch EXCEPT ![b] = Published(@, error)], cn)
      /\ UNCHANGED <<steps, current, workerVars>>

Publish(c) ==
  /\ InPhase(c, "snapped")
  /\ PublishAs(c, [conn[c] EXCEPT !.phase = "published", !.batch = NoBatch, !.applied = 0], FALSE)
  /\ UNCHANGED scenario

\* Processing raises, after none, some or all of the outer steps.
FailProcessing(c) ==
  /\ InPhase(c, "applying")
  /\ scenario.step > 0
  /\ scenario' = [scenario EXCEPT !.step = @ - 1]
  /\ PublishAs(c, Closed(c), TRUE)

SendReply(c) ==
  /\ InPhase(c, "published")
  /\ Become(c, IF Waiting(c) THEN [conn[c] EXCEPT !.phase = "answered"] ELSE FreeSession)
  /\ UNCHANGED <<roundVars, workerVars, scenario>>

-----------------------------------------------------------------------------
ServerStep(c) ==
  \/ Admit(c) \/ RefuseBusy(c) \/ HandlePull(c) \/ EnterBatch(c) \/ Wake(c)
  \/ ApplyNext(c) \/ TakeSnapshot(c) \/ Publish(c) \/ SendReply(c)

WorkerStep(w) == Adopt(w) \/ CallFails(w)

Next ==
  \/ \E w \in Workers, c \in Conns : StartCall(w, c)
  \/ \E w \in Workers : WorkerStep(w) \/ CallTimesOut(w)
  \/ \E c \in Conns : ServerStep(c) \/ FailProcessing(c)
  \/ \E b \in Batches : Expire(b)

Spec == Init /\ [][Next]_vars

(***************************************************************************)
(* Threads and training loops keep running and time passes.  Calls need    *)
(* not time out and processing need not fail.                              *)
(***************************************************************************)
Fairness ==
  /\ \A c \in Conns : WF_vars(ServerStep(c))
  /\ \A b \in Batches : WF_vars(Expire(b))
  /\ \A w \in Workers :
       /\ WF_vars(WorkerStep(w))
       /\ WF_vars(\E c \in Conns : StartCall(w, c))

FairSpec == Spec /\ Fairness

-----------------------------------------------------------------------------
(* Properties. *)

Sessions ==
  [phase: Phases, worker: Workers, push: Nat, basis: Nat, batch: Batches \cup {NoBatch},
   awake: BOOLEAN, applied: Nat, revision: Nat]

BatchObjects ==
  [grads: Seq(Grads), expired: BOOLEAN, claimed: BOOLEAN, done: BOOLEAN, error: BOOLEAN,
   revision: Nat]

\* Every variable has its type.
TypeOK ==
  /\ steps \in Seq(Seq(Grads))
  /\ current \in Batches \cup {NoBatch}
  /\ batch \in [Batches -> BatchObjects]
  /\ conn \in [Conns -> Sessions]
  /\ baseline \in [Workers -> Int]
  /\ resync \in [Workers -> BOOLEAN]
  /\ call \in [Workers -> Conns \cup {NoConn}]
  /\ \A w \in Workers : windows[w] \in 0..scenario.windows[w]

\* A round is one outer step over exactly RoundSize pushes, whoever is late
\* or leaves (sync_workers: "exactly sync_workers pseudo-gradients").
RoundsWhole == RoundSize > 0 => \A i \in DOMAIN steps : Len(steps[i]) = RoundSize

\* No pseudo-gradient is in two outer steps, nor twice in one: a batch is
\* processed by one thread, and a dropped push is not sent again.
AppliedOnce ==
  \A i, j \in DOMAIN steps : \A k \in DOMAIN steps[i], l \in DOMAIN steps[j] :
    steps[i][k].worker = steps[j][l].worker /\ steps[i][k].n = steps[j][l].n => i = j /\ k = l

InSteps(c, r) ==
  \E i \in 1..r : \E k \in DOMAIN steps[i] :
    steps[i][k].worker = conn[c].worker /\ steps[i][k].n = conn[c].push

\* A member of a batch that is told "applied" gets a revision that exists
\* and contains its push, whichever thread did the processing.
ReplyShowsPush ==
  \A c \in Conns : conn[c].phase \in {"published", "answered"} =>
    conn[c].revision <= revision /\ (conn[c].push # 0 => InSteps(c, conn[c].revision))

\* All pushes averaged in one round were computed against one model
\* (sync_workers: "all K workers dispatched from the same global model"), as
\* long as nobody gave up a call that still waits in a round.
OneModelPerRound ==
  RoundSize > 0 /\ ~scenario.abandoned => \A i \in DOMAIN steps : \A k, l \in DOMAIN steps[i] :
    steps[i][k].basis = steps[i][l].basis

\* A thread that claimed its batch is the only one to process it, and the
\* open batch is unclaimed.
OneProcessor ==
  /\ current # NoBatch => ~batch[current].claimed
  /\ \A c, d \in Conns :
       conn[c].phase \in {"applying", "snapped"} /\ conn[d].phase \in {"applying", "snapped"}
         /\ conn[c].batch = conn[d].batch => c = d

\* A batch is one whole outer step, or one step for each push: of pushes of one
\* model, by one thread, none twice, and every member learns of its own.
RoundsSound ==
  TypeOK /\ RoundsWhole /\ OneModelPerRound /\ OneProcessor /\ AppliedOnce /\ ReplyShowsPush

-----------------------------------------------------------------------------
(* Inductive strengthenings of RoundsSound. *)

ScenarioInv ==
  /\ scenario \in [round: Nat, sessions: Nat, windows: [Workers -> Nat], call: Nat, step: Nat,
                   abandoned: BOOLEAN]
  /\ \E s \in Scenarios : s.round = scenario.round /\ s.windows = scenario.windows
  /\ DOMAIN windows = Workers

Processing(c) == conn[c].phase \in {"applying", "snapped"}

\* Two pushes are one when their keys are; a key may be in the first r steps.
Key(g) == <<g.worker, g.n>>
PushKey(c) == <<conn[c].worker, conn[c].push>>
Within(s, key, r) == \E i \in 1..r : \E k \in DOMAIN s[i] : Key(s[i][k]) = key
Stepped(key, r) == Within(steps, key, r)

\* A session is of a batch from EnterBatch until it learns the outcome.
SessionInv ==
  \A c \in Conns :
    /\ conn[c].batch # NoBatch <=> conn[c].phase \in {"waiting", "applying", "snapped"}
    /\ conn[c].batch # NoBatch => conn[c].push # 0
    /\ conn[c].push <= windows[conn[c].worker]
    /\ ~Processing(c) => conn[c].applied = 0

\* A session that has claimed batch b and goes through it.
ProcessorOf(c, b) ==
  /\ batch[b].claimed /\ ~batch[b].done
  /\ conn[c].applied <= Len(batch[b].grads)
  /\ InPhase(c, "snapped") => conn[c].applied = Len(batch[b].grads)
  /\ RoundSize > 0 => conn[c].applied \in {0, Len(batch[b].grads)}

\* A batch nobody refers to is blank; the others have their members' pushes,
\* as many as a round has once it is claimed.
BatchGood(b) ==
  /\ (\A c \in Conns : conn[c].batch # b) => batch[b] = EmptyBatch
  /\ batch[b].done => batch[b].claimed
  /\ RoundSize > 0 =>
       IF batch[b].claimed THEN Len(batch[b].grads) = RoundSize
                           ELSE Len(batch[b].grads) < RoundSize
  /\ \A c \in Conns : conn[c].batch = b =>
       /\ Processing(c) => ProcessorOf(c, b)
       /\ \E k \in DOMAIN batch[b].grads : Key(batch[b].grads[k]) = PushKey(c)

BatchInv == OneProcessor /\ \A b \in Batches : BatchGood(b)

\* What was applied is in the steps, and in those a member is told of.
DoneShown(b) ==
  batch[b].done /\ ~batch[b].error =>
    /\ batch[b].revision <= revision
    /\ \A k \in DOMAIN batch[b].grads : Stepped(Key(batch[b].grads[k]), batch[b].revision)

AppliedShown(c) ==
  Processing(c) => \A k \in 1..conn[c].applied : Stepped(Key(batch[conn[c].batch].grads[k]), revision)

SnappedShown(c) ==
  InPhase(c, "snapped") =>
    /\ batch[conn[c].batch].revision = conn[c].revision
    /\ batch[conn[c].batch].revision <= revision
    /\ \A k \in DOMAIN batch[conn[c].batch].grads :
         Stepped(Key(batch[conn[c].batch].grads[k]), batch[conn[c].batch].revision)

ReplyShown(c) ==
  conn[c].phase \in {"published", "answered"} =>
    /\ conn[c].revision <= revision
    /\ conn[c].push # 0 => Stepped(PushKey(c), conn[c].revision)

ShownInv ==
  /\ \A b \in Batches : DoneShown(b)
  /\ \A c \in Conns : AppliedShown(c) /\ SnappedShown(c) /\ ReplyShown(c)

\* Where a push can be that is in no outer step yet.
Arriving(c) == conn[c].phase \in {"sent", "admitted"} /\ conn[c].push # 0
Pending(b, k) ==
  /\ k \in DOMAIN batch[b].grads /\ ~batch[b].done
  /\ \A c \in Conns : conn[c].batch = b /\ Processing(c) => k > conn[c].applied

\* A push is in one place: a session that has not entered a batch, a batch
\* that has still to apply it, or an outer step.
OnceInv ==
  /\ AppliedOnce
  /\ \A i \in DOMAIN steps : \A k \in DOMAIN steps[i] :
       steps[i][k].n <= windows[steps[i][k].worker]
  /\ \A b \in Batches : \A k \in DOMAIN batch[b].grads :
       LET g == batch[b].grads[k] IN
         /\ g.n <= windows[g.worker]
         /\ Pending(b, k) => ~Stepped(Key(g), revision)
  /\ \A a, b \in Batches : \A k \in DOMAIN batch[a].grads, l \in DOMAIN batch[b].grads :
       Pending(a, k) /\ Pending(b, l) /\ Key(batch[a].grads[k]) = Key(batch[b].grads[l])
         => a = b /\ k = l
  /\ \A c \in Conns : Arriving(c) =>
       /\ ~Stepped(PushKey(c), revision)
       /\ \A b \in Batches : \A k \in DOMAIN batch[b].grads :
            Pending(b, k) => Key(batch[b].grads[k]) # PushKey(c)
       /\ \A d \in Conns : Arriving(d) /\ PushKey(c) = PushKey(d) => c = d

\* The workers that take part.
Partners == {w \in Workers : scenario.windows[w] > 0}

\* As many as a round waits for, or fewer: run_heloco starts the server with
\* --sync_workers set to the number of islands.
EveryoneNeeded ==
  \A s \in Scenarios : s.round > 0 => Cardinality({w \in Workers : s.windows[w] > 0}) <= s.round

\* A worker with no call is at the model of this revision, or resyncs.
WorkerAt(w) ==
  /\ HasBaseline(w) => w \in Partners
  /\ HasBaseline(w) /\ ~resync[w] /\ call[w] = NoConn => baseline[w] = revision
  /\ call[w] # NoConn => conn[call[w]].worker = w /\ ~InPhase(call[w], "free")

\* A session is its worker's only one, and of the model of this revision.
SessionAt(c) ==
  /\ ~InPhase(c, "free") => call[conn[c].worker] = c /\ conn[c].worker \in Partners
  /\ conn[c].push # 0 /\ ~InPhase(c, "free") => HasBaseline(conn[c].worker)
  /\ Arriving(c) => conn[c].basis = revision
  /\ conn[c].phase \in {"published", "answered", "snapped"} => conn[c].revision = revision

\* So is a member of a batch, until its push is applied.
MemberAt(c) ==
  conn[c].batch # NoBatch =>
    LET b == conn[c].batch IN
      IF batch[b].done THEN batch[b].error \/ batch[b].revision = revision
      ELSE (\A k \in DOMAIN batch[b].grads : Pending(b, k)) => conn[c].basis = revision

\* Every entry of a batch that is not done has its member.
EntryAt(b, k) ==
  ~batch[b].done =>
    \E c \in Conns : /\ conn[c].batch = b /\ PushKey(c) = Key(batch[b].grads[k])
                     /\ conn[c].basis = batch[b].grads[k].basis

\* A round is of all partners, and everyone who can still push to it is at the
\* model of this revision, while nobody has given up.
OneModel ==
  /\ OneModelPerRound
  /\ \A w \in Workers : WorkerAt(w)
  /\ \A c \in Conns : SessionAt(c) /\ MemberAt(c)
  /\ \A b \in Batches : \A k \in DOMAIN batch[b].grads : EntryAt(b, k)

ModelInv == RoundSize > 0 /\ ~scenario.abandoned => OneModel

\* Every worker gets through all its windows: no thread sleeps through the
\* publication of its batch, and no error is kept from its waiters.  A round
\* that counts the push of a caller who gave up may leave another waiting.
TrainingCompletes ==
  \/ <>(RoundSize > 0 /\ scenario.abandoned)
  \/ <>[](\A w \in Workers : windows[w] = scenario.windows[w] /\ call[w] = NoConn)
=============================================================================
