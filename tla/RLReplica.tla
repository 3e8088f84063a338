------------------------------ MODULE RLReplica ------------------------------
(***************************************************************************)
(* A HeLoCo RL replica that generates its own rollouts: the controller's   *)
(* windows of inner steps (RLControllerMixin, RLTrainer), in which a batch *)
(* is collected while the previous one is trained on and the new weights   *)
(* are handed to the generators in the background, and HeLoCoRLReplica's   *)
(* exchange with the parameter server at a window's end, or, in fragments, *)
(* also inside it.                                                         *)
(*                                                                         *)
(* The group buffer (slots, FIFO, pause) and the weight handoff (push from *)
(* the trainer, pull by the generators, release of the batch's slots) are  *)
(* the RL library's: they are modelled from how the controller uses them.  *)
(* A group is the weights' version it was born under.                      *)
(*                                                                         *)
(* Definitions named Faulty... are plausible mistakes in the code: put in  *)
(* place of the definition that follows them, each breaks a property.      *)
(***************************************************************************)
EXTENDS FragmentServer

CONSTANTS
  Window,        \* the configured sync_every
  Prompts,       \* num_prompts_per_train_step: groups in a batch
  Slots,         \* groups the buffer admits
  ReplicaRuns    \* the runs to choose from: num_fragments, num_outer_steps, faults

ASSUME ReplicaAssumption ==
  /\ Window \in Nat \ {0} /\ \A p \in 1..MaxFragments : Window % p = 0
  /\ Prompts \in Nat \ {0} /\ Slots \in Nat /\ Slots >= Prompts /\ Slots % Prompts = 0
  /\ ReplicaRuns \subseteq [fragments: 1..MaxFragments, windows: Nat, faults: [FaultKinds -> Nat]]

VARIABLES
  plan,      \* the run chosen
  at,        \* where the train loop is
  ended,     \* how it ended
  window,    \* _sync_every
  h,         \* inner steps done in this window, _win_step
  steps,     \* inner steps done, the policy version
  outer, failures,  \* windows done, and syncs failed in a row
  slice,     \* the trainer's weights: per fragment, what it was set to, and at which step
  origin, originRev, \* the client's _global_params, per fragment, and _baseline_revision
  turn,      \* _frag_idx
  buffer, paused, \* the groups in the buffer, and whether it admits new ones
  taken,     \* groups taken from the buffer whose slot is still held
  pending,   \* the collection under way: the groups it has
  batch,     \* the oldest version in the batch being trained on
  handoff,   \* the weight handoff under way
  gen,       \* what the generators hold: a version, and how many merges it has seen
  merges,    \* window ends at which the merged model was adopted
  cycle,     \* history: exchanges of each fragment started in this window
  lost       \* history: the windows whose sync failed

loop == <<at, ended, window, h, steps, outer, failures, cycle, lost>>
client == <<slice, origin, originRev, turn>>
rollouts == <<buffer, paused, taken, pending, batch>>
weights == <<handoff, gen, merges>>
replica == <<plan, loop, client, rollouts, weights>>
replicaVars == <<replica, fragments, call, late, server, faults>>

NoHandoff == [phase |-> "none", version |-> 0, merges |-> 0]
NoPending == [on |-> FALSE, got |-> <<>>]

ReplicaInitAs(place) ==
  /\ at = place /\ ended = "no"
  /\ window = Window /\ h = 0 /\ steps = 0 /\ outer = 0 /\ failures = 0
  /\ slice = [f \in Fragment |-> [model |-> <<>>, since |-> 0]]
  /\ origin = [f \in Fragment |-> <<>>] /\ originRev = 0 /\ turn = 1
  /\ buffer = <<>> /\ paused = FALSE /\ taken = 0
  /\ pending = NoPending /\ batch = 0
  /\ handoff = NoHandoff /\ gen = [version |-> 0, merges |-> 0] /\ merges = 0
  /\ cycle = [f \in Fragment |-> 0] /\ lost = {}

ReplicaInit ==
  /\ plan \in ReplicaRuns /\ fragments = plan.fragments /\ faults = plan.faults
  /\ call = NoCall /\ late = {}
  /\ log = [f \in Fragment |-> <<>>] /\ revision = 0
  /\ disk = [log |-> log, revision |-> 0] /\ commits = 0
  /\ ReplicaInitAs("setup")

Enter(place) == at' = place /\ UNCHANGED <<window, outer, failures, cycle, lost>>

-----------------------------------------------------------------------------
(* Generation and collection. *)

Producing == at \notin {"off", "setup", "connecting", "close", "left"}

FaultyHeld == Len(buffer)

\* The slots in use: a trained batch keeps its own until the handoff is done.
Held == Len(buffer) + taken

\* A producer starts a group under the weights the generators hold.
Admit ==
  /\ Producing /\ ~paused /\ Held < Slots
  /\ buffer' = Append(buffer, gen.version)
  /\ UNCHANGED <<loop, client, paused, taken, pending, batch, weights, call>>

\* _collect_training_batch: take the oldest group; one that has nothing to
\* train on gives its slot back at once.
Take ==
  /\ pending.on /\ Len(pending.got) < Prompts /\ buffer # <<>>
  /\ buffer' = Tail(buffer)
  /\ \/ /\ pending' = [pending EXCEPT !.got = Append(@, Head(buffer))]
        /\ taken' = taken + 1 /\ UNCHANGED faults
     \/ /\ Spend("dud") /\ UNCHANGED <<pending, taken>>
  /\ UNCHANGED <<loop, client, paused, batch, weights, call>>

-----------------------------------------------------------------------------
(* The weight handoff. *)

\* The trainer's weights have been read.
HandoffPushed ==
  /\ handoff.phase = "pushing"
  /\ handoff' = [handoff EXCEPT !.phase = "pulling"]
  /\ UNCHANGED <<loop, client, rollouts, gen, merges, call>>

FaultyReleased == 0

\* The slots of the batch that was trained on.
Released == Prompts

\* The generators have them, and only then the batch's slots are released.
HandoffPulled ==
  /\ handoff.phase = "pulling"
  /\ gen' = [version |-> handoff.version, merges |-> handoff.merges]
  /\ taken' = taken - Released
  /\ handoff' = NoHandoff
  /\ UNCHANGED <<loop, client, buffer, paused, pending, batch, merges, call>>

-----------------------------------------------------------------------------
(* The exchange with the parameter server. *)

FaultyLoaded(f) == slice

\* load_full_state_dict_cpu: the trainer's slice is overwritten with the reply.
Loaded(f) == [slice EXCEPT ![f] = [model |-> call.model[f], since |-> steps]]

FaultyPushedFragment == turn

PushedFragment == call.frag

\* A reply, of a rejected push too, is adopted by the client and the trainer.
Adopted ==
  IF call.state = "answered"
  THEN [slice |-> Loaded(PushedFragment),
        origin |-> [origin EXCEPT ![PushedFragment] = call.model[call.frag]], rev |-> call.newRev]
  ELSE [slice |-> slice, origin |-> origin, rev |-> originRev]

FaultyNextTurn == turn + 1

NextTurn == (turn % fragments) + 1

\* _adopt_inflight_fragment, then _push_fragment: the next one's
\* pseudo-gradient is what the trainer did since that slice was set.
AdoptAndPush ==
  LET a == Adopted IN
  /\ slice' = a.slice /\ origin' = a.origin /\ originRev' = a.rev
  /\ call' = [NoCall EXCEPT !.state = "running", !.kind = "push", !.frag = turn,
                            !.work = [from |-> a.slice[turn].since, to |-> steps],
                            !.basis = a.origin[turn], !.rev = a.rev]
  /\ turn' = NextTurn
  /\ cycle' = [cycle EXCEPT ![turn] = @ + 1]

\* setup_async: pull the global model and start the generators from it.
Connect ==
  /\ at = "setup" /\ Enter("connecting")
  /\ call' = [NoCall EXCEPT !.state = "running"]
  /\ UNCHANGED <<ended, h, steps, client, rollouts, weights>>

Connected ==
  /\ at = "connecting" /\ call.state \in {"answered", "failed"}
  /\ IF call.state = "answered"
     THEN /\ slice' = [f \in Fragment |-> [model |-> call.model[f], since |-> 0]]
          /\ origin' = call.model /\ originRev' = call.newRev
          /\ Enter("start") /\ UNCHANGED ended
     ELSE /\ UNCHANGED <<slice, origin, originRev>>
          /\ Enter("close") /\ ended' = "failed"
  /\ call' = NoCall
  /\ UNCHANGED <<h, steps, turn, rollouts, weights>>

-----------------------------------------------------------------------------
(* A window. *)

\* The deadline and the number of windows are looked at between windows.
OpenWindow ==
  /\ at = "start" /\ outer < plan.windows
  /\ at' = "collect" /\ h' = 0
  /\ cycle' = [f \in Fragment |-> 0]
  /\ pending' = [on |-> TRUE, got |-> <<>>]
  /\ UNCHANGED <<ended, window, steps, outer, failures, lost, client, buffer, paused, taken, batch, weights, call>>

Finish ==
  /\ at = "start" /\ outer > 0
  /\ Enter("stop") /\ ended' = "done"
  /\ UNCHANGED <<h, steps, client, rollouts, weights, call>>

\* The batch is there; the next one is collected while this one is trained
\* on, but for the last step of the window.
NextBatch ==
  /\ at = "collect" /\ Len(pending.got) = Prompts
  /\ batch' = Min(ToSet(pending.got))
  /\ pending' = [on |-> h + 1 < window, got |-> <<>>]
  /\ Enter("train")
  /\ UNCHANGED <<ended, h, steps, client, buffer, paused, taken, weights, call>>

FaultyPushLanded == TRUE

\* wait_prev_push
PushLanded == handoff.phase # "pushing"

\* The optimizer step changes the weights: the last push must have read them.
Optimize ==
  /\ at = "train" /\ PushLanded
  /\ steps' = steps + 1 /\ h' = h + 1
  /\ Enter("handing")
  /\ UNCHANGED <<ended, client, rollouts, weights, call>>

FragmentWindow == window \div fragments

AfterStep ==
  IF h = window THEN "merge"
  ELSE IF fragments > 1 /\ h % FragmentWindow = 0 THEN "boundary" ELSE "collect"

\* The handoff of the new weights starts when the last one is done.  A loss
\* that is not finite ends the run, and the collection under way.
HandOver ==
  /\ at = "handing" /\ handoff.phase = "none"
  /\ handoff' = [phase |-> "pushing", version |-> steps, merges |-> merges]
  /\ \/ Enter(AfterStep) /\ UNCHANGED <<ended, pending>>
     \/ Enter("stop") /\ ended' = "diverged" /\ pending' = NoPending
  /\ UNCHANGED <<h, steps, client, buffer, paused, taken, batch, gen, merges, call>>

\* _after_inner_step at a fragment boundary inside the window; the error of
\* the exchange that is joined goes through the train loop and ends it.
FragmentBoundary ==
  /\ at = "boundary" /\ call.state # "running"
  /\ IF call.state = "failed"
     THEN /\ Enter("stop") /\ ended' = "failed" /\ pending' = NoPending /\ call' = NoCall
          /\ UNCHANGED client
     ELSE /\ AdoptAndPush
          /\ at' = "collect" /\ UNCHANGED <<ended, window, outer, failures, lost, pending>>
  /\ UNCHANGED <<h, steps, buffer, paused, taken, batch, weights>>

FaultyAdmitsInMerge == TRUE

\* buffer.pause()
AdmitsInMerge == FALSE

Pause ==
  /\ at = "merge"
  /\ paused' = ~AdmitsInMerge
  /\ Enter("settle")
  /\ UNCHANGED <<ended, h, steps, client, buffer, taken, pending, batch, weights, call>>

FaultySettled == TRUE

\* wait_inflight_push_pull
Settled == handoff.phase = "none"

\* _window_sync begins: the exchange in flight is drained, and the last
\* fragment, or the whole model, is pushed.
LastPush ==
  /\ at = "settle" /\ Settled /\ call.state \in {"none", "answered"}
  /\ AdoptAndPush
  /\ at' = "posting"
  /\ UNCHANGED <<ended, window, outer, failures, lost, h, steps, rollouts, weights>>

FaultyRounded(n) == n

\* A window length that fragment boundaries divide.
Rounded(n) == IF n < fragments THEN fragments ELSE (n \div fragments) * fragments

FaultyAfterSuccess == failures

AfterSuccess == 0

\* The merged model is adopted, the generators are refreshed from it, and
\* groups are admitted again.
Merge ==
  /\ at = "posting" /\ call.state = "answered"
  /\ slice' = Adopted.slice /\ origin' = Adopted.origin /\ originRev' = Adopted.rev
  /\ window' = IF call.steps > 0 THEN Rounded(call.steps) ELSE window
  /\ call' = NoCall
  /\ merges' = merges + 1
  /\ gen' = [version |-> steps, merges |-> merges + 1]
  /\ paused' = FALSE
  /\ failures' = AfterSuccess /\ outer' = outer + 1 /\ at' = "start"
  /\ UNCHANGED <<ended, h, steps, cycle, lost, turn, buffer, taken, pending, batch, handoff>>

MaxFailures == 3

\* A failed sync: the replica goes on with what it has, until it has failed
\* too often in a row.
SyncFails ==
  /\ \/ at = "settle" /\ Settled
     \/ at = "posting"
  /\ call.state = "failed"
  /\ call' = NoCall
  /\ failures' = failures + 1
  /\ lost' = lost \cup {outer}
  /\ IF failures' >= MaxFailures
     THEN at' = "stop" /\ ended' = "failed" /\ UNCHANGED <<outer, paused>>
     ELSE at' = "start" /\ outer' = outer + 1 /\ paused' = FALSE /\ UNCHANGED ended
  /\ UNCHANGED <<window, h, steps, cycle, client, buffer, taken, pending, batch, weights>>

-----------------------------------------------------------------------------
(* The end. *)

\* The last handoff lands, and the producers and the buffer are closed.
StopProducers ==
  /\ at = "stop" /\ handoff.phase = "none"
  /\ buffer' = <<>> /\ Enter("close")
  /\ UNCHANGED <<ended, h, steps, client, paused, taken, pending, batch, weights, call>>

\* close: an exchange in flight is drained, never adopted.
Close ==
  /\ at = "close" /\ call.state # "running"
  /\ call' = NoCall /\ Enter("left")
  /\ UNCHANGED <<ended, h, steps, client, rollouts, weights>>

TrainLoop ==
  \/ Connect \/ Connected \/ OpenWindow \/ Finish \/ NextBatch \/ Optimize \/ HandOver
  \/ FragmentBoundary \/ Pause \/ LastPush \/ Merge \/ SyncFails \/ StopProducers \/ Close

Background == Admit \/ HandoffPushed \/ HandoffPulled

Quiet == UNCHANGED <<plan, fragments, late, server>>

ReplicaNext ==
  \/ (TrainLoop \/ Background) /\ Quiet /\ UNCHANGED faults
  \/ Take /\ Quiet
  \/ ServerNext /\ UNCHANGED replica

\* Tasks and threads run, groups get generated, and a request is answered.
ReplicaFairness ==
  /\ WF_replicaVars(TrainLoop /\ Quiet /\ UNCHANGED faults)
  /\ WF_replicaVars(Admit /\ Quiet /\ UNCHANGED faults)
  /\ WF_replicaVars((HandoffPushed \/ HandoffPulled) /\ Quiet /\ UNCHANGED faults)
  /\ WF_replicaVars(Take /\ Quiet)
  /\ WF_replicaVars(Serve /\ UNCHANGED replica)

-----------------------------------------------------------------------------
(* Properties. *)

Places == {"setup", "connecting", "start", "collect", "train", "handing", "boundary", "merge",
           "settle", "posting", "stop", "close", "left"}

\* Every variable has its type.
ReplicaTypeOK ==
  /\ at \in Places \cup {"off"} /\ ended \in {"no", "done", "diverged", "failed"}
  /\ window \in Nat \ {0} /\ h \in Nat /\ steps \in Nat
  /\ outer \in 0..plan.windows /\ failures \in 0..MaxFailures
  /\ slice \in [Fragment -> [model: Seq(Interval), since: 0..steps]]
  /\ origin \in [Fragment -> Seq(Interval)] /\ originRev \in Nat
  /\ turn \in Fragment
  /\ buffer \in Seq(0..steps) /\ paused \in BOOLEAN
  /\ taken \in 0..Slots /\ Held <= Slots
  /\ pending.on \in BOOLEAN /\ pending.got \in Seq(0..steps) /\ Len(pending.got) <= Prompts
  /\ batch \in 0..steps
  /\ handoff.phase \in {"none", "pushing", "pulling"}
  /\ gen.version \in 0..steps /\ gen.merges \in 0..merges /\ merges \in 0..plan.windows
  /\ cycle \in [Fragment -> Nat] /\ lost \subseteq 0..plan.windows

\* A batch is trained on at most Slots / Prompts - 1 versions after the
\* oldest of its groups was born, and never before: slots go back only with
\* the weights ("the born-fresh invariant").
StalenessBounded == at = "train" => steps - batch \in 0 .. (Slots \div Prompts - 1)

\* No group is born under weights older than the last merged model ("no
\* rollout is BORN under weights the sync is about to replace").
BornOnMerged == Producing /\ ~paused => gen.merges = merges

\* No group is born between a window's last step and the end of its sync.
NoneBornInMerge ==
  [][(at \in {"settle", "posting"}) => Len(buffer') <= Len(buffer)]_replicaVars

\* With whole-model exchanges, the trainer's weights never change while a
\* handoff is reading them.
PushUntorn ==
  [][fragments = 1 /\ handoff.phase = "pushing" => UNCHANGED <<steps, slice>>]_replicaVars

\* A window that ended with a merge has exchanged each fragment once, and
\* nothing is in flight when the next one begins.
CycleWhole ==
  at = "start" /\ outer > 0 /\ failures = 0 =>
    call.state = "none" /\ \A f \in Fragment : cycle[f] = 1

\* While the server is not restored, a push is applied to a model that has
\* the one it was computed against as a prefix.
ReplicaContinuity ==
  \A req \in late \cup Abandoned :
    req.kind = "push" /\ faults["server"] = plan.faults["server"]
      => IsPrefix(req.basis, log[req.frag])

\* Without a failed exchange, no step's work counts twice.
ReplicaCountedOnce == lost = {} /\ ended # "failed" => CountedOnce

\* Whole-model sync: the run dies of failed exchanges only if the last three
\* windows' syncs all failed.
DiesOnlyOfThree ==
  fragments = 1 /\ ended = "failed" /\ steps > 0 => {outer - 2, outer - 1, outer} \subseteq lost

\* A replica's run ends, whatever fails: no task waits for ever for a slot,
\* a handoff or an exchange.
ReplicaEnds == at = "setup" ~> at = "left"

\* After a restore "each fragment re-baselines the same way on its own next
\* push": a push is never applied to a model it was not computed against.
RestoreHeals ==
  call.kind = "push" /\ call.applied => IsPrefix(call.basis, call.model[call.frag])

\* Rollouts are as fresh as promised: none is trained on too late, or born
\* under weights that a merge has replaced.
RolloutsFresh == StalenessBounded /\ BornOnMerged

\* A merge keeps apart from what goes on around it: no rollout is born in it,
\* and no handoff reads weights that it changes.
MergesApart == NoneBornInMerge /\ PushUntorn

-----------------------------------------------------------------------------
(* An inductive strengthening of them, beside ServerInv. *)

Over == {"stop", "close", "left"}
InWindow == {"collect", "train", "handing", "boundary", "merge", "settle", "posting"}

\* The windows, and the syncs that failed in a row.
LoopInv ==
  /\ plan \in ReplicaRuns /\ fragments = plan.fragments /\ at \in Places
  /\ ended \in {"no", "done", "diverged", "failed"}
  /\ window \in Nat \ {0} /\ h \in Nat /\ steps \in Nat
  /\ outer \in 0..plan.windows /\ failures \in 0..MaxFailures /\ lost \subseteq 0..plan.windows
  /\ merges \in 0..outer
  /\ at \in InWindow => outer < plan.windows
  /\ at \in {"setup", "connecting"} => steps = 0 /\ outer = 0
  /\ at \notin Over => ended = "no" /\ failures < MaxFailures /\ \A k \in 1..failures : outer - k \in lost
  /\ DiesOnlyOfThree

\* A batch that was optimized on and is not handed over, and a handoff.
Unsent == IF at = "handing" THEN 1 ELSE 0
Sending == IF handoff.phase = "none" THEN 0 ELSE 1

\* The generators lag behind the trainer by what is not handed over, and
\* nothing is handed over while the merged model is adopted.
HandoffInv ==
  /\ handoff \in [phase: {"none", "pushing", "pulling"}, version: Nat, merges: Nat]
  /\ gen \in [version: Nat, merges: Nat]
  /\ gen.version + Unsent + Sending = steps /\ gen.merges = merges
  /\ handoff.phase # "none" => handoff.version = steps - Unsent /\ handoff.merges = merges
  /\ at \in {"setup", "connecting", "start", "posting"} => handoff.phase = "none"
  /\ paused \in BOOLEAN /\ (at \in {"settle", "posting"} => paused)
  /\ at = "boundary" => fragments > 1

\* The batch that is being trained on.
Training == IF at = "train" THEN 1 ELSE 0

\* Every group in a batch has its slot, till its batch has been handed over.
SlotInv ==
  /\ buffer \in Seq(Nat) /\ taken \in Nat /\ Held <= Slots
  /\ pending \in [on: BOOLEAN, got: Seq(Nat)] /\ Len(pending.got) <= Prompts
  /\ ~pending.on => pending.got = <<>>
  /\ taken >= Len(pending.got) + Prompts * (Training + Unsent + Sending)

\* The batches taken since a group of version v was born, and n more groups
\* before its own batch is handed over, fit in the slots.
Fits(v, n) == v <= steps /\ Prompts * (steps - v + Training) + n <= Slots

\* What is ahead of a group fits, with the group, in the slots.
AgeInv ==
  /\ \A i \in 1..Len(buffer) : Fits(buffer[i], Len(pending.got) + i)
  /\ \A j \in 1..Len(pending.got) : Fits(pending.got[j], j)
  /\ batch \in 0..steps
  /\ at = "train" => Prompts * (steps - batch) < Slots

\* What the client has adopted.
ClientInv ==
  /\ slice \in [Fragment -> [model: Seq(Interval), since: Nat]]
  /\ \A f \in Fragment : slice[f].since <= steps
  /\ origin \in [Fragment -> Seq(Interval)] /\ originRev \in Nat /\ turn \in Fragment

\* How many fragments were pushed after fragment f.
Behind(f) == IF f < turn THEN turn - 1 - f ELSE turn - 1 - f + fragments

\* The fragments pushed in a window are the last n of the rotation.
Pushed(n) == \A f \in Fragment : cycle[f] = IF Behind(f) < n THEN 1 ELSE 0

\* With n fragments pushed, n boundaries are behind, and at a merge all are.
Passed(n) ==
  /\ at \in {"collect", "train"} => n < fragments /\ n * FragmentWindow <= h /\ h < (n + 1) * FragmentWindow
  /\ at = "handing" => n < fragments /\ n * FragmentWindow < h /\ h <= (n + 1) * FragmentWindow
  /\ at = "boundary" => n + 1 < fragments /\ h = (n + 1) * FragmentWindow
  /\ at \in {"merge", "settle"} => n + 1 = fragments
  /\ at = "posting" \/ (at = "start" /\ outer > 0 /\ failures = 0) => n = fragments

CycleInv ==
  /\ window = fragments * FragmentWindow
  /\ cycle \in [Fragment -> Nat]
  /\ \E n \in 0..fragments : Pushed(n) /\ Passed(n)
  /\ at = "start" /\ outer > 0 /\ failures = 0 => call.state = "none"

\* Until an exchange fails, a fragment's next work is counted from where all of
\* the last was done.
OnceInv ==
  /\ call.state = "none" => call.kind = "pull"
  /\ lost = {} /\ ended # "failed" =>
       /\ ApartInv
       /\ \A f \in Fragment : DoneBy(f, steps)
       /\ call.kind = "push" => call.work.to <= steps
       /\ at # "left" =>
            \A f \in Fragment : ~(call.kind = "push" /\ call.frag = f) => DoneBy(f, slice[f].since)

\* Before a restore, the server's model has grown from the client's.
OriginInv ==
  /\ faults["server"] <= plan.faults["server"]
  /\ faults["server"] = plan.faults["server"] =>
       Grown /\ \A f \in Fragment : IsPrefix(origin[f], log[f])

ReplicaInv == ServerInv /\ LoopInv /\ HandoffInv /\ SlotInv /\ AgeInv /\ ClientInv /\ CycleInv

\* With what is in the server's model.
PushInv == ReplicaInv /\ OnceInv /\ OriginInv

\* The replica without fairness: what its safety rests on.
ReplicaSafety == ReplicaInit /\ [][ReplicaNext]_replicaVars
=============================================================================
