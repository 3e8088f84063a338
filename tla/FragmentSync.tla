----------------------------- MODULE FragmentSync -----------------------------
(***************************************************************************)
(* One island of several ranks (replica mode) that exchanges its model     *)
(* with the parameter server in fragments.  Every sync_every / P inner     *)
(* steps the ranks meet at a boundary: the lead joins the exchange it has  *)
(* in flight, all ranks adopt the merged fragment, gather the next one,    *)
(* and the lead sends it while training goes on.  With one fragment the    *)
(* exchange is synchronous and whole-model.                                *)
(*                                                                         *)
(* The ranks meet in collectives: a broadcast or a gather completes when   *)
(* every rank is in the same one.  Only the lead talks to the server, so   *)
(* only the lead knows how an exchange ended; the others learn it from     *)
(* broadcast words.  An island with one process is Ranks = {Lead}.  Local  *)
(* blending (fragment_update_alpha) is taken to be off, its default.       *)
(*                                                                         *)
(* Definitions named Faulty... are plausible mistakes in the code: put in  *)
(* place of the definition that follows them, each breaks a property.      *)
(***************************************************************************)
EXTENDS FragmentServer

CONSTANTS
  Ranks, Lead,
  SyncEvery,    \* the initial sync_every
  MaxSteps      \* bound: inner steps of the training loop

ASSUME FragmentAssumption ==
  /\ IsFiniteSet(Ranks) /\ Lead \in Ranks
  /\ SyncEvery \in Nat \ {0} /\ \A p \in 1..MaxFragments : SyncEvery % p = 0
  /\ MaxSteps \in Nat \ {0}

VARIABLES
  pc,        \* where each rank is
  words,     \* what the last broadcast told each rank
  shard,     \* per rank and fragment: the model its slice was set to, and at which step
  fragIdx,   \* _frag_idx
  localStep, trained, syncEvery, \* per rank: _local_step, inner steps done, _sync_every
  baseline,  \* the lead's _global_params, per fragment
  baseRev,   \* the lead's _baseline_revision
  resync     \* the lead's _pending_resync

lead == <<baseline, baseRev, resync>>
ranks == <<words, shard, fragIdx, localStep, trained, syncEvery>>
island == <<pc, ranks, lead>>
vars == <<fragments, pc, ranks, lead, call, late, server, faults>>

\* Where a rank waits for the others ("pulled" is the outcome broadcast of a
\* resync, "outcome" that of a whole-model push), and where it works alone.
Meeting == {"train", "act", "out", "adopt", "gather", "outcome", "adoptAll"}
Alone == {"gate", "join", "pull", "pulling", "posting"}
Phases == Meeting \cup Alone \cup {"left", "lost"}

NoWords == [out |-> "none", steps |-> 0, frag |-> 1]

Init ==
  /\ ServerInit
  /\ pc = [r \in Ranks |-> IF r = Lead THEN "pull" ELSE "outcome"]
  /\ words = [r \in Ranks |-> NoWords]
  /\ shard = [r \in Ranks |-> [f \in Fragment |-> [model |-> <<>>, since |-> 0]]]
  /\ fragIdx = [r \in Ranks |-> 1]
  /\ localStep = [r \in Ranks |-> 0] /\ trained = [r \in Ranks |-> 0]
  /\ syncEvery = [r \in Ranks |-> SyncEvery]
  /\ baseline = [f \in Fragment |-> <<>>] /\ baseRev = 0 /\ resync = FALSE

\* Every rank is in the same collective.
Meet(place) == \A r \in Ranks : pc[r] = place

Goto(r, place) == pc[r] # place /\ pc' = [pc EXCEPT ![r] = place]

-----------------------------------------------------------------------------
(* Training. *)

WindowLength(r) == syncEvery[r] \div fragments

\* One inner step, which is collective in a sharded model, and its hook.
Train ==
  /\ Meet("train") /\ \A r \in Ranks : trained[r] < MaxSteps
  /\ trained' = [r \in Ranks |-> trained[r] + 1]
  /\ localStep' = [r \in Ranks |-> localStep[r] + 1]
  /\ pc' = [r \in Ranks |-> IF localStep[r] + 1 < WindowLength(r) THEN "train"
                            ELSE IF r = Lead THEN "gate" ELSE "act"]
  /\ UNCHANGED <<fragments, words, shard, fragIdx, syncEvery, lead, call, late, server, faults>>

\* The cohort gate, which only the lead passes (module CohortGate).
PassGate ==
  /\ pc[Lead] = "gate" /\ Goto(Lead, "act")
  /\ UNCHANGED <<fragments, ranks, lead, call, late, server, faults>>

\* The gate's TimeoutError takes the lead out of the training loop; an
\* exchange in flight is drained, never adopted.
GateFails ==
  /\ pc[Lead] = "gate" /\ Spend("gate") /\ Goto(Lead, "lost")
  /\ call' = NoCall /\ late' = late \cup Abandoned
  /\ UNCHANGED <<fragments, ranks, lead, server>>

\* The process group's timeout ends a collective that a lost rank never joins.
CollectiveAborts(r) ==
  /\ pc[r] \in Meeting /\ \E s \in Ranks : pc[s] = "lost"
  /\ Goto(r, "lost")
  /\ UNCHANGED <<fragments, ranks, lead, call, late, server, faults>>

\* __exit__: no collective; an exchange in flight is drained, never adopted.
Exit(r) ==
  /\ pc[r] = "train" /\ trained[r] = MaxSteps /\ Goto(r, "left")
  /\ call' = IF r = Lead THEN NoCall ELSE call
  /\ late' = IF r = Lead THEN late \cup Abandoned ELSE late
  /\ UNCHANGED <<fragments, ranks, lead, server, faults>>

-----------------------------------------------------------------------------
(* A boundary. *)

\* The lead's clock decides whether a resync is due; a follower has no clock.
Actions == IF resync THEN {"skip", "resync"} ELSE {"sync"}

FaultyAfterAct(r, act) ==
  CASE act = "sync" \/ r # Lead -> IF fragments = 1 THEN "gather" ELSE IF r = Lead THEN "join" ELSE "out"
    [] act = "resync" -> "pull"
    [] OTHER -> "train"

AfterAct(r, act) ==
  CASE act = "skip" -> "train"
    [] act = "sync" -> IF fragments = 1 THEN "gather" ELSE IF r = Lead THEN "join" ELSE "out"
    [] act = "resync" -> IF r = Lead THEN "pull" ELSE "outcome"

\* A rank that leaves the boundary starts a new window.
NewWindow == localStep' = [r \in Ranks |-> IF pc'[r] = "train" THEN 0 ELSE localStep[r]]

Decide ==
  /\ Meet("act")
  /\ \E act \in Actions : pc' = [r \in Ranks |-> AfterAct(r, act)]
  /\ NewWindow
  /\ UNCHANGED <<fragments, words, shard, fragIdx, trained, syncEvery, lead, call, late, server, faults>>

Say(out) == words' = [words EXCEPT ![Lead] = [out |-> out, steps |-> call.steps, frag |-> call.frag]]

\* A failed or rejected exchange is dropped, and only a pull of the whole
\* model goes back to normal.
FaultyMustResync == resync

MustResync == TRUE

Usable == call.state = "answered" /\ call.applied

\* The lead joins the exchange in flight, if there is one.
Join ==
  /\ pc[Lead] = "join" /\ call.state # "running"
  /\ Goto(Lead, "out")
  /\ Say(IF call.state = "none" THEN "none" ELSE IF Usable THEN "adopt" ELSE "fail")
  /\ resync' = IF call.state = "none" \/ Usable THEN resync ELSE MustResync
  /\ call' = IF Usable THEN call ELSE NoCall
  /\ UNCHANGED <<fragments, shard, fragIdx, localStep, trained, syncEvery, baseline, baseRev, late, server, faults>>

AfterOut(w) ==
  CASE w.out = "adopt" -> "adopt"
    [] w.out = "fail" -> "train"
    [] w.out = "none" -> "gather"

\* The outcome words reach every rank.
BroadcastOut ==
  /\ Meet("out")
  /\ words' = [r \in Ranks |-> words[Lead]]
  /\ pc' = [r \in Ranks |-> AfterOut(words'[r])]
  /\ NewWindow
  /\ UNCHANGED <<fragments, shard, fragIdx, trained, syncEvery, lead, call, late, server, faults>>

\* _apply_dylu: new_steps is the full cycle, rounded to a multiple of P.
FaultyAdvised(r, steps) == IF steps > 0 /\ r = Lead THEN steps ELSE syncEvery[r]

Advised(r, steps) ==
  IF steps = 0 THEN syncEvery[r]
  ELSE IF fragments > 1 /\ steps < fragments THEN fragments
  ELSE (steps \div fragments) * fragments

\* A slice of fragment f is set to model, here and now.
Set(r, f, model) == [model |-> model, since |-> trained[r]]

AdoptedFrag(r) == words[r].frag

FaultyBackedUp == fragIdx[Lead]

\* Which fragment of the lead's backup the merged one replaces.
BackedUp == call.frag

\* The merged fragment is broadcast, and every rank installs its slice.
AdoptFragment ==
  /\ Meet("adopt")
  /\ shard' = [r \in Ranks |->
       [shard[r] EXCEPT ![AdoptedFrag(r)] = Set(r, AdoptedFrag(r), call.model[call.frag])]]
  /\ baseline' = [baseline EXCEPT ![BackedUp] = call.model[call.frag]]
  /\ baseRev' = call.newRev
  /\ syncEvery' = [r \in Ranks |-> Advised(r, words[r].steps)]
  /\ pc' = [r \in Ranks |-> "gather"]
  /\ call' = NoCall
  /\ UNCHANGED <<fragments, words, fragIdx, localStep, trained, resync, late, server, faults>>

FaultyNextFragment(f) == f + 1

NextFragment(f) == (f % fragments) + 1

\* The pseudo-gradient of the next fragment is gathered in a collective, and
\* the lead sends it: in the background, or, with one fragment, waiting.
Gather ==
  /\ Meet("gather") /\ \A r, s \in Ranks : fragIdx[r] = fragIdx[s]
  /\ LET f == fragIdx[Lead] IN
       call' = [NoCall EXCEPT !.state = "running", !.kind = "push", !.frag = f,
                              !.work = [from |-> shard[Lead][f].since, to |-> trained[Lead]],
                              !.basis = baseline[f], !.rev = baseRev]
  /\ fragIdx' = [r \in Ranks |-> NextFragment(fragIdx[r])]
  /\ pc' = [r \in Ranks |-> IF fragments > 1 THEN "train" ELSE IF r = Lead THEN "posting" ELSE "outcome"]
  /\ NewWindow
  /\ UNCHANGED <<fragments, words, shard, trained, syncEvery, lead, late, server, faults>>

\* The pull-only exchange of __enter__ and of a resync.
Pull ==
  /\ pc[Lead] = "pull" /\ Goto(Lead, "pulling")
  /\ call' = [NoCall EXCEPT !.state = "running", !.rev = baseRev]
  /\ UNCHANGED <<fragments, ranks, lead, late, server, faults>>

\* A synchronous exchange ended: a rejected push is a re-baseline.
Answered ==
  /\ pc[Lead] \in {"pulling", "posting"} /\ call.state \in {"answered", "failed"}
  /\ Goto(Lead, "outcome")
  /\ Say(IF call.state = "answered" THEN "adopt" ELSE "fail")
  /\ resync' = (resync \/ (call.state = "failed" /\ call.kind = "push"))
  /\ call' = IF call.state = "answered" THEN call ELSE NoCall
  /\ UNCHANGED <<fragments, shard, fragIdx, localStep, trained, syncEvery, baseline, baseRev, late, server, faults>>

\* A failed pull in __enter__ (no step trained yet) raises on every rank.
AfterOutcome(r, w) ==
  CASE w.out = "adopt" -> "adoptAll"
    [] w.out = "fail" -> IF trained[r] = 0 THEN "lost" ELSE "train"

BroadcastOutcome ==
  /\ Meet("outcome")
  /\ words' = [r \in Ranks |-> words[Lead]]
  /\ pc' = [r \in Ranks |-> AfterOutcome(r, words'[r])]
  /\ NewWindow
  /\ UNCHANGED <<fragments, shard, fragIdx, trained, syncEvery, lead, call, late, server, faults>>

\* The whole model is broadcast and installed.
AdoptAll ==
  /\ Meet("adoptAll")
  /\ shard' = [r \in Ranks |-> [f \in Fragment |-> Set(r, f, call.model[f])]]
  /\ baseline' = call.model /\ baseRev' = call.newRev
  /\ resync' = FALSE
  /\ syncEvery' = [r \in Ranks |-> Advised(r, words[r].steps)]
  /\ call' = NoCall
  /\ pc' = [r \in Ranks |-> "train"] /\ NewWindow
  /\ UNCHANGED <<fragments, words, fragIdx, trained, late, server, faults>>

-----------------------------------------------------------------------------

LeadStep == PassGate \/ Join \/ Pull \/ Answered

Collective ==
  Train \/ Decide \/ BroadcastOut \/ AdoptFragment \/ Gather \/ BroadcastOutcome \/ AdoptAll

Next ==
  \/ LeadStep \/ Collective \/ GateFails
  \/ \E r \in Ranks : CollectiveAborts(r) \/ Exit(r)
  \/ ServerNext /\ UNCHANGED island

\* Ranks run, collectives that everybody joined complete, those that nobody
\* can join are aborted, and a request is answered (or fails).
Fairness ==
  /\ WF_vars(LeadStep) /\ WF_vars(Collective) /\ WF_vars(Serve /\ UNCHANGED island)
  /\ \A r \in Ranks : WF_vars(CollectiveAborts(r)) /\ WF_vars(Exit(r))

Spec == Init /\ [][Next]_vars /\ Fairness

-----------------------------------------------------------------------------
(* Properties. *)

\* Every variable has its type.
TypeOK ==
  /\ fragments \in 1..MaxFragments
  /\ pc \in [Ranks -> Phases]
  /\ words \in [Ranks -> [out: {"none", "adopt", "fail"}, steps: Advice, frag: Fragment]]
  /\ shard \in [Ranks -> [Fragment -> [model: Seq(Interval), since: 0..MaxSteps]]]
  /\ fragIdx \in [Ranks -> Fragment]
  /\ localStep \in [Ranks -> 0..MaxSteps] /\ trained \in [Ranks -> 0..MaxSteps]
  /\ syncEvery \in [Ranks -> Nat \ {0}]
  /\ baseline \in [Fragment -> Seq(Interval)] /\ baseRev \in Nat /\ resync \in BOOLEAN
  /\ call.state \in {"none", "running", "answered", "failed"}
  /\ log \in [Fragment -> Seq(Interval)] /\ revision \in Nat
  /\ commits \in 0..MaxCommits /\ faults \in [FaultKinds -> Nat]

Waiting(r) == pc[r] \in Meeting

\* What a rank waits for: a collective, on a fragment where it has one.
Label(r) == <<pc[r], IF pc[r] = "adopt" THEN words[r].frag ELSE IF pc[r] = "gather" THEN fragIdx[r] ELSE 0>>

\* The ranks never wait for each other in different collectives, however
\* exchanges end: each branch keys off what was broadcast.
Lockstep == \A r, s \in Ranks : Waiting(r) /\ Waiting(s) => Label(r) = Label(s)

\* While an island trains, its slices are slices of one model, the one the
\* lead's next pseudo-gradient is computed against, with one window length.
ShardsAgree ==
  Meet("train") => \A r \in Ranks :
    /\ shard[r] = shard[Lead] /\ syncEvery[r] = syncEvery[Lead]
    /\ \A f \in Fragment : shard[r][f].model = baseline[f]

\* The work of an inner step on a fragment reaches the model at most once,
\* whatever is dropped, late, rejected or restored.
WorkCountedOnce == CountedOnce

\* As long as the server is not restored, a push is computed against an
\* earlier state of the fragment it is applied to.
FragmentContinuity ==
  faults["server"] = MaxFaults["server"] =>
    \A req \in late \cup Abandoned : req.kind = "push" => IsPrefix(req.basis, log[req.frag])

\* Every rank gets through its steps, or all of them fail: nobody stays
\* behind in a collective.
EverybodyLeaves == <>(\A r \in Ranks : pc[r] \in {"left", "lost"})

\* The ranks of an island are in the same place with the same model.
IslandSound == TypeOK /\ Lockstep /\ ShardsAgree

-----------------------------------------------------------------------------
(* An inductive strengthening of IslandSound, beside ServerInv. *)

\* The collective that the others wait in while the lead works alone.
Partner(place) ==
  CASE place = "gate" -> "act"
    [] place = "join" -> "out"
    [] place \in {"pull", "pulling", "posting"} -> "outcome"
    [] OTHER -> place

\* Only the lead works alone; nobody leaves but from the training loop, and
\* nobody is lost but at a boundary, where the others then wait in vain.
PlaceInv ==
  /\ pc \in [Ranks -> Phases]
  /\ \A r \in Ranks \ {Lead} : pc[r] \notin Alone
  /\ \/ \A r \in Ranks : pc[r] \in {"act", "lost"}
     \/ \A r \in Ranks : pc[r] \in {"train", "left"}
     \/ \A r \in Ranks : pc[r] \notin {"left", "lost"} /\ Partner(pc[r]) = Partner(pc[Lead])

\* What the lead says is true of its exchange until it has been adopted.
WordsInv ==
  /\ words \in [Ranks -> [out: {"none", "adopt", "fail"}, steps: Advice, frag: Fragment]]
  /\ pc[Lead] \in {"out", "outcome"} /\ words[Lead].out = "adopt" =>
       call.state = "answered" /\ words[Lead].frag = call.frag
  /\ pc[Lead] = "outcome" => words[Lead].out # "none"
  /\ pc[Lead] \in {"adopt", "adoptAll"} =>
       /\ call.state = "answered" /\ words[Lead].frag = call.frag
       /\ \A r \in Ranks : words[r] = words[Lead]

\* The ranks count alike, and their slices are those of the lead's backup.
EqualInv ==
  /\ shard \in [Ranks -> [Fragment -> [model: Seq(Interval), since: 0..MaxSteps]]]
  /\ fragIdx \in [Ranks -> Fragment]
  /\ localStep \in [Ranks -> 0..MaxSteps] /\ trained \in [Ranks -> 0..MaxSteps]
  /\ syncEvery \in [Ranks -> Nat \ {0}]
  /\ baseline \in [Fragment -> Seq(Interval)] /\ baseRev \in Nat /\ resync \in BOOLEAN
  /\ \A r \in Ranks :
       /\ fragIdx[r] = fragIdx[Lead] /\ syncEvery[r] = syncEvery[Lead]
       /\ trained[r] = trained[Lead] /\ localStep[r] = localStep[Lead]
       /\ localStep[r] <= trained[r]
       /\ shard[r] = shard[Lead]
  /\ \A f \in Fragment : shard[Lead][f].model = baseline[f]

\* What an island's invariant consists of.
IslandInv == ServerInv /\ PlaceInv /\ WordsInv /\ EqualInv

\* A push is under way from its gather till it is joined, and what must be
\* resynced is not pushed.
FlightInv ==
  /\ call.state = "none" => call.kind = "pull"
  /\ resync => call.kind = "pull" /\ pc[Lead] \notin {"join", "adopt", "gather", "posting"}
  /\ pc[Lead] \in {"out", "outcome"} /\ words[Lead].out # "adopt" => call.kind = "pull"
  /\ pc[Lead] = "out" /\ words[Lead].out # "fail" => ~resync
  /\ pc[Lead] \in {"gather", "pull"} => call.kind = "pull"
  /\ fragments = 1 /\ pc[Lead] \in {"train", "gate", "act"} => call.kind = "pull"

\* The lead counts a fragment's next work from where all of the last was done.
CountInv ==
  /\ ApartInv
  /\ \A f \in Fragment : DoneBy(f, trained[Lead])
  /\ call.kind = "push" => call.work.to <= trained[Lead]
  /\ ~resync /\ pc[Lead] \notin {"left", "lost"} =>
       \A f \in Fragment : ~(call.kind = "push" /\ call.frag = f) => DoneBy(f, shard[Lead][f].since)

\* Before a restore, the server's model has grown from the lead's baseline.
GrowthInv ==
  /\ faults["server"] <= MaxFaults["server"]
  /\ faults["server"] = MaxFaults["server"] =>
       Grown /\ \A f \in Fragment : IsPrefix(baseline[f], log[f])

ExchangeInv == IslandInv /\ FlightInv /\ CountInv /\ GrowthInv
=============================================================================
