-------------------------------- MODULE Splice --------------------------------
(***************************************************************************)
(* A model served by a pipeline of stages.  Stage 0 takes the requests,    *)
(* decides who joins and sends one control frame per step down the chain;  *)
(* every stage runs the same scheduler on the same frames.  Hidden states  *)
(* flow down with the step, the sampled tokens come back to stage 0 over   *)
(* the ring.  Two drivers share the followers' code:                       *)
(*   mode 0      lockstep: a step blocks until its tokens are back, and    *)
(*               every stage is told them;                                 *)
(*   mode G > 0  waves: the requests form G groups; a group may be stepped *)
(*               while the frames of another are under way, and only stage *)
(*               0 ever sees true tokens.                                  *)
(*                                                                         *)
(* The links are first-in first-out.  A token is its request, its number   *)
(* and whether it ends the text; the engine is a scheduler of requests.    *)
(* The tensor-parallel ranks of a stage act as one.                        *)
(*                                                                         *)
(* Definitions named Faulty... are plausible mistakes in the code: put in  *)
(* place of the definition that follows them, each breaks a property.      *)
(***************************************************************************)
EXTENDS Integers, FiniteSets, Sequences, FiniteSetsExt, SequencesExt

CONSTANTS
  Requests,
  MaxTokens,    \* per request
  Modes,        \* values of --waves looked at
  LastStage,         \* the last stage; stages are 0..LastStage
  Cap,          \* requests the engine runs at once
  MaxIncidents, \* bound, per mode: clients that leave, swaps asked for and steps that raise
  MaxFrames     \* bound: frames on all links down

ASSUME SpliceAssumption ==
  /\ MaxTokens \in [Requests -> Nat \ {0}]
  /\ Modes \subseteq Nat /\ {LastStage, Cap, MaxFrames} \subseteq Nat \ {0}
  /\ MaxIncidents \in [Modes -> Nat]

VARIABLES
  mode,
  client,       \* per request: "new", "open", "gone" or "done"
  inbox,        \* requests not yet admitted
  aborts,       \* _aborts: requests whose client has left
  reload,       \* _pending_reload
  pc,           \* per stage: what its driver waits for
  eng,          \* per stage: running, waiting, and the tokens booked per request
  waveOf,       \* per stage: wave_of
  rows,         \* per stage: the requests of the step under way
  weights,      \* per stage: weight swaps applied
  down, ring,   \* frames on the links
  byWave, live, rowQ, outstanding, nextWave,   \* the wave driver of stage 0
  told,         \* per request: the tokens stage 0 took for its own
  failed, reloads

engines == <<pc, eng, waveOf, rows, weights>>
waves == <<byWave, live, rowQ, outstanding, nextWave>>
vars == <<mode, client, inbox, aborts, reload, engines, down, ring, waves, told, failed, reloads>>

Stages == 0..LastStage
Waves == UNION {0..(m - 1) : m \in Modes}
InMode == 0..(mode - 1)
NoWave == -1

Init ==
  /\ mode \in Modes
  /\ client = [r \in Requests |-> "new"]
  /\ inbox = <<>> /\ aborts = <<>> /\ reload = FALSE
  /\ pc = [s \in Stages |-> IF s = 0 THEN "loop" ELSE "ctl"]
  /\ eng = [s \in Stages |-> [running |-> <<>>, waiting |-> <<>>, booked |-> [r \in Requests |-> 0]]]
  /\ waveOf = [s \in Stages |-> [r \in Requests |-> NoWave]]
  /\ rows = [s \in Stages |-> <<>>]
  /\ weights = [s \in Stages |-> 0]
  /\ down = [s \in 0..(LastStage - 1) |-> <<>>] /\ ring = <<>>
  /\ byWave = [w \in Waves |-> <<>>] /\ live = [w \in Waves |-> {}]
  /\ rowQ = [w \in Waves |-> <<>>] /\ outstanding = [w \in Waves |-> FALSE] /\ nextWave = 0
  /\ told = [r \in Requests |-> <<>>]
  /\ failed = 0 /\ reloads = 0

-----------------------------------------------------------------------------
(***************************************************************************)
(* The HTTP thread of stage 0.                                             *)
(***************************************************************************)
Incidents == failed + reloads + Cardinality({r \in Requests : client[r] = "gone"})

Submit(r) ==
  /\ client[r] = "new"
  /\ client' = [client EXCEPT ![r] = "open"]
  /\ inbox' = Append(inbox, r)
  /\ UNCHANGED <<mode, aborts, reload, engines, down, ring, waves, told, failed, reloads>>

\* The client of a stream disconnects, perhaps with the end already in its queue.
ClientGone(r) ==
  /\ client[r] \in {"open", "done"}
  /\ Incidents < MaxIncidents[mode]
  /\ client' = [client EXCEPT ![r] = "gone"]
  /\ aborts' = Append(aborts, r)
  /\ UNCHANGED <<mode, inbox, reload, engines, down, ring, waves, told, failed, reloads>>

AskReload ==
  /\ Incidents < MaxIncidents[mode]
  /\ reload' = TRUE /\ reloads' = reloads + 1
  /\ UNCHANGED <<mode, client, inbox, aborts, engines, down, ring, waves, told, failed>>

-----------------------------------------------------------------------------
(***************************************************************************)
(* The engine: what one step schedules, and what it books afterwards.      *)
(***************************************************************************)
\* The elements of q that are in S, in their order.
Keep(q, S) ==
  LET kept[n \in 0..Len(q)] ==
        IF n = 0 THEN <<>> ELSE IF q[n] \in S THEN Append(kept[n - 1], q[n]) ELSE kept[n - 1]
  IN  kept[Len(q)]

Without(q, gone) == Keep(q, Requests \ ToSet(gone))

\* _step_wave masks both queues of the scheduler; lockstep steps everybody.
Mine(of, w) == {r \in Requests : w = NoWave \/ of[r] = w}

Room(n) == IF n < Cap THEN Cap - n ELSE 0

Schedule(e, own) ==
  LET old  == Keep(e.running, own)
      kept == Keep(e.waiting, own)
      free == Room(Len(old))
  IN old \o SubSeq(kept, 1, IF Len(kept) < free THEN Len(kept) ELSE free)

\* After the step: the scheduled first, then the masked; a masked waiting
\* request goes behind those that could have been scheduled.
AfterStep(e, own, sched) ==
  LET other == Requests \ own
  IN [running |-> sched \o Keep(e.running, other),
      waiting |-> Without(Keep(e.waiting, own), sched) \o Keep(e.waiting, other),
      booked  |-> e.booked]

\* Every scheduled request gets a token; the engine drops it at its length, or
\* when it is told that the text has ended.
Ends(e, r, ended) == e.booked[r] + 1 = MaxTokens[r] \/ r \in ended
Book(e, sched, ended) ==
  [running |-> Keep(e.running, {r \in Requests : ~(r \in ToSet(sched) /\ Ends(e, r, ended))}),
   waiting |-> e.waiting,
   booked  |-> [r \in Requests |-> IF r \in ToSet(sched) THEN e.booked[r] + 1 ELSE e.booked[r]]]

\* What every stage does with a control frame before the step.
Applied(e, f) ==
  [running |-> Without(e.running, f.aborts), waiting |-> Without(e.waiting, f.aborts) \o f.admits,
   booked  |-> e.booked]
Mapped(of, f) ==
  [r \in Requests |-> IF r \in ToSet(f.admits) THEN f.wave
                      ELSE IF r \in ToSet(f.aborts) THEN NoWave ELSE of[r]]
FaultySwapped(s, f) == IF f.reload /\ (s = 0 \/ f.step) THEN weights[s] + 1 ELSE weights[s]
Swapped(s, f) == IF f.reload THEN weights[s] + 1 ELSE weights[s]

Hr(w, sched, version) == [tag |-> "hr", wave |-> w, rows |-> sched, weights |-> version]
Tok(w, toks) == [tag |-> "tok", wave |-> w, toks |-> toks]
FaultyNextIsLast(s) == FALSE
NextIsLast(s) == s + 1 = LastStage
Ended(toks) == {t.of : t \in {u \in ToSet(toks) : u.eos}}

-----------------------------------------------------------------------------
(***************************************************************************)
(* A follower: run_follower and run_follower_waves with the hooks.  A      *)
(* frame of another tag than the one expected ends it.                     *)
(***************************************************************************)
Upstream(s) == down[s - 1]
Rest(s) == [down EXCEPT ![s - 1] = Tail(@)]
Dies(s) == pc' = [pc EXCEPT ![s] = "dead"] /\ UNCHANGED <<eng, waveOf, rows, weights, ring>>

TakeCtl(s) ==
  /\ pc[s] = "ctl" /\ Upstream(s) # <<>>
  /\ \E f \in {Head(Upstream(s))} :
        IF f.tag # "ctl" THEN Dies(s) /\ down' = Rest(s)
        ELSE \E of \in {Mapped(waveOf[s], f)}, e \in {Applied(eng[s], f)} :
             \E own \in {Mine(of, f.wave)} : \E sched \in {Schedule(e, own)} :
             /\ down' = IF s = LastStage THEN Rest(s) ELSE [Rest(s) EXCEPT ![s] = Append(@, f)]
             /\ weights' = [weights EXCEPT ![s] = Swapped(s, f)]
             /\ waveOf' = [waveOf EXCEPT ![s] = of]
             /\ IF f.step
                THEN /\ eng' = [eng EXCEPT ![s] = AfterStep(e, own, sched)]
                     /\ rows' = [rows EXCEPT ![s] = sched]
                     /\ pc' = [pc EXCEPT ![s] = IF sched = <<>> THEN "ctl" ELSE "hr"]
                ELSE eng' = [eng EXCEPT ![s] = e] /\ UNCHANGED <<rows, pc>>
             /\ UNCHANGED ring
  /\ UNCHANGED <<mode, client, inbox, aborts, reload, waves, told, failed, reloads>>

\* The forward pass: inject, ship, and the sampler tap.
Sampled(s, sched, ended) ==
  [i \in 1..Len(sched) |-> [of |-> sched[i], nr |-> eng[s].booked[sched[i]] + 1, eos |-> sched[i] \in ended]]

TakeHr(s) ==
  /\ pc[s] = "hr" /\ Upstream(s) # <<>>
  /\ LET f == Head(Upstream(s))
     IN IF f.tag # "hr" THEN Dies(s) /\ down' = Rest(s)
        ELSE /\ IF s = LastStage
                THEN \E ended \in SUBSET ToSet(rows[s]) :
                       /\ ring' = Append(ring, Tok(f.wave, Sampled(s, rows[s], ended)))
                       /\ eng' = [eng EXCEPT ![s] = Book(@, rows[s], IF mode = 0 THEN ended ELSE {})]
                       /\ pc' = [pc EXCEPT ![s] = "ctl"]
                       /\ down' = Rest(s)
                ELSE /\ down' = [Rest(s) EXCEPT ![s] = Append(@, Hr(f.wave, rows[s], weights[s]))]
                     /\ IF mode = 0
                        THEN pc' = [pc EXCEPT ![s] = "tok"] /\ UNCHANGED eng
                        ELSE pc' = [pc EXCEPT ![s] = "ctl"] /\ eng' = [eng EXCEPT ![s] = Book(@, rows[s], {})]
                     /\ UNCHANGED ring
             /\ UNCHANGED <<waveOf, rows, weights>>
  /\ UNCHANGED <<mode, client, inbox, aborts, reload, waves, told, failed, reloads>>

\* Lockstep: a middle stage is told the tokens by its upstream neighbour and
\* tells the next one, unless that is the last.
TakeTok(s) ==
  /\ pc[s] = "tok" /\ Upstream(s) # <<>>
  /\ LET f == Head(Upstream(s))
     IN IF f.tag # "tok" THEN Dies(s) /\ down' = Rest(s)
        ELSE /\ down' = IF NextIsLast(s) THEN Rest(s) ELSE [Rest(s) EXCEPT ![s] = Append(@, f)]
             /\ eng' = [eng EXCEPT ![s] = Book(@, rows[s], Ended(f.toks))]
             /\ pc' = [pc EXCEPT ![s] = "ctl"]
             /\ UNCHANGED <<waveOf, rows, weights, ring>>
  /\ UNCHANGED <<mode, client, inbox, aborts, reload, waves, told, failed, reloads>>

-----------------------------------------------------------------------------
(***************************************************************************)
(* Stage 0 in lockstep: run_first.                                         *)
(***************************************************************************)
Unfinished == eng[0].running # <<>> \/ eng[0].waiting # <<>>
LinksFree == MapThenSumSet(LAMBDA s : Len(down[s]), DOMAIN down) + 2 <= MaxFrames
Frame(admits, step, gone, w) == [tag |-> "ctl", admits |-> admits, step |-> step, aborts |-> gone,
                                 reload |-> reload, wave |-> w]

\* One frame and the step it announces; hr says whether the forward pass got
\* as far as shipping its output.
Emit(frame, outcome) ==
  \E f \in {frame} :
  \E of \in {Mapped(waveOf[0], f)}, e \in {Applied(eng[0], f)} :
  \E own \in {Mine(of, f.wave)} : \E sched \in {Schedule(e, own)} : \E after \in {AfterStep(e, own, sched)} :
     /\ reload' = FALSE
     /\ weights' = [weights EXCEPT ![0] = Swapped(0, f)]
     /\ waveOf' = [waveOf EXCEPT ![0] = of]
     /\ rows' = [rows EXCEPT ![0] = sched]
     /\ eng' = [eng EXCEPT ![0] = IF outcome # "stepped" THEN e
                                 ELSE IF mode = 0 THEN after ELSE Book(after, sched, {})]
     /\ down' = [down EXCEPT ![0] = @ \o (IF outcome # "raised" /\ sched # <<>>
                                        THEN <<f, Hr(f.wave, sched, weights'[0])>> ELSE <<f>>)]

LockstepFrame == Frame(inbox, TRUE, aborts, NoWave)
MayStep == mode = 0 /\ pc[0] = "loop" /\ (Unfinished \/ inbox # <<>>) /\ LinksFree

LockstepStep ==
  /\ MayStep
  /\ Emit(LockstepFrame, "stepped")
  /\ pc' = [pc EXCEPT ![0] = IF rows'[0] = <<>> THEN "loop" ELSE "tok"]
  /\ inbox' = <<>> /\ aborts' = <<>>
  /\ UNCHANGED <<mode, client, ring, waves, told, failed, reloads>>

\* Deliver tokens to the clients that are still there.
Tell(toks, done) ==
  /\ told' = [r \in Requests |-> IF \E t \in toks : t.of = r
                                 THEN Append(told[r], CHOOSE t \in toks : t.of = r) ELSE told[r]]
  /\ client' = [r \in Requests |-> IF client[r] = "open" /\ r \in done THEN "done" ELSE client[r]]

\* The sampler tap of stage 0 blocks on the ring and forwards the tokens.
LockstepToken ==
  /\ mode = 0 /\ pc[0] = "tok" /\ ring # <<>> /\ LinksFree
  /\ LET f == Head(ring)
         e == Book(eng[0], rows[0], Ended(f.toks))
     IN /\ ring' = Tail(ring)
        /\ down' = IF NextIsLast(0) THEN down ELSE [down EXCEPT ![0] = Append(@, f)]
        /\ eng' = [eng EXCEPT ![0] = e]
        /\ Tell(ToSet(f.toks), ToSet(rows[0]) \ ToSet(e.running))
  /\ pc' = [pc EXCEPT ![0] = "loop"]
  /\ UNCHANGED <<mode, inbox, aborts, reload, waveOf, rows, weights, waves, failed, reloads>>

\* The step raises before the forward pass has shipped anything: the clients
\* of the admitted get the error, and the loop goes on.
Raises(admits) ==
  /\ Incidents < MaxIncidents[mode] /\ failed' = failed + 1
  /\ client' = [r \in Requests |-> IF client[r] = "open" /\ r \in ToSet(admits) THEN "done" ELSE client[r]]

LockstepFails ==
  /\ MayStep /\ Raises(inbox)
  /\ Emit(LockstepFrame, "raised")
  /\ inbox' = <<>> /\ aborts' = <<>>
  /\ UNCHANGED <<mode, pc, ring, waves, told, reloads>>

-----------------------------------------------------------------------------
(***************************************************************************)
(* Stage 0 in waves: run_first_waves.                                      *)
(***************************************************************************)
\* Wave w's next frame on the ring; the reader thread keeps a queue per wave.
Arrived(w) == \E j \in DOMAIN ring : ring[j].wave = w
First(w) == CHOOSE j \in DOMAIN ring : ring[j].wave = w /\ \A k \in 1..(j - 1) : ring[k].wave # w

\* zip(rids, toks): the rows queued at the step name the tokens.
Named(names, toks) ==
  [i \in DOMAIN names \cap DOMAIN toks |-> [of |-> names[i], by |-> toks[i].of, nr |-> toks[i].nr, eos |-> toks[i].eos]]

FaultyStops(ended, length) == <<>>
\* Only stage 0 sees the end of a text: it stops the request by an abort.
Stops(ended, length) == SetToSeq(ended \ length)

LengthDone(r, n) == n >= MaxTokens[r]

\* A request that ends by its text stays in its wave until its abort is emitted.
Unmapped(of, done, ended) == [r \in Requests |-> IF r \in done THEN NoWave ELSE of[r]]

Absorb(w) ==
  /\ mode > 0 /\ pc[0] = "loop" /\ w \in InMode /\ Arrived(w)
  /\ ring' = RemoveAt(ring, First(w))
  /\ outstanding' = [outstanding EXCEPT ![w] = FALSE]
  /\ IF rowQ[w] = <<>> THEN UNCHANGED <<client, told, rowQ, live, byWave, waveOf>>
     ELSE LET all == Named(Head(rowQ[w]), ring[First(w)].toks)
              named == {t \in ToSet(all) : t.of \in live[w]}
              length == {t.of : t \in {u \in named : LengthDone(u.of, Len(told[u.of]) + 1)}}
              ended == {t.of : t \in {u \in named : u.eos}}
          IN /\ rowQ' = [rowQ EXCEPT ![w] = Tail(@)]
             /\ Tell(named, length \cup ended)
             /\ live' = [live EXCEPT ![w] = @ \ (length \cup ended)]
             /\ byWave' = [byWave EXCEPT ![w] = @ \o Stops(ended, length)]
             /\ waveOf' = [waveOf EXCEPT ![0] = Unmapped(@, length, ended)]
  /\ UNCHANGED <<mode, inbox, aborts, reload, pc, eng, rows, weights, down, nextWave, failed, reloads>>

\* Clients that left are routed to the wave of their request.
Route ==
  /\ mode > 0 /\ pc[0] = "loop" /\ aborts # <<>>
  /\ aborts' = <<>>
  /\ byWave' = [w \in Waves |-> byWave[w] \o Keep(aborts, {r \in Requests : waveOf[0][r] = w})]
  /\ UNCHANGED <<mode, client, inbox, reload, engines, down, ring, live, rowQ, outstanding, nextWave, told, failed, reloads>>

Joining(w) ==
  IF \A v \in InMode : Cardinality(live[w]) <= Cardinality(live[v]) THEN inbox ELSE <<>>

FaultyEligible(w) == Joining(w) # <<>> \/ live[w] # {} \/ byWave[w] # <<>>
Eligible(w) == ~outstanding[w] /\ (Joining(w) # <<>> \/ live[w] # {} \/ byWave[w] # <<>>)

Turn(w) == (w - nextWave) % mode
Chosen(w) == Eligible(w) /\ \A v \in InMode : Eligible(v) => Turn(w) <= Turn(v)

WaveFrame(w) == Frame(Joining(w), TRUE, byWave[w], w)
MayStepWave(w) == mode > 0 /\ pc[0] = "loop" /\ w \in InMode /\ LinksFree /\ Chosen(w)

TakenFrom(w) ==
  /\ inbox' = (IF Joining(w) = <<>> THEN inbox ELSE <<>>)
  /\ byWave' = [byWave EXCEPT ![w] = <<>>]

FaultyQueued(w, sched) == IF sched = <<>> THEN rowQ[w] ELSE Append(rowQ[w], SetToSeq(live[w] \cup ToSet(Joining(w))))
\* The rows the tap saw name the tokens of the frame that will come back.
Queued(w, sched) == IF sched = <<>> THEN rowQ[w] ELSE Append(rowQ[w], sched)

FaultyInFlight(sched) == TRUE
\* A step that samples nothing brings no frame back.
InFlight(sched) == sched # <<>>

StepWave(w) ==
  /\ MayStepWave(w)
  /\ Emit(WaveFrame(w), "stepped") /\ TakenFrom(w)
  /\ live' = [live EXCEPT ![w] = @ \cup ToSet(Joining(w))]
  /\ rowQ' = [rowQ EXCEPT ![w] = Queued(w, rows'[0])]
  /\ outstanding' = [outstanding EXCEPT ![w] = InFlight(rows'[0])]
  /\ nextWave' = (w + 1) % mode
  /\ UNCHANGED <<mode, client, aborts, pc, ring, told, failed, reloads>>

\* The step raises, before its output was shipped or after: the wave is not
\* marked in flight, and those admitted are no longer live.
StepWaveFails(w) == \E outcome \in {"raised", "shipped"} :
  /\ MayStepWave(w) /\ Raises(Joining(w))
  /\ Emit(WaveFrame(w), outcome) /\ TakenFrom(w)
  /\ UNCHANGED <<mode, aborts, pc, ring, live, rowQ, outstanding, nextWave, told, reloads>>

\* While no wave may step, the loop takes the oldest request and puts it back last.
Requeue ==
  /\ mode > 0 /\ pc[0] = "loop" /\ Len(inbox) > 1 /\ \A w \in InMode : ~Eligible(w)
  /\ inbox' = Append(Tail(inbox), Head(inbox))
  /\ UNCHANGED <<mode, client, aborts, reload, engines, down, ring, waves, told, failed, reloads>>

-----------------------------------------------------------------------------
\* The frame of an idle stage 0; one that carries nothing is left out.
Idle ==
  /\ pc[0] = "loop" /\ inbox = <<>>
  /\ IF mode = 0 THEN ~Unfinished
     ELSE \A w \in InMode : ~outstanding[w] /\ ~Eligible(w)

Heartbeat ==
  /\ Idle /\ (aborts # <<>> \/ reload) /\ LinksFree
  /\ LET f == Frame(<<>>, FALSE, aborts, NoWave)
     IN /\ down' = [down EXCEPT ![0] = Append(@, f)]
        /\ eng' = [eng EXCEPT ![0] = Applied(@, f)]
        /\ waveOf' = [waveOf EXCEPT ![0] = Mapped(@, f)]
        /\ weights' = [weights EXCEPT ![0] = Swapped(0, f)]
  /\ aborts' = <<>> /\ reload' = FALSE
  /\ UNCHANGED <<mode, client, inbox, pc, rows, ring, waves, told, failed, reloads>>

Drive == LockstepStep \/ LockstepToken \/ Heartbeat \/ Route \/ \E w \in Waves : StepWave(w)
Follow(s) == s > 0 /\ (TakeCtl(s) \/ TakeHr(s) \/ (s < LastStage /\ TakeTok(s)))

Next ==
  \/ \E r \in Requests : Submit(r) \/ ClientGone(r)
  \/ AskReload
  \/ Drive \/ Requeue \/ LockstepFails \/ \E w \in Waves : Absorb(w) \/ StepWaveFails(w)
  \/ \E s \in Stages : Follow(s)

\* The driver threads run, and each pass of the wave driver absorbs what has come.
Fairness ==
  /\ WF_vars(Drive \/ \E s \in Stages : Follow(s))
  /\ WF_vars(\E w \in Waves : Absorb(w))

Spec == Init /\ [][Next]_vars /\ Fairness

-----------------------------------------------------------------------------
\* Every variable has its type.
TypeOK ==
  /\ client \in [Requests -> {"new", "open", "gone", "done"}]
  /\ \A s \in Stages : pc[s] \in (IF s = 0 THEN {"loop", "tok"} ELSE {"ctl", "hr", "tok", "dead"})
  /\ \A s \in Stages : IsInjective(eng[s].running \o eng[s].waiting)
  /\ \A s \in Stages : \A r \in Requests : eng[s].booked[r] \in 0..MaxTokens[r]
  /\ failed = 0 => (Len(ring) <= IF mode = 0 THEN 1 ELSE mode) /\ \A w \in Waves : Len(rowQ[w]) <= 1

\* Until a step of stage 0 raises, no stage ever receives a frame it does not
\* expect: the schedulers agree on when there is a forward pass.  Afterwards one
\* may, although run_first goes on because "every stage is in the same state":
\* the next stage still waits for that step's hidden states.
InLockstep == failed = 0 => \A s \in Stages : pc[s] # "dead"

\* The hidden states a stage injects were computed for exactly the requests,
\* in the order, that its own scheduler chose, and with the weights of as
\* many swaps as its own.
SameStep ==
  failed = 0 => \A s \in Stages \ {0} :
    pc[s] = "hr" /\ Upstream(s) # <<>> =>
      LET f == Head(Upstream(s)) IN f.rows = rows[s] /\ f.weights = weights[s]

\* Every token stage 0 books for a request was sampled for that request, and
\* they are booked in order without gap.
RightTokens ==
  \A r \in Requests : \A i \in 1..Len(told[r]) :
    told[r][i].nr = i /\ (mode > 0 => told[r][i].by = r)
TokensInOrder == failed = 0 => RightTokens

\* What stage 0 embeds next is a true token: whenever a wave is stepped, in its
\* turn or not, the tokens booked as placeholders for its requests have all been
\* patched.
EmbedsTrueToken ==
  [][\A w \in Waves : failed' = 0 /\ Len(rowQ'[w]) > Len(rowQ[w]) =>
       \A r \in ToSet(rows'[0]) : Len(told[r]) = eng[0].booked[r]]_vars

\* A client that stays gets its text, up to its end, unless a step raised.
EveryoneIsServed ==
  \A r \in Requests : client[r] = "open" ~> (client[r] # "open" \/ failed > 0)

\* No request occupies an engine for ever: those that ended, at the text's
\* end or its length, and those whose clients left, leave all stages.
EnginesEmpty ==
  <>(failed > 0) \/ <>[](\A s \in Stages : eng[s].running = <<>> /\ eng[s].waiting = <<>>)

\* In every step all stages expect the same frames, of the same requests, with
\* the same weights.
StepsAgree == TypeOK /\ InLockstep /\ SameStep

\* Tokens reach the request they were sampled for, in order, and only true ones
\* are embedded.
TokensTrue == []TokensInOrder /\ EmbedsTrueToken

\* Requests are served to their end, and then leave every engine.
RequestsServed == EveryoneIsServed /\ EnginesEmpty

-----------------------------------------------------------------------------
(***************************************************************************)
(* An inductive strengthening of StepsAgree.                               *)
(***************************************************************************)
Links == 0..(LastStage - 1)
Followers == 1..LastStage

\* A sequence, of whatever.
Line(q) == q \in Seq(ToSet(q))

\* The requests an engine has.
Inside(e) == ToSet(e.running) \cup ToSet(e.waiting)

\* In an engine a request waits or runs once, and leaves at its length.
EngineOK(e) ==
  /\ e = [running |-> e.running, waiting |-> e.waiting, booked |-> e.booked]
  /\ e.running \in Seq(Requests) /\ e.waiting \in Seq(Requests)
  /\ IsInjective(e.running \o e.waiting)
  /\ e.booked \in [Requests -> Nat]
  /\ \A r \in Requests : e.booked[r] <= MaxTokens[r]
  /\ \A r \in Inside(e) : e.booked[r] < MaxTokens[r]

EngineInv ==
  \A s \in Stages :
    /\ EngineOK(eng[s])
    /\ pc[s] \in {"hr", "tok"} => ToSet(rows[s]) \subseteq ToSet(eng[s].running)

\* A request reaches each engine once: while it is on its way it is in no other
\* frame, and unknown further down.
Unseen(s, r) == r \notin Inside(eng[s]) /\ eng[s].booked[r] = 0
Brings(s, i, r) == down[s][i].tag = "ctl" /\ r \in ToSet(down[s][i].admits)

Awaited(r) == client[r] = "new" \/ r \in ToSet(inbox)

ArrivalInv ==
  /\ inbox \in Seq(Requests) /\ IsInjective(inbox)
  /\ \A s \in Links : \A i \in DOMAIN down[s] :
       down[s][i].tag = "ctl" => down[s][i].admits \in Seq(Requests) /\ IsInjective(down[s][i].admits)
  /\ \A r \in Requests : Awaited(r) =>
       /\ ~(client[r] = "new" /\ r \in ToSet(inbox))
       /\ \A s \in Stages : Unseen(s, r)
       /\ \A s \in Links : \A i \in DOMAIN down[s] : ~Brings(s, i, r)
  /\ \A s \in Links : \A i \in DOMAIN down[s] : \A r \in Requests : Brings(s, i, r) =>
       /\ \A t \in (s + 1)..LastStage : Unseen(t, r)
       /\ \A t \in Links : \A j \in DOMAIN down[t] : Brings(t, j, r) => t = s /\ j = i

TypeInv ==
  /\ mode \in Modes /\ failed \in Nat
  /\ client \in [Requests -> {"new", "open", "gone", "done"}]
  /\ pc \in [Stages -> {"loop", "ctl", "hr", "tok", "dead"}] /\ pc[0] \in {"loop", "tok"}
  /\ \A s \in Followers : pc[s] # "loop"
  /\ mode > 0 => \A s \in Stages : pc[s] # "tok"
  /\ eng = [s \in Stages |-> eng[s]] /\ waveOf = [s \in Stages |-> waveOf[s]]
  /\ rows \in [Stages -> Seq(Requests)] /\ weights = [s \in Stages |-> weights[s]]
  /\ down = [s \in Links |-> down[s]] /\ \A s \in Links : Line(down[s])
  /\ Line(ring) /\ \A i \in DOMAIN ring : ring[i].tag = "tok"
  /\ told = [r \in Requests |-> told[r]] /\ \A r \in Requests : Line(told[r])
  /\ rowQ = [w \in Waves |-> rowQ[w]] /\ \A w \in Waves : Line(rowQ[w])
  /\ outstanding \in [Waves -> BOOLEAN]

BaseInv == TypeInv /\ EngineInv /\ ArrivalInv

\* What of a stage the next frame works on.
View(at, e, of, sched, version) ==
  [pc |-> at, eng |-> e, rows |-> sched, weights |-> version,
   of |-> [r \in Requests |-> IF r \in Inside(e) THEN of[r] ELSE NoWave]]
Local(s) == View(IF pc[s] = "loop" THEN "ctl" ELSE pc[s], eng[s], waveOf[s], rows[s], weights[s])

Lost(l) == View("dead", l.eng, l.of, l.rows, l.weights)

AfterCtl(l, f) ==
  LET of == Mapped(l.of, f)
      e  == Applied(l.eng, f)
      n  == IF f.reload THEN l.weights + 1 ELSE l.weights
      own == Mine(of, f.wave)
      sched == Schedule(e, own)
  IN  IF f.step THEN View(IF sched = <<>> THEN "ctl" ELSE "hr", AfterStep(e, own, sched), of, sched, n)
      ELSE View("ctl", e, of, l.rows, n)
AfterHr(l, f) ==
  IF f.rows # l.rows \/ f.weights # l.weights THEN Lost(l)
  ELSE IF f.wave = NoWave THEN View("tok", l.eng, l.of, l.rows, l.weights)
  ELSE View("ctl", Book(l.eng, l.rows, {}), l.of, l.rows, l.weights)
AfterTok(l, f) == View("ctl", Book(l.eng, l.rows, Ended(f.toks)), l.of, l.rows, l.weights)

\* A stage after one more frame; the last stage of a lockstep pipeline is
\* looked at as if it were told the tokens as others are.
After(l, f) ==
  IF f.tag # l.pc THEN Lost(l)
  ELSE IF f.tag = "ctl" THEN AfterCtl(l, f) ELSE IF f.tag = "hr" THEN AfterHr(l, f) ELSE AfterTok(l, f)

Path(l, q) == LET at[n \in 0..Len(q)] == IF n = 0 THEN l ELSE After(at[n - 1], q[n]) IN at
Follows(l, q, m) == Path(l, q)[Len(q)] = m /\ \A n \in 0..Len(q) : Path(l, q)[n].pc # "dead"

Answers == ToSet(ring) \cup UNION {{f \in ToSet(down[s]) : f.tag = "tok"} : s \in Links}

\* The frames on its way turn each stage into the one before it: and the last
\* stage of a lockstep pipeline is ahead while its tokens come round.
Ahead(s) == s = LastStage /\ mode = 0 /\ pc[s - 1] = "tok" /\ down[s - 1] = <<>>
AgreeInv ==
  \A s \in Followers :
    IF Ahead(s) THEN pc[s] = "ctl" /\ \A f \in Answers : Local(s) = AfterTok(Local(s - 1), f)
    ELSE Follows(Local(s), down[s - 1], Local(s - 1))

\* In lockstep one step is under way, and its tokens come before the next.
OrderInv == mode = 0 =>
  /\ \A w \in Waves : rowQ[w] = <<>>
  /\ ring # <<>> => Len(ring) = 1 /\ \A s \in Links : pc[s] = "tok" /\ down[s] = <<>>
  /\ \A s \in Links : \A i \in DOMAIN down[s] :
       /\ down[s][i].tag = "tok" =>
            i = 1 /\ \A t \in Links : t > s => pc[t] = "tok" /\ down[t] = <<>>
       /\ down[s][i].tag = "hr" =>
            /\ i = Len(down[s]) /\ down[s][i].wave = NoWave
            /\ \A t \in Links : t <= s => pc[t] = "tok" /\ (t < s => down[t] = <<>>)

\* In waves each wave has one step under way at most, and one row of names: the
\* ring is the link after the last stage.
Link(s) == IF s = LastStage THEN ring ELSE down[s]
Carries(s, i, w) == Link(s)[i].tag # "ctl" /\ Link(s)[i].wave = w
WaveInv == mode > 0 =>
  \A s \in Stages : \A i \in DOMAIN Link(s) : Link(s)[i].tag # "ctl" =>
    /\ Link(s)[i].wave \in InMode /\ outstanding[Link(s)[i].wave]
    /\ \A t \in Stages : \A j \in DOMAIN Link(t) : Carries(t, j, Link(s)[i].wave) => t = s /\ j = i

\* In waves stage 0 never has fewer tokens booked than it was told.
ToldInv == mode > 0 =>
  /\ \A r \in Requests : Len(told[r]) <= eng[0].booked[r]
  /\ \A w \in Waves : rowQ[w] # <<>> =>
       /\ Len(rowQ[w]) = 1 /\ w \in InMode /\ outstanding[w] /\ Line(rowQ[w][1])
       /\ \A r \in ToSet(rowQ[w][1]) :
            /\ r \in Requests /\ Len(told[r]) < eng[0].booked[r] /\ waveOf[0][r] \in {w, NoWave}
            /\ \A v \in Waves \ {w} : rowQ[v] # <<>> => r \notin ToSet(rowQ[v][1])

AgreedInv == AgreeInv /\ OrderInv /\ WaveInv /\ ToldInv
IInv == BaseInv /\ (failed = 0 => AgreedInv)

(***************************************************************************)
(* An inductive strengthening of TokensInOrder.                            *)
(***************************************************************************)
\* The tokens are those of the named requests, each of its number.
Stamped(toks, names, ahead) ==
  /\ DOMAIN toks = DOMAIN names
  /\ \A i \in DOMAIN names : toks[i].of = names[i] /\ toks[i].nr = eng[0].booked[names[i]] + ahead

\* In lockstep stage 0 books what it is told.
SoloInv == mode = 0 =>
  /\ \A r \in Requests : Len(told[r]) = eng[0].booked[r]
  /\ \A j \in DOMAIN ring : Stamped(ring[j].toks, rows[0], 1)

\* In waves the names that stage 0 queued are those of the step under way.
NamesInv == mode > 0 =>
  /\ \A s \in Links : \A i \in DOMAIN down[s] : down[s][i].tag = "hr" =>
       rowQ[down[s][i].wave] # <<>> /\ down[s][i].rows = rowQ[down[s][i].wave][1]
  /\ \A j \in DOMAIN ring :
       rowQ[ring[j].wave] # <<>> /\ Stamped(ring[j].toks, rowQ[ring[j].wave][1], 0)

\* Stage t has booked what stage 0 has, but for the step that is on its way to it.
Coming(t, r) ==
  \E u \in Links : u < t /\ \E i \in DOMAIN down[u] : down[u][i].tag = "hr" /\ r \in ToSet(down[u][i].rows)
CountInv == mode > 0 =>
  \A t \in Followers : \A r \in Requests :
    eng[0].booked[r] = IF Coming(t, r) THEN eng[t].booked[r] + 1 ELSE eng[t].booked[r]

\* A live request is told all that is booked for it; and one that is not leaves
\* the engine before its wave is stepped again.
InRow(w, r) == rowQ[w] # <<>> /\ r \in ToSet(rowQ[w][1])
BooksInv == mode > 0 =>
  /\ live \in [Waves -> SUBSET Requests] /\ byWave \in [Waves -> Seq(Requests)] /\ aborts \in Seq(Requests)
  /\ \A w \in Waves : \A r \in live[w] :
       /\ ~Awaited(r) /\ waveOf[0][r] \in {w, NoWave} /\ \A v \in Waves \ {w} : r \notin live[v]
       /\ eng[0].booked[r] = IF InRow(w, r) THEN Len(told[r]) + 1 ELSE Len(told[r])
  /\ \A w \in Waves : \A r \in Requests : waveOf[0][r] = w => r \in live[w] \/ r \in ToSet(byWave[w])

TokenInv == SoloInv /\ NamesInv /\ CountInv /\ BooksInv /\ RightTokens
JInv == IInv /\ (failed = 0 => TokenInv)
=============================================================================
