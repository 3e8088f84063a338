--------------------------- MODULE RolloutPoolProofs ---------------------------
(***************************************************************************)
(* Rollouts are used once and fresh: proofs that, for any workers,         *)
(* learners, scenarios and faults, a group is trained at most once, that   *)
(* no window is counted twice or left out unless an answer is lost, that   *)
(* what is trained is no staler than allowed, and that stamps are true.    *)
(***************************************************************************)
EXTENDS RolloutPool, FiniteSetTheorems, SequenceTheorems, TLAPS

-----------------------------------------------------------------------------
(* Lines of groups. *)

LEMMA EmptyLine ==
  /\ <<>> \in Seq(Groups) /\ Len(<<>>) = 0 /\ ToSet(<<>>) = {} /\ IsInjective(<<>>)
  BY DEF ToSet, IsInjective

LEMMA LineValues ==
  ASSUME NEW S, NEW q \in Seq(S)
  PROVE  /\ ToSet(q) \subseteq S /\ Len(q) \in Nat
         /\ Len(q) = 0 <=> q = <<>>
         /\ \A g \in ToSet(q) : \E i \in 1..Len(q) : q[i] = g
         /\ \A i \in 1..Len(q) : q[i] \in ToSet(q)
  BY DEF ToSet

LEMMA TailLine ==
  ASSUME NEW S, NEW q \in Seq(S), q # <<>>
  PROVE  /\ Tail(q) \in Seq(S) /\ Head(q) \in S /\ Head(q) \in ToSet(q)
         /\ Len(Tail(q)) = Len(q) - 1 /\ ToSet(Tail(q)) \subseteq ToSet(q)
         /\ IsInjective(q) => IsInjective(Tail(q)) /\ Head(q) \notin ToSet(Tail(q))
<1>1. /\ Len(q) \in Nat /\ Len(q) > 0 /\ Head(q) = q[1] /\ Tail(q) \in Seq(S)
      /\ Len(Tail(q)) = Len(q) - 1 /\ \A i \in 1..Len(q) - 1 : Tail(q)[i] = q[i + 1]
  OBVIOUS
<1>2. DOMAIN q = 1..Len(q) /\ DOMAIN Tail(q) = 1..Len(q) - 1
  BY <1>1
<1>3. IsInjective(q) => IsInjective(Tail(q)) /\ Head(q) \notin ToSet(Tail(q))
  BY <1>1, <1>2 DEF IsInjective, ToSet
<1> QED BY <1>1, <1>2, <1>3 DEF ToSet

LEMMA AppendLine ==
  ASSUME NEW S, NEW q \in Seq(S), NEW g \in S
  PROVE  /\ Append(q, g) \in Seq(S) /\ Len(Append(q, g)) = Len(q) + 1
         /\ ToSet(Append(q, g)) = ToSet(q) \cup {g}
         /\ q \o <<g>> = Append(q, g)
         /\ IsInjective(q) /\ g \notin ToSet(q) => IsInjective(Append(q, g))
<1>1. /\ Len(q) \in Nat /\ Append(q, g) \in Seq(S) /\ Len(Append(q, g)) = Len(q) + 1
      /\ Append(q, g)[Len(q) + 1] = g /\ \A i \in 1..Len(q) : Append(q, g)[i] = q[i]
  OBVIOUS
<1>2. DOMAIN q = 1..Len(q) /\ DOMAIN Append(q, g) = 1..Len(q) + 1
  BY <1>1
<1>3. ToSet(Append(q, g)) = ToSet(q) \cup {g}
  BY <1>1, <1>2 DEF ToSet
<1>4. IsInjective(q) /\ g \notin ToSet(q) => IsInjective(Append(q, g))
  BY <1>1, <1>2 DEF IsInjective, ToSet
<1>5. q \o <<g>> = Append(q, g)
  OBVIOUS
<1> QED BY <1>1, <1>3, <1>4, <1>5

\* A line that keeps its groups, loses the first one, or all of them.
Shrunk(p, q) == p = q \/ p = <<>> \/ (q # <<>> /\ p = Tail(q))

LEMMA ShrunkLine ==
  ASSUME NEW q \in Seq(Groups), NEW p, Shrunk(p, q)
  PROVE  /\ p \in Seq(Groups) /\ ToSet(p) \subseteq ToSet(q) /\ Len(p) <= Len(q)
         /\ IsInjective(q) => IsInjective(p)
<1>1. CASE p = q
  BY <1>1
<1>2. CASE p = <<>>
  BY <1>2, EmptyLine, LineValues
<1>3. CASE q # <<>> /\ p = Tail(q)
  BY <1>3, TailLine, LineValues
<1> QED BY <1>1, <1>2, <1>3 DEF Shrunk

-----------------------------------------------------------------------------
(* Where groups are. *)

LEMMA Places ==
  ASSUME NEW l
  PROVE  /\ Line("queue", l) = queue /\ Line("consumer", l) = consumer[l]
         /\ Line("buffer", l) = buffer[l] /\ Line("got", l) = learner[l].got
         /\ Content("late", l) = latePush /\ Content("trained", l) = trained
         /\ \A k \in Lines : Content(k, l) = ToSet(Line(k, l))
  BY DEF Line, Content, Lines

LEMMA PlacesThen ==
  ASSUME NEW l
  PROVE  /\ Line("queue", l)' = queue' /\ Line("consumer", l)' = consumer'[l]
         /\ Line("buffer", l)' = buffer'[l] /\ Line("got", l)' = learner'[l].got
         /\ Content("late", l)' = latePush' /\ Content("trained", l)' = trained'
         /\ \A k \in Lines : Content(k, l)' = ToSet(Line(k, l)')
  BY DEF Line, Content, Lines

LEMMA SameContent ==
  ASSUME NEW k \in Kinds, NEW j \in Kinds, NEW l, NEW m, SamePlace(k, l, j, m)
  PROVE  Content(k, l) = Content(j, m) /\ (k \in Lines => Line(k, l) = Line(j, m))
<1>1. CASE k \in {"consumer", "buffer", "got"}
  BY <1>1 DEF SamePlace
<1>2. CASE k = "queue"
  BY <1>2, Places DEF SamePlace, Lines
<1>3. CASE k \in {"late", "trained"}
  BY <1>3, Places DEF SamePlace, Lines
<1> QED BY <1>1, <1>2, <1>3 DEF Kinds, Lines

LEMMA LineTyped ==
  ASSUME Typed, NEW l \in Learners, NEW k \in Lines
  PROVE  Line(k, l) \in Seq(Groups)
  BY Places DEF Typed, Loops, Lines

LEMMA AbroadIs ==
  ASSUME NEW g
  PROVE  (g \in Abroad) <=> \/ g \in ToSet(queue) \/ g \in latePush \/ g \in trained
                           \/ \E l \in Learners : g \in Content("consumer", l) \/ g \in Content("buffer", l)
                                                  \/ g \in Content("got", l)
  BY Places DEF Abroad, Lines

-----------------------------------------------------------------------------
(* A step puts the groups of X in one place, and all others shrink. *)

Into(k0, l0, X) ==
  \A k \in Kinds, l \in Learners :
    ~SamePlace(k, l, k0, l0) =>
      /\ Content(k, l)' \cap X = {}
      /\ k \in Lines => Shrunk(Line(k, l)', Line(k, l))
      /\ k \notin Lines => Content(k, l)' \subseteq Content(k, l)

LEMMA OnceMoves ==
  ASSUME Typed, AtMostOnce, NEW k0 \in Kinds, NEW l0 \in Learners, NEW X, Into(k0, l0, X),
         Content(k0, l0)' \subseteq Content(k0, l0) \cup X,
         k0 \in Lines => IsInjective(Line(k0, l0)')
  PROVE  AtMostOnce'
<1>1. ASSUME NEW k \in Kinds, NEW l \in Learners, ~SamePlace(k, l, k0, l0)
      PROVE  /\ Content(k, l)' \subseteq Content(k, l) /\ Content(k, l)' \cap X = {}
             /\ k \in Lines => IsInjective(Line(k, l)')
  <2>1. CASE k \in Lines
    <3>1. IsInjective(Line(k, l)) /\ Line(k, l) \in Seq(Groups) /\ Shrunk(Line(k, l)', Line(k, l))
      BY <1>1, <2>1, LineTyped DEF AtMostOnce, Into
    <3>2. Content(k, l) = ToSet(Line(k, l)) /\ Content(k, l)' = ToSet(Line(k, l)')
      BY <2>1, Places, PlacesThen
    <3> QED BY <1>1, <3>1, <3>2, ShrunkLine DEF Into
  <2>2. CASE k \notin Lines
    BY <1>1, <2>2 DEF Into
  <2> QED BY <2>1, <2>2
<1>2. ASSUME NEW k \in Kinds, NEW l \in Learners, SamePlace(k, l, k0, l0)
      PROVE  /\ Content(k, l)' = Content(k0, l0)' /\ Content(k, l) = Content(k0, l0)
             /\ k \in Lines => Line(k, l)' = Line(k0, l0)' /\ k0 \in Lines
  <2>1. k = k0
    BY <1>2 DEF SamePlace
  <2>2. Content(k, l) = Content(k0, l0)
    BY <1>2, SameContent
  <2>3. CASE k \in {"consumer", "buffer", "got"}
    BY <1>2, <2>3 DEF SamePlace
  <2>4. CASE k = "queue"
    BY <2>1, <2>2, <2>4, PlacesThen DEF Lines
  <2>5. CASE k \in {"late", "trained"}
    BY <2>1, <2>2, <2>5, PlacesThen DEF Lines
  <2> QED BY <2>3, <2>4, <2>5 DEF Kinds, Lines
<1>3. ASSUME NEW k \in Lines, NEW l \in Learners PROVE IsInjective(Line(k, l))'
  BY <1>1, <1>2 DEF Kinds
<1>4. ASSUME NEW k \in Kinds, NEW j \in Kinds, NEW l \in Learners, NEW m \in Learners,
             ~SamePlace(k, l, j, m)
      PROVE  Content(k, l)' \cap Content(j, m)' = {}
  <2>1. Content(k, l) \cap Content(j, m) = {}
    BY <1>4 DEF AtMostOnce
  <2>2. CASE ~SamePlace(k, l, k0, l0) /\ ~SamePlace(j, m, k0, l0)
    BY <1>1, <2>1, <2>2
  <2>3. CASE SamePlace(k, l, k0, l0) /\ ~SamePlace(j, m, k0, l0)
    BY <1>1, <1>2, <2>1, <2>3
  <2>4. CASE ~SamePlace(k, l, k0, l0) /\ SamePlace(j, m, k0, l0)
    BY <1>1, <1>2, <2>1, <2>4
  <2>5. CASE SamePlace(k, l, k0, l0) /\ SamePlace(j, m, k0, l0)
    BY <1>4, <2>5 DEF SamePlace
  <2> QED BY <2>2, <2>3, <2>4, <2>5
<1>5. \A k \in Lines, l \in Learners : IsInjective(Line(k, l))'
  BY <1>3
<1>6. \A k, j \in Kinds, l, m \in Learners :
        ~SamePlace(k, l, j, m) => Content(k, l)' \cap Content(j, m)' = {}
  BY <1>4
<1>7. \A k, j \in Kinds, l, m \in Learners :
        (~SamePlace(k, l, j, m))' => ~SamePlace(k, l, j, m)
  BY DEF SamePlace
<1> QED BY <1>5, <1>6, <1>7 DEF AtMostOnce

-----------------------------------------------------------------------------
(* Types. *)

Cells == [version: Nat, flight: SUBSET Groups, sent: Nat, serial: Nat]
Pcs == {"window", "sync", "done", "raised", "stalled", "diverged"}

LEMMA ScenarioValues ==
  ASSUME scenario \in Scenarios
  PROVE  /\ strategy \in {"hub", "own"} /\ members \subseteq Learners
         /\ strategy = "own" => \E l \in Learners : members = {l}
         /\ SyncEvery \in Nat \ {0} /\ MaxWindows \in Nat \ {0}
         /\ GroupsPerRound \in Nat \ {0} /\ NumRounds \in Nat \ {0}
         /\ QueueSize \in Nat \ {0} /\ BufferSize \in Nat \ {0} /\ BatchGroups \in Nat \ {0}
         /\ MaxStaleness \in Nat \ {0}
  BY PoolAssumption DEF strategy, members, SyncEvery, MaxWindows, GroupsPerRound, NumRounds

LEMMA CellForms ==
  ASSUME NEW s \in Cells, NEW n \in Nat, NEW F \in SUBSET Groups
  PROVE  /\ [s EXCEPT !.version = n] \in Cells
         /\ [s EXCEPT !.serial = n, !.flight = F] \in Cells
         /\ [s EXCEPT !.flight = F, !.sent = n] \in Cells
  BY DEF Cells

LEMMA LoopForms ==
  ASSUME NEW s \in Loops
  PROVE  /\ \A q \in Seq(Groups) : [s EXCEPT !.got = q] \in Loops
         /\ \A n \in Nat, b \in BOOLEAN :
              [s EXCEPT !.h = n, !.train = s.got, !.got = <<>>, !.collecting = b] \in Loops
         /\ \A p \in Pcs : [s EXCEPT !.pc = p, !.got = <<>>, !.train = <<>>, !.collecting = FALSE] \in Loops
         /\ \A p \in Pcs, n \in Nat : [s EXCEPT !.train = <<>>, !.pc = p, !.win = n] \in Loops
         /\ \A p \in Pcs : [s EXCEPT !.pc = p] \in Loops
         /\ \A n \in Nat : [s EXCEPT !.base = s.win, !.baseRev = n, !.known = n + 1, !.failed = 0] \in Loops
         /\ [s EXCEPT !.failed = s.failed + 1] \in Loops
         /\ [s EXCEPT !.base = s.win] \in Loops
         /\ NewWindow(s) \in Loops
<1> USE EmptyLine
<1> HIDE DEF Groups
<1>1. s.failed + 1 \in Nat /\ \A n \in Nat : n + 1 \in Nat
  BY DEF Loops
<1>2. \A q \in Seq(Groups) : [s EXCEPT !.got = q] \in Loops
  BY DEF Loops
<1>3. ASSUME NEW n \in Nat, NEW b \in BOOLEAN
      PROVE  [s EXCEPT !.h = n, !.train = s.got, !.got = <<>>, !.collecting = b] \in Loops
  BY DEF Loops
<1>4. \A p \in Pcs : [s EXCEPT !.pc = p, !.got = <<>>, !.train = <<>>, !.collecting = FALSE] \in Loops
  BY DEF Loops, Pcs
<1>5. \A p \in Pcs, n \in Nat : [s EXCEPT !.train = <<>>, !.pc = p, !.win = n] \in Loops
  BY DEF Loops, Pcs
<1>6. \A p \in Pcs : [s EXCEPT !.pc = p] \in Loops
  BY DEF Loops, Pcs
<1>7. \A n \in Nat : [s EXCEPT !.base = s.win, !.baseRev = n, !.known = n + 1, !.failed = 0] \in Loops
  BY <1>1 DEF Loops
<1>8. [s EXCEPT !.failed = s.failed + 1] \in Loops
  BY <1>1 DEF Loops
<1>9. [s EXCEPT !.base = s.win] \in Loops
  BY DEF Loops
<1>10. NewWindow(s) \in Loops
  BY DEF Loops, NewWindow
<1> QED BY <1>2, <1>3, <1>4, <1>5, <1>6, <1>7, <1>8, <1>9, <1>10

LEMMA FaultTyped ==
  ASSUME faults \in [FaultKinds -> Nat], NEW k \in FaultKinds, Fault(k)
  PROVE  /\ faults' \in [FaultKinds -> Nat] /\ faults'[k] = faults[k] + 1
         /\ \A j \in FaultKinds \ {k} : faults'[j] = faults[j]
  BY DEF Fault

LEMMA TypedWorker ==
  ASSUME Typed, NEW w \in Workers, WorkerStep(w) \/ PushTimesOut(w)
  PROVE  Typed'
<1> USE DEF Typed
<1>0. worker \in [Workers -> Cells] /\ worker[w] \in Cells
  BY DEF Cells
<1>t. worker[w].version \in Nat /\ worker[w].serial \in Nat /\ worker[w].sent \in Nat
      /\ worker[w].flight \in SUBSET Groups
  BY <1>0 DEF Cells
<1>1. CASE Load(w)
  <2>1. worker' = [worker EXCEPT ![w] = [worker[w] EXCEPT !.version = published]]
    BY <1>0, <1>1 DEF Load
  <2>2. worker' \in [Workers -> Cells]
    BY <1>0, <2>1, CellForms
  <2> QED BY <1>1, <2>2 DEF Load, feed, server, channel, Cells
<1>2. CASE Spawn(w)
  <2> DEFINE g == [from |-> w, nr |-> worker[w].serial + 1, version |-> worker[w].version]
  <2>1. worker' = [worker EXCEPT ![w] = [worker[w] EXCEPT !.serial = worker[w].serial + 1,
                                                          !.flight = worker[w].flight \cup {g}]]
    BY <1>0, <1>2 DEF Spawn
  <2>2. worker[w].serial + 1 \in Nat /\ worker[w].flight \cup {g} \in SUBSET Groups
    BY <1>t DEF Groups
  <2>3. worker' \in [Workers -> Cells]
    BY <1>0, <2>1, <2>2, CellForms
  <2> QED BY <1>2, <2>3 DEF Spawn, feed, server, channel, Cells
<1>3. ASSUME NEW g \in worker[w].flight, Sent(w, g) PROVE worker' \in [Workers -> Cells] /\ g \in Groups
  <2>1. worker' = [worker EXCEPT ![w] = [worker[w] EXCEPT !.flight = worker[w].flight \ {g},
                                                          !.sent = worker[w].sent + 1]]
    BY <1>0, <1>3 DEF Sent
  <2>2. worker[w].sent + 1 \in Nat /\ worker[w].flight \ {g} \in SUBSET Groups
    BY <1>t
  <2> QED BY <1>0, <1>t, <2>1, <2>2, CellForms
<1>4. CASE Push(w)
  <2>1. PICK g \in worker[w].flight : Sent(w, g) /\ Enqueue(g)
    BY <1>4 DEF Push, Tag
  <2>2. worker' \in [Workers -> Cells] /\ g \in Groups
    BY <1>3, <2>1
  <2>3. queue' \in Seq(Groups)
    BY <2>1, <2>2, AppendLine DEF Enqueue
  <2> QED BY <1>4, <2>2, <2>3 DEF Push, feed, server, channel, Cells
<1>5. CASE PushTimesOut(w)
  <2>1. PICK g \in worker[w].flight :
          Sent(w, g) /\ latePush' \in {latePush, latePush \cup {g}} /\ Fault("push")
    BY <1>5 DEF PushTimesOut, Tag
  <2>2. worker' \in [Workers -> Cells] /\ g \in Groups
    BY <1>3, <2>1
  <2>3. faults' \in [FaultKinds -> Nat]
    BY <2>1, FaultTyped DEF FaultKinds
  <2> QED BY <1>5, <2>1, <2>2, <2>3 DEF PushTimesOut, feed, server, channel, Cells
<1> QED BY <1>1, <1>2, <1>4, <1>5 DEF WorkerStep

\* The end of a window, or of a learner.
LEMMA SettleEffect ==
  ASSUME Typed, NEW l \in Learners, NEW s \in Loops, Settle(l, s)
  PROVE  /\ learner' \in [Learners -> Loops] /\ learner'[l] = AfterSync(l, s)
         /\ \A m \in Learners \ {l} : learner'[m] = learner[m]
         /\ consumer' \in [Learners -> Seq(Groups)] /\ buffer' \in [Learners -> Seq(Groups)]
         /\ \A m \in Learners : /\ consumer'[m] \in {consumer[m], <<>>}
                                /\ buffer'[m] \in {buffer[m], <<>>}
<1> USE DEF Typed
<1>1. AfterSync(l, s) \in Loops
  <2>1. [s EXCEPT !.pc = "raised"] \in Loops /\ [s EXCEPT !.pc = "done"] \in Loops
    BY LoopForms DEF Pcs
  <2>2. NewWindow(s) \in Loops
    BY LoopForms, EmptyLine DEF Pcs
  <2> QED BY <2>1, <2>2 DEF AfterSync
<1>2. learner' = [learner EXCEPT ![l] = AfterSync(l, s)]
  BY DEF Settle
<1>3. learner' \in [Learners -> Loops] /\ learner'[l] = AfterSync(l, s)
      /\ \A m \in Learners \ {l} : learner'[m] = learner[m]
  BY <1>1, <1>2
<1>4. \/ consumer' = [consumer EXCEPT ![l] = <<>>] /\ buffer' = [buffer EXCEPT ![l] = <<>>]
      \/ UNCHANGED <<consumer, buffer>>
  BY DEF Settle
<1> QED BY <1>3, <1>4, EmptyLine

LEMMA EndEffect ==
  ASSUME Typed, NEW l \in Learners, NEW how \in Pcs, End(l, how)
  PROVE  /\ learner' \in [Learners -> Loops]
         /\ learner'[l] = [learner[l] EXCEPT !.pc = how, !.got = <<>>, !.train = <<>>, !.collecting = FALSE]
         /\ \A m \in Learners \ {l} : learner'[m] = learner[m]
         /\ consumer' \in [Learners -> Seq(Groups)] /\ buffer' \in [Learners -> Seq(Groups)]
         /\ \A m \in Learners : /\ consumer'[m] \in {consumer[m], <<>>}
                                /\ buffer'[m] \in {buffer[m], <<>>}
<1> USE DEF Typed
<1>1. learner[l] \in Loops
  OBVIOUS
<1>2. [learner[l] EXCEPT !.pc = how, !.got = <<>>, !.train = <<>>, !.collecting = FALSE] \in Loops
  BY <1>1, LoopForms, EmptyLine
<1>3. learner' = [learner EXCEPT ![l] = [learner[l] EXCEPT !.pc = how, !.got = <<>>, !.train = <<>>,
                                                           !.collecting = FALSE]]
  BY DEF End
<1> QED BY <1>2, <1>3, EmptyLine DEF End

LEMMA TypedFeed ==
  ASSUME Typed, NEW l \in Learners,
         Consume(l) \/ PopTimesOut(l) \/ Collect(l)
  PROVE  Typed'
<1> USE DEF Typed
<1>0. /\ learner[l] \in Loops /\ consumer[l] \in Seq(Groups) /\ buffer[l] \in Seq(Groups)
      /\ learner[l].got \in Seq(Groups)
  BY DEF Loops
<1>1. queue # <<>> => Tail(queue) \in Seq(Groups) /\ Head(queue) \in Groups
  BY TailLine
<1>2. CASE Pop(l)
  <2>1. <<Head(queue)>> \in Seq(Groups)
    BY <1>1, <1>2 DEF Pop
  <2>2. consumer' \in [Learners -> Seq(Groups)]
    BY <1>2, <2>1 DEF Pop
  <2> QED BY <1>1, <1>2, <2>2 DEF Pop, server, channel, Rest
<1>3. CASE Put(l)
  <2>1. buffer[l] \o consumer[l] \in Seq(Groups)
    BY <1>0
  <2>2. buffer' \in [Learners -> Seq(Groups)] /\ consumer' \in [Learners -> Seq(Groups)]
    BY <1>3, <2>1, EmptyLine DEF Put
  <2> QED BY <1>3, <2>2 DEF Put, poolW, server, channel
<1>4. CASE PopTimesOut(l)
  <2>1. faults' \in [FaultKinds -> Nat]
    BY <1>4, FaultTyped DEF PopTimesOut, FaultKinds
  <2>2. latePop' \in Nat /\ queue' \in Seq(Groups)
    <3>1. CASE latePop' = latePop + 1 /\ UNCHANGED queue
      BY <3>1
    <3>2. CASE queue # <<>> /\ queue' = Tail(queue) /\ UNCHANGED latePop
      BY <1>1, <3>2
    <3> QED BY <1>4, <3>1, <3>2 DEF PopTimesOut, Rest
  <2> QED BY <1>4, <2>1, <2>2 DEF PopTimesOut, server, channel
<1>5. CASE Collect(l)
  <2> DEFINE g == Head(buffer[l])
  <2>1. Tail(buffer[l]) \in Seq(Groups) /\ g \in Groups
    BY <1>0, <1>5, TailLine DEF Collect
  <2>2. Append(learner[l].got, g) \in Seq(Groups)
    BY <1>0, <2>1, AppendLine
  <2>3. [learner[l] EXCEPT !.got = Append(learner[l].got, g)] \in Loops
    BY <1>0, <2>2, LoopForms
  <2>4. learner' = learner \/ learner' = [learner EXCEPT ![l] = [learner[l] EXCEPT !.got = Append(learner[l].got, g)]]
    BY <1>5 DEF Collect
  <2>5. learner' \in [Learners -> Loops]
    BY <2>3, <2>4
  <2>6. faults' \in [FaultKinds -> Nat]
    BY <1>5, FaultTyped DEF Collect, FaultKinds
  <2>7. buffer' \in [Learners -> Seq(Groups)]
    BY <1>5, <2>1 DEF Collect
  <2> QED BY <1>5, <2>5, <2>6, <2>7 DEF Collect, poolW, server, channel
<1> QED BY <1>2, <1>3, <1>4, <1>5 DEF Consume

LEMMA StartEffect ==
  ASSUME Typed, NEW l \in Learners, StartStep(l)
  PROVE  /\ learner' \in [Learners -> Loops]
         /\ learner'[l] = [learner[l] EXCEPT !.h = learner[l].h + 1, !.train = learner[l].got, !.got = <<>>,
                                             !.collecting = CollectsAhead(learner[l].h + 1)]
         /\ \A m \in Learners \ {l} : learner'[m] = learner[m]
<1> USE DEF Typed
<1>1. learner[l] \in Loops /\ learner[l].h + 1 \in Nat /\ CollectsAhead(learner[l].h + 1) \in BOOLEAN
  BY DEF Loops, CollectsAhead
<1>2. [learner[l] EXCEPT !.h = learner[l].h + 1, !.train = learner[l].got, !.got = <<>>,
                         !.collecting = CollectsAhead(learner[l].h + 1)] \in Loops
  BY <1>1, LoopForms
<1>3. learner' = [learner EXCEPT ![l] = [learner[l] EXCEPT !.h = learner[l].h + 1, !.train = learner[l].got,
                                   !.got = <<>>, !.collecting = CollectsAhead(learner[l].h + 1)]]
  BY DEF StartStep
<1> QED BY <1>2, <1>3

LEMMA FinishEffect ==
  ASSUME Typed, NEW l \in Learners, FinishStep(l), ~End(l, "diverged")
  PROVE  /\ learner' \in [Learners -> Loops]
         /\ \E p \in Pcs, n \in Nat :
              /\ learner'[l] = [learner[l] EXCEPT !.train = <<>>, !.pc = p, !.win = n]
              /\ p = (IF learner[l].h = SyncEvery THEN "sync" ELSE learner[l].pc)
              /\ n = (IF learner[l].h = SyncEvery THEN learner[l].win + 1 ELSE learner[l].win)
         /\ \A m \in Learners \ {l} : learner'[m] = learner[m]
         /\ UNCHANGED <<consumer, buffer, faults>>
<1> USE DEF Typed
<1> DEFINE p == IF learner[l].h = SyncEvery THEN "sync" ELSE learner[l].pc
           n == IF learner[l].h = SyncEvery THEN learner[l].win + 1 ELSE learner[l].win
<1>1. learner[l] \in Loops /\ p \in Pcs /\ n \in Nat
  BY DEF Loops, Pcs
<1>2. learner' = [learner EXCEPT ![l] = [learner[l] EXCEPT !.train = <<>>, !.pc = p, !.win = n]]
      /\ UNCHANGED <<consumer, buffer, faults>>
  BY DEF FinishStep
<1> HIDE DEF p, n
<1>3. [learner[l] EXCEPT !.train = <<>>, !.pc = p, !.win = n] \in Loops
  BY <1>1, LoopForms, EmptyLine
<1>4. learner' \in [Learners -> Loops] /\ \A m \in Learners \ {l} : learner'[m] = learner[m]
      /\ learner'[l] = [learner[l] EXCEPT !.train = <<>>, !.pc = p, !.win = n]
  BY <1>2, <1>3
<1> QED BY <1>1, <1>2, <1>4 DEF p, n

LEMMA SyncForms ==
  ASSUME Typed, NEW l \in Learners
  PROVE  /\ Adopted(learner[l], revision) \in Loops /\ Adopted(learner[l], revision + 1) \in Loops
         /\ Failed(learner[l]) \in Loops /\ [learner[l] EXCEPT !.base = learner[l].win] \in Loops
         /\ <<learner[l].base + 1, learner[l].win>> \in Nat \X Nat
<1>1. learner[l] \in Loops /\ revision \in Nat /\ revision + 1 \in Nat
  BY DEF Typed
<1>2. learner[l].base \in Nat /\ learner[l].win \in Nat
  BY <1>1 DEF Loops
<1>3. \A n \in Nat : Adopted(learner[l], n) \in Loops
  BY <1>1, LoopForms DEF Adopted
<1>4. Failed(learner[l]) \in Loops /\ [learner[l] EXCEPT !.base = learner[l].win] \in Loops
  BY <1>1, LoopForms DEF Failed
<1>5. <<learner[l].base + 1, learner[l].win>> \in Nat \X Nat
  BY <1>2
<1> QED BY <1>1, <1>3, <1>4, <1>5

LEMMA AppliedTyped ==
  ASSUME Typed, NEW l \in Learners, Applied(l)
  PROVE  /\ revision' \in Nat /\ log' \in [Learners -> Seq(Nat \X Nat)]
         /\ log'[l] = Append(log[l], <<learner[l].base + 1, learner[l].win>>)
         /\ \A m \in Learners \ {l} : log'[m] = log[m]
<1>1. Append(log[l], <<learner[l].base + 1, learner[l].win>>) \in Seq(Nat \X Nat)
  BY SyncForms, AppendLine DEF Typed
<1> QED BY <1>1 DEF Applied, Typed

LEMMA TypedLoop ==
  ASSUME Typed, NEW l \in Learners, TrainStep(l), ~Collect(l)
  PROVE  Typed'
<1>1. CASE StartStep(l)
  <2>1. trained' \subseteq Groups
    BY <1>1, LineValues DEF StartStep, Typed, Loops
  <2> QED BY <1>1, <2>1, StartEffect DEF StartStep, Typed, poolW, feed, server, channel
<1>2. CASE FinishStep(l) /\ ~End(l, "diverged")
  BY <1>2, FinishEffect DEF FinishStep, Typed, poolW, server, channel
<1>3. CASE FinishStep(l) /\ End(l, "diverged")
  <2>1. faults' \in [FaultKinds -> Nat]
    BY <1>3, FaultTyped DEF FinishStep, FaultKinds, Typed
  <2>2. /\ learner' \in [Learners -> Loops]
        /\ consumer' \in [Learners -> Seq(Groups)] /\ buffer' \in [Learners -> Seq(Groups)]
    BY <1>3, EndEffect DEF Pcs
  <2> QED BY <1>3, <2>1, <2>2 DEF FinishStep, Typed, poolW, server, channel
<1>4. CASE Stall(l)
  <2>1. /\ learner' \in [Learners -> Loops]
        /\ consumer' \in [Learners -> Seq(Groups)] /\ buffer' \in [Learners -> Seq(Groups)]
    BY <1>4, EndEffect DEF Stall, Pcs
  <2> QED BY <1>4, <2>1 DEF Stall, Typed, poolW, server, channel
<1>5. CASE SyncHub(l)
  <2>1. PICK s \in Loops : Settle(l, s)
    BY <1>5, SyncForms DEF SyncHub
  <2>2. /\ learner' \in [Learners -> Loops]
        /\ consumer' \in [Learners -> Seq(Groups)] /\ buffer' \in [Learners -> Seq(Groups)]
    BY <2>1, SettleEffect
  <2>3. revision' \in Nat /\ log' \in [Learners -> Seq(Nat \X Nat)]
    BY <1>5, AppliedTyped DEF SyncHub, server, Typed
  <2>4. faults' \in [FaultKinds -> Nat]
    BY <1>5, FaultTyped DEF SyncHub, FaultKinds, Typed
  <2> QED BY <1>5, <2>2, <2>3, <2>4 DEF SyncHub, Typed, poolW, channel
<1>6. CASE SyncOwn(l)
  <2>1. Settle(l, [learner[l] EXCEPT !.base = learner[l].win])
    BY <1>6 DEF SyncOwn
  <2>2. /\ learner' \in [Learners -> Loops]
        /\ consumer' \in [Learners -> Seq(Groups)] /\ buffer' \in [Learners -> Seq(Groups)]
    BY <2>1, SyncForms, SettleEffect
  <2> QED BY <1>6, <2>2 DEF SyncOwn, Typed, poolW, server
<1> QED BY <1>1, <1>2, <1>3, <1>4, <1>5, <1>6 DEF TrainStep

LEMMA TypedInit == Init => Typed
<1> SUFFICES ASSUME Init PROVE Typed
  OBVIOUS
<1>1. FirstWindow \in Loops
  BY EmptyLine DEF FirstWindow, Loops
<1>2. <<>> \in Seq(Nat \X Nat)
  OBVIOUS
<1> QED BY <1>1, <1>2, EmptyLine DEF Init, Typed

LEMMA TypedStep == Typed /\ [Next]_vars => Typed'
<1> SUFFICES ASSUME Typed, [Next]_vars PROVE Typed'
  OBVIOUS
<1>1. ASSUME NEW w \in Workers, WorkerStep(w) \/ PushTimesOut(w) PROVE Typed'
  BY <1>1, TypedWorker
<1>2. ASSUME NEW l \in Learners, Consume(l) \/ PopTimesOut(l) \/ TrainStep(l) PROVE Typed'
  BY <1>2, TypedFeed, TypedLoop
<1>3. CASE Publish
  <2>1. faults' \in [FaultKinds -> Nat]
    BY <1>3, FaultTyped DEF Publish, SnapshotOwn, PostOwn, HubPublish, Typed, FaultKinds
  <2> QED BY <1>3, <2>1 DEF Publish, SnapshotOwn, PostOwn, HubPublish, Typed, poolW, feed, server
<1>4. CASE Late
  <2>1. CASE ServeLatePush
    <3>1. PICK g \in latePush : Enqueue(g) /\ latePush' = latePush \ {g}
      BY <2>1 DEF ServeLatePush
    <3>2. queue' \in Seq(Groups)
      BY <3>1, AppendLine DEF Enqueue, Typed
    <3> QED BY <2>1, <3>1, <3>2 DEF ServeLatePush, feed, server, channel, Typed
  <2>2. CASE ServeLatePop
    BY <2>2, TailLine DEF ServeLatePop, server, channel, Rest, Typed
  <2> QED BY <1>4, <2>1, <2>2 DEF Late
<1>5. CASE ServerRestart
  <2>1. faults' \in [FaultKinds -> Nat]
    BY <1>5, FaultTyped DEF ServerRestart, Typed, FaultKinds
  <2>2. log' \in [Learners -> Seq(Nat \X Nat)] /\ revision' \in Nat
    BY <1>5 DEF ServerRestart
  <2> QED BY <1>5, <2>1, <2>2 DEF ServerRestart, Typed, poolW, feed, channel
<1>6. CASE UNCHANGED vars
  BY <1>6 DEF vars, Typed, poolW, feed, server, channel
<1> QED BY <1>1, <1>2, <1>3, <1>4, <1>5, <1>6 DEF Next

-----------------------------------------------------------------------------
(* A group is in one place. *)

LEMMA IntoIs ==
  ASSUME NEW k0 \in Kinds, NEW l0 \in Learners, NEW X,
         k0 # "queue" => Shrunk(queue', queue) /\ ToSet(queue') \cap X = {},
         k0 # "late" => latePush' \subseteq latePush /\ latePush' \cap X = {},
         k0 # "trained" => trained' \subseteq trained /\ trained' \cap X = {},
         \A m \in Learners :
           /\ k0 # "consumer" \/ m # l0 =>
                Shrunk(consumer'[m], consumer[m]) /\ ToSet(consumer'[m]) \cap X = {}
           /\ k0 # "buffer" \/ m # l0 => Shrunk(buffer'[m], buffer[m]) /\ ToSet(buffer'[m]) \cap X = {}
           /\ k0 # "got" \/ m # l0 =>
                Shrunk(learner'[m].got, learner[m].got) /\ ToSet(learner'[m].got) \cap X = {}
  PROVE  Into(k0, l0, X)
<1> SUFFICES ASSUME NEW k \in Kinds, NEW l \in Learners, ~SamePlace(k, l, k0, l0)
             PROVE  /\ Content(k, l)' \cap X = {}
                    /\ k \in Lines => Shrunk(Line(k, l)', Line(k, l))
                    /\ k \notin Lines => Content(k, l)' \subseteq Content(k, l)
  BY DEF Into
<1> HIDE DEF Shrunk
<1>1. CASE k = "queue"
  <2>1. k0 # "queue"
    BY <1>1 DEF SamePlace
  <2> QED BY <1>1, <2>1, Places, PlacesThen DEF Lines
<1>2. CASE k = "late"
  <2>1. k0 # "late"
    BY <1>2 DEF SamePlace
  <2> QED BY <1>2, <2>1, Places, PlacesThen DEF Lines
<1>3. CASE k = "trained"
  <2>1. k0 # "trained"
    BY <1>3 DEF SamePlace
  <2> QED BY <1>3, <2>1, Places, PlacesThen DEF Lines
<1>4. CASE k = "consumer"
  <2>1. k0 # "consumer" \/ l # l0
    BY <1>4 DEF SamePlace
  <2> QED BY <1>4, <2>1, Places, PlacesThen DEF Lines
<1>5. CASE k = "buffer"
  <2>1. k0 # "buffer" \/ l # l0
    BY <1>5 DEF SamePlace
  <2> QED BY <1>5, <2>1, Places, PlacesThen DEF Lines
<1>6. CASE k = "got"
  <2>1. k0 # "got" \/ l # l0
    BY <1>6 DEF SamePlace
  <2> QED BY <1>6, <2>1, Places, PlacesThen DEF Lines
<1> QED BY <1>1, <1>2, <1>3, <1>4, <1>5, <1>6 DEF Kinds, Lines

LEMMA ApartIs ==
  ASSUME AtMostOnce
  PROVE  /\ \A l \in Learners : /\ IsInjective(queue) /\ IsInjective(consumer[l])
                                /\ IsInjective(buffer[l]) /\ IsInjective(learner[l].got)
         /\ \A l \in Learners :
              /\ ToSet(queue) \cap latePush = {} /\ ToSet(queue) \cap trained = {}
              /\ latePush \cap trained = {}
         /\ \A l \in Learners, S \in {ToSet(queue), latePush, trained} :
              /\ S \cap ToSet(consumer[l]) = {} /\ S \cap ToSet(buffer[l]) = {}
              /\ S \cap ToSet(learner[l].got) = {}
         /\ \A l, m \in Learners :
              /\ ToSet(consumer[l]) \cap ToSet(buffer[m]) = {}
              /\ ToSet(consumer[l]) \cap ToSet(learner[m].got) = {}
              /\ ToSet(buffer[l]) \cap ToSet(learner[m].got) = {}
         /\ \A l, m \in Learners : l # m =>
              /\ ToSet(consumer[l]) \cap ToSet(consumer[m]) = {}
              /\ ToSet(buffer[l]) \cap ToSet(buffer[m]) = {}
              /\ ToSet(learner[l].got) \cap ToSet(learner[m].got) = {}
<1>1. \A k, j \in Kinds, l, m \in Learners :
        k # j \/ (k \in {"consumer", "buffer", "got"} /\ l # m) => Content(k, l) \cap Content(j, m) = {}
  BY DEF AtMostOnce, SamePlace
<1>2. \A l : /\ Content("queue", l) = ToSet(queue) /\ Content("consumer", l) = ToSet(consumer[l])
             /\ Content("buffer", l) = ToSet(buffer[l]) /\ Content("got", l) = ToSet(learner[l].got)
             /\ Content("late", l) = latePush /\ Content("trained", l) = trained
  BY Places DEF Lines
<1>3. {"queue", "consumer", "buffer", "got", "late", "trained"} \subseteq Kinds
  BY DEF Kinds, Lines
<1>4. ASSUME NEW l \in Learners
      PROVE  /\ IsInjective(queue) /\ IsInjective(consumer[l])
             /\ IsInjective(buffer[l]) /\ IsInjective(learner[l].got)
  BY Places DEF AtMostOnce, Lines
<1>5. ASSUME NEW l \in Learners
      PROVE  /\ ToSet(queue) \cap latePush = {} /\ ToSet(queue) \cap trained = {}
             /\ latePush \cap trained = {}
  BY <1>1, <1>2, <1>3
<1>6. ASSUME NEW l \in Learners, NEW k \in {"queue", "late", "trained"}
      PROVE  /\ Content(k, l) \cap ToSet(consumer[l]) = {} /\ Content(k, l) \cap ToSet(buffer[l]) = {}
             /\ Content(k, l) \cap ToSet(learner[l].got) = {}
  BY <1>1, <1>2, <1>3
<1>7. ASSUME NEW l \in Learners, NEW S \in {ToSet(queue), latePush, trained}
      PROVE  /\ S \cap ToSet(consumer[l]) = {} /\ S \cap ToSet(buffer[l]) = {}
             /\ S \cap ToSet(learner[l].got) = {}
  BY <1>2, <1>6
<1>8. ASSUME NEW l \in Learners, NEW m \in Learners
      PROVE  /\ ToSet(consumer[l]) \cap ToSet(buffer[m]) = {}
             /\ ToSet(consumer[l]) \cap ToSet(learner[m].got) = {}
             /\ ToSet(buffer[l]) \cap ToSet(learner[m].got) = {}
  BY <1>1, <1>2, <1>3
<1>9. ASSUME NEW l \in Learners, NEW m \in Learners, l # m
      PROVE  /\ ToSet(consumer[l]) \cap ToSet(consumer[m]) = {}
             /\ ToSet(buffer[l]) \cap ToSet(buffer[m]) = {}
             /\ ToSet(learner[l].got) \cap ToSet(learner[m].got) = {}
  BY <1>1, <1>2, <1>3, <1>9
<1> QED BY <1>4, <1>5, <1>7, <1>8, <1>9

LEMMA ExistingTyped ==
  ASSUME Typed
  PROVE  Existing \subseteq Groups
<1>1. \A l \in Learners : /\ ToSet(consumer[l]) \subseteq Groups /\ ToSet(buffer[l]) \subseteq Groups
                          /\ ToSet(learner[l].got) \subseteq Groups
  BY LineValues DEF Typed, Loops
<1>2. ToSet(queue) \subseteq Groups
  BY LineValues DEF Typed
<1> QED BY <1>1, <1>2 DEF Existing, Abroad, Typed

OneInv == AtMostOnce /\ GroupInv

\* Groups come to one place from another, or from flight; none is new.
LEMMA Travel ==
  ASSUME Typed, OneInv, NEW k0 \in Kinds, NEW l0 \in Learners, NEW X, Into(k0, l0, X),
         Content(k0, l0)' \subseteq Content(k0, l0) \cup X,
         k0 \in Lines => IsInjective(Line(k0, l0)'),
         X \subseteq Existing,
         \A w \in Workers : /\ worker'[w].flight \subseteq worker[w].flight \ X
                            /\ worker'[w].serial = worker[w].serial
                            /\ worker'[w].version \in Nat /\ worker'[w].version >= worker[w].version
  PROVE  OneInv'
<1>1. AtMostOnce'
  BY OnceMoves DEF OneInv
<1>2. ASSUME NEW k \in Kinds, NEW l \in Learners
      PROVE  Content(k, l)' \subseteq Content(k, l) \cup X
  <2>1. CASE SamePlace(k, l, k0, l0)
    <3>1. Content(k, l) = Content(k0, l0)
      BY <2>1, SameContent
    <3>2. Content(k, l)' = Content(k0, l0)'
      <4>1. CASE k \in {"consumer", "buffer", "got"}
        BY <2>1, <4>1 DEF SamePlace
      <4>2. CASE k \in {"queue", "late", "trained"}
        BY <2>1, <4>2, PlacesThen DEF Lines, SamePlace
      <4> QED BY <4>1, <4>2 DEF Kinds, Lines
    <3> QED BY <3>1, <3>2
  <2>2. CASE ~SamePlace(k, l, k0, l0) /\ k \in Lines
    <3>1. Shrunk(Line(k, l)', Line(k, l)) /\ Line(k, l) \in Seq(Groups)
      BY <2>2, LineTyped DEF Into
    <3>2. ToSet(Line(k, l)') \subseteq ToSet(Line(k, l))
      BY <3>1, ShrunkLine
    <3>3. Content(k, l) = ToSet(Line(k, l)) /\ Content(k, l)' = ToSet(Line(k, l)')
      BY <2>2, Places, PlacesThen
    <3> QED BY <3>2, <3>3
  <2>3. CASE ~SamePlace(k, l, k0, l0) /\ k \notin Lines
    BY <2>3 DEF Into
  <2> QED BY <2>1, <2>2, <2>3
<1>3. Abroad' \subseteq Abroad \cup X
  <2>1. {"queue", "consumer", "buffer", "got", "late", "trained"} \subseteq Kinds
    BY DEF Kinds, Lines
  <2>2. \A l : /\ Content("queue", l) = ToSet(queue) /\ Content("consumer", l) = ToSet(consumer[l])
               /\ Content("buffer", l) = ToSet(buffer[l]) /\ Content("got", l) = ToSet(learner[l].got)
               /\ Content("late", l) = latePush /\ Content("trained", l) = trained
    BY Places DEF Lines
  <2>3. \A l : /\ Content("queue", l)' = ToSet(queue') /\ Content("consumer", l)' = ToSet(consumer'[l])
               /\ Content("buffer", l)' = ToSet(buffer'[l]) /\ Content("got", l)' = ToSet(learner'[l].got)
               /\ Content("late", l)' = latePush' /\ Content("trained", l)' = trained'
    BY PlacesThen DEF Lines
  <2>4. /\ ToSet(queue') \subseteq ToSet(queue) \cup X /\ latePush' \subseteq latePush \cup X
        /\ trained' \subseteq trained \cup X
    BY <1>2, <2>1, <2>2, <2>3
  <2>5. \A l \in Learners : /\ ToSet(consumer'[l]) \subseteq ToSet(consumer[l]) \cup X
                            /\ ToSet(buffer'[l]) \subseteq ToSet(buffer[l]) \cup X
                            /\ ToSet(learner'[l].got) \subseteq ToSet(learner[l].got) \cup X
    BY <1>2, <2>1, <2>2, <2>3
  <2> QED BY <2>4, <2>5 DEF Abroad
<1>4. Existing' \subseteq Existing
  BY <1>3 DEF Existing
<1>5. \A g \in Existing : g.from \in Workers /\ g.nr \in Nat /\ g.version \in Nat
  BY ExistingTyped DEF Groups
<1>6. \A w \in Workers : \A g \in worker'[w].flight : g.from = w /\ g \notin Abroad'
  BY <1>3 DEF OneInv, GroupInv
<1>7. \A g \in Existing' : g.nr <= worker'[g.from].serial /\ g.version <= worker'[g.from].version
  <2> SUFFICES ASSUME NEW g \in Existing'
               PROVE  g.nr <= worker'[g.from].serial /\ g.version <= worker'[g.from].version
    OBVIOUS
  <2>1. g \in Existing /\ g.from \in Workers
    BY <1>4, <1>5
  <2>2. worker[g.from].serial \in Nat /\ worker[g.from].version \in Nat
    BY <2>1 DEF Typed
  <2> QED BY <1>5, <2>1, <2>2 DEF OneInv, GroupInv
<1>8. \A g, k \in Existing' : g.from = k.from /\ g.nr <= k.nr => g.version <= k.version
  BY <1>4 DEF OneInv, GroupInv
<1> QED BY <1>1, <1>6, <1>7, <1>8 DEF OneInv, GroupInv

SomeLearner == CHOOSE l \in Learners : TRUE

LEMMA LearnerExists == SomeLearner \in Learners
  BY PoolAssumption DEF SomeLearner

LEMMA KindsAre == {"queue", "consumer", "buffer", "got", "late", "trained"} \subseteq Kinds
  BY DEF Kinds, Lines

\* A step that only drops groups.
LEMMA Drops ==
  ASSUME Typed, OneInv, UNCHANGED <<worker, latePush, trained>>, Shrunk(queue', queue),
         \A m \in Learners : /\ Shrunk(consumer'[m], consumer[m]) /\ Shrunk(buffer'[m], buffer[m])
                             /\ Shrunk(learner'[m].got, learner[m].got)
  PROVE  OneInv'
<1> DEFINE l == SomeLearner
<1>0. l \in Learners /\ "trained" \in Kinds /\ "trained" \notin Lines
  BY LearnerExists, KindsAre DEF Lines
<1> HIDE DEF l, Shrunk
<1>1. Into("trained", l, {})
  BY <1>0, IntoIs
<1>2. Content("trained", l)' \subseteq Content("trained", l) \cup {}
  BY Places, PlacesThen
<1>3. \A w \in Workers : /\ worker'[w].flight \subseteq worker[w].flight \ {}
                         /\ worker'[w].serial = worker[w].serial
                         /\ worker'[w].version \in Nat /\ worker'[w].version >= worker[w].version
  BY DEF Typed
<1> QED BY <1>0, <1>1, <1>2, <1>3, Travel

LEMMA OneStays ==
  ASSUME Typed, OneInv, UNCHANGED <<worker, latePush, trained, queue, consumer, buffer, learner>>
  PROVE  OneInv'
  BY Drops DEF Shrunk

\* A group that leaves the worker's flight.
LEMMA SentEffect ==
  ASSUME Typed, GroupInv, NEW w \in Workers, NEW g \in worker[w].flight, Sent(w, g)
  PROVE  /\ g \in Groups /\ g \notin Abroad /\ g \in Existing
         /\ \A v \in Workers : /\ worker'[v].flight \subseteq worker[v].flight \ {g}
                               /\ worker'[v].serial = worker[v].serial
                               /\ worker'[v].version \in Nat /\ worker'[v].version >= worker[v].version
<1>1. /\ worker'[w].flight = worker[w].flight \ {g} /\ worker'[w].serial = worker[w].serial
      /\ worker'[w].version = worker[w].version
      /\ \A v \in Workers \ {w} : worker'[v] = worker[v]
  BY DEF Sent, Typed
<1>2. \A v \in Workers \ {w} : g \notin worker[v].flight
  BY DEF GroupInv
<1>3. \A v \in Workers : worker[v].version \in Nat /\ worker[v].flight \subseteq Groups
  BY DEF Typed
<1> QED BY <1>1, <1>2, <1>3 DEF GroupInv, Existing

\* A group from elsewhere comes into the queue, unless it is full.
LEMMA IntoQueue ==
  ASSUME Typed, OneInv, NEW g \in Groups, Enqueue(g), g \in Existing, g \notin ToSet(queue),
         g \notin latePush', latePush' \subseteq latePush, g \notin trained,
         \A m \in Learners : /\ g \notin ToSet(consumer[m]) /\ g \notin ToSet(buffer[m])
                             /\ g \notin ToSet(learner[m].got),
         UNCHANGED <<trained, consumer, buffer, learner>>,
         \A w \in Workers : /\ worker'[w].flight \subseteq worker[w].flight \ {g}
                            /\ worker'[w].serial = worker[w].serial
                            /\ worker'[w].version \in Nat /\ worker'[w].version >= worker[w].version
  PROVE  OneInv'
<1> DEFINE l == SomeLearner
<1>0. l \in Learners /\ "queue" \in Kinds
  BY LearnerExists, KindsAre
<1> HIDE DEF l
<1>1. Into("queue", l, {g})
  BY <1>0, IntoIs DEF Shrunk
<1>2. queue \in Seq(Groups) /\ IsInjective(queue)
  BY <1>0, ApartIs DEF OneInv, Typed
<1>3. IsInjective(queue') /\ ToSet(queue') \subseteq ToSet(queue) \cup {g}
  BY <1>2, AppendLine DEF Enqueue
<1>4. /\ Content("queue", l)' \subseteq Content("queue", l) \cup {g}
      /\ IsInjective(Line("queue", l)')
  BY <1>3, Places, PlacesThen DEF Lines
<1> QED BY <1>0, <1>1, <1>4, Travel

LEMMA NotAbroad ==
  ASSUME NEW g, g \notin Abroad
  PROVE  /\ g \notin ToSet(queue) /\ g \notin latePush /\ g \notin trained
         /\ \A m \in Learners : /\ g \notin ToSet(consumer[m]) /\ g \notin ToSet(buffer[m])
                                /\ g \notin ToSet(learner[m].got)
  BY DEF Abroad

LEMMA AbroadExists ==
  /\ ToSet(queue) \subseteq Existing /\ latePush \subseteq Existing
  /\ \A m \in Learners : /\ ToSet(consumer[m]) \subseteq Existing /\ ToSet(buffer[m]) \subseteq Existing
                         /\ ToSet(learner[m].got) \subseteq Existing
  BY DEF Abroad, Existing

LEMMA NotInFlight ==
  ASSUME Typed, GroupInv, NEW X, X \subseteq Abroad, UNCHANGED worker
  PROVE  \A w \in Workers : /\ worker'[w].flight \subseteq worker[w].flight \ X
                            /\ worker'[w].serial = worker[w].serial
                            /\ worker'[w].version \in Nat /\ worker'[w].version >= worker[w].version
<1>1. \A w \in Workers : worker[w].version \in Nat
  BY DEF Typed
<1> QED BY <1>1 DEF GroupInv

LEMMA OneWorker ==
  ASSUME Typed, OneInv, NEW w \in Workers, WorkerStep(w) \/ PushTimesOut(w)
  PROVE  OneInv'
<1>1. CASE Load(w)
  <2> DEFINE l == SomeLearner
  <2>0. l \in Learners /\ "trained" \in Kinds /\ "trained" \notin Lines
    BY LearnerExists, KindsAre DEF Lines
  <2> HIDE DEF l
  <2>1. UNCHANGED <<latePush, trained, queue, consumer, buffer, learner>>
    BY <1>1 DEF Load, feed
  <2>2. Into("trained", l, {})
    BY <2>0, <2>1, IntoIs DEF Shrunk
  <2>3. \A v \in Workers : /\ worker'[v].flight \subseteq worker[v].flight \ {}
                           /\ worker'[v].serial = worker[v].serial
                           /\ worker'[v].version \in Nat /\ worker'[v].version >= worker[v].version
    BY <1>1 DEF Load, Typed
  <2>4. Content("trained", l)' \subseteq Content("trained", l) \cup {}
    BY <2>1, Places, PlacesThen
  <2> QED BY <2>0, <2>2, <2>3, <2>4, Travel
<1>2. CASE Spawn(w)
  <2> DEFINE g == [from |-> w, nr |-> worker[w].serial + 1, version |-> worker[w].version]
  <2>1. /\ UNCHANGED <<latePush, trained, queue, consumer, buffer, learner>>
        /\ worker'[w].flight = worker[w].flight \cup {g} /\ worker'[w].serial = worker[w].serial + 1
        /\ worker'[w].version = worker[w].version
        /\ \A v \in Workers \ {w} : worker'[v] = worker[v]
    BY <1>2 DEF Spawn, feed, Typed
  <2>2. worker[w].serial \in Nat /\ worker[w].version \in Nat
    BY DEF Typed
  <2>3. g.from = w /\ g.nr = worker[w].serial + 1 /\ g.version = worker[w].version
    OBVIOUS
  <2> HIDE DEF g
  <2>4. AtMostOnce'
    <3> DEFINE l == SomeLearner
    <3>1. l \in Learners /\ "trained" \in Kinds /\ "trained" \notin Lines
      BY LearnerExists, KindsAre DEF Lines
    <3> HIDE DEF l
    <3>2. Into("trained", l, {})
      BY <2>1, <3>1, IntoIs DEF Shrunk
    <3>3. Content("trained", l)' \subseteq Content("trained", l) \cup {}
      BY <2>1, Places, PlacesThen
    <3> QED BY <3>1, <3>2, <3>3, OnceMoves DEF OneInv
  <2>5. Abroad' = Abroad
    BY <2>1 DEF Abroad
  <2>6. Existing' = Existing \cup {g}
    BY <2>1, <2>5 DEF Existing
  <2>7. g \notin Existing
    BY <2>2, <2>3 DEF OneInv, GroupInv
  <2>8. \A k \in Existing : k.from \in Workers /\ k.nr \in Nat /\ k.version \in Nat
    BY ExistingTyped DEF Groups
  <2>9. \A v \in Workers : \A k \in worker'[v].flight : k.from = v /\ k \notin Abroad'
    BY <2>1, <2>3, <2>5, <2>7 DEF OneInv, GroupInv, Existing
  <2>10. \A k \in Existing : /\ k.nr <= worker[k.from].serial /\ k.version <= worker[k.from].version
                             /\ k.nr <= worker'[k.from].serial /\ k.version <= worker'[k.from].version
    <3> SUFFICES ASSUME NEW k \in Existing
                 PROVE  /\ k.nr <= worker[k.from].serial /\ k.version <= worker[k.from].version
                        /\ k.nr <= worker'[k.from].serial /\ k.version <= worker'[k.from].version
      OBVIOUS
    <3>1. k.nr <= worker[k.from].serial /\ k.version <= worker[k.from].version
      BY DEF OneInv, GroupInv
    <3>2. CASE k.from = w
      BY <2>1, <2>2, <2>8, <3>1, <3>2
    <3>3. CASE k.from # w
      BY <2>1, <2>8, <3>1, <3>3
    <3> QED BY <3>2, <3>3
  <2>11. \A k \in Existing' : k.nr <= worker'[k.from].serial /\ k.version <= worker'[k.from].version
    BY <2>1, <2>2, <2>3, <2>6, <2>10
  <2>12. ASSUME NEW j \in Existing', NEW k \in Existing', j.from = k.from, j.nr <= k.nr
         PROVE  j.version <= k.version
    <3>1. CASE j \in Existing /\ k \in Existing
      BY <2>12, <3>1 DEF OneInv, GroupInv
    <3>2. CASE k = g /\ j \in Existing
      BY <2>3, <2>10, <2>12, <3>2
    <3>3. CASE j = g /\ k \in Existing
      BY <2>2, <2>3, <2>8, <2>10, <2>12, <3>3
    <3>4. CASE j = g /\ k = g
      BY <2>2, <2>3, <3>4
    <3> QED BY <2>6, <3>1, <3>2, <3>3, <3>4
  <2> QED BY <2>4, <2>9, <2>11, <2>12 DEF OneInv, GroupInv
<1>3. CASE Push(w)
  <2>1. PICK g \in worker[w].flight : Sent(w, g) /\ Enqueue(g)
    BY <1>3 DEF Push, Tag
  <2>2. UNCHANGED <<latePush, trained, consumer, buffer, learner>>
    BY <1>3 DEF Push, feed
  <2>3. /\ g \in Groups /\ g \notin Abroad /\ g \in Existing
        /\ \A v \in Workers : /\ worker'[v].flight \subseteq worker[v].flight \ {g}
                              /\ worker'[v].serial = worker[v].serial
                              /\ worker'[v].version \in Nat /\ worker'[v].version >= worker[v].version
    BY <2>1, SentEffect DEF OneInv
  <2> QED BY <2>1, <2>2, <2>3, NotAbroad, IntoQueue
<1>4. CASE PushTimesOut(w)
  <2>1. PICK g \in worker[w].flight : Sent(w, g) /\ latePush' \in {latePush, latePush \cup {g}}
    BY <1>4 DEF PushTimesOut, Tag
  <2>2. UNCHANGED <<queue, trained, consumer, buffer, learner>>
    BY <1>4 DEF PushTimesOut, feed
  <2>3. /\ g \in Groups /\ g \notin Abroad /\ g \in Existing
        /\ \A v \in Workers : /\ worker'[v].flight \subseteq worker[v].flight \ {g}
                              /\ worker'[v].serial = worker[v].serial
                              /\ worker'[v].version \in Nat /\ worker'[v].version >= worker[v].version
    BY <2>1, SentEffect DEF OneInv
  <2> DEFINE l == SomeLearner
  <2>4. l \in Learners /\ "late" \in Kinds /\ "late" \notin Lines
    BY LearnerExists, KindsAre DEF Lines
  <2> HIDE DEF l
  <2>5. Into("late", l, {g})
    BY <2>2, <2>3, <2>4, IntoIs, NotAbroad DEF Shrunk
  <2>6. Content("late", l)' \subseteq Content("late", l) \cup {g}
    BY <2>1, Places, PlacesThen
  <2> QED BY <2>3, <2>4, <2>5, <2>6, Travel
<1> QED BY <1>1, <1>2, <1>3, <1>4 DEF WorkerStep

LEMMA OneLine ==
  ASSUME NEW g \in Groups
  PROVE  <<g>> \in Seq(Groups) /\ ToSet(<<g>>) = {g} /\ IsInjective(<<g>>) /\ Len(<<g>>) = 1
  BY DEF ToSet, IsInjective

LEMMA OnePop ==
  ASSUME Typed, OneInv, NEW l \in Learners, Pop(l)
  PROVE  OneInv'
<1> DEFINE g == Head(queue)
<1>1. /\ queue \in Seq(Groups) /\ queue # <<>> /\ queue' = Tail(queue)
      /\ consumer' = [consumer EXCEPT ![l] = <<g>>] /\ consumer[l] = <<>>
      /\ UNCHANGED <<worker, latePush, buffer, learner, trained>>
  BY DEF Pop, Rest, server, channel, Typed
<1>2. /\ g \in Groups /\ g \in ToSet(queue) /\ g \notin ToSet(queue')
      /\ IsInjective(<<g>>) /\ ToSet(<<g>>) = {g}
  BY <1>1, TailLine, OneLine, ApartIs DEF OneInv
<1>3. /\ consumer'[l] = <<g>> /\ \A m \in Learners \ {l} : consumer'[m] = consumer[m]
  BY <1>1 DEF Typed
<1> HIDE DEF g
<1>4. Into("consumer", l, {g})
  <2>1. "consumer" \in Kinds
    BY KindsAre
  <2>2. g \notin latePush /\ g \notin trained
    BY <1>2, ApartIs DEF OneInv
  <2>3. \A m \in Learners : /\ g \notin ToSet(consumer[m]) /\ g \notin ToSet(buffer[m])
                            /\ g \notin ToSet(learner[m].got)
    BY <1>2, ApartIs DEF OneInv
  <2> QED BY <1>1, <1>2, <1>3, <2>1, <2>2, <2>3, IntoIs DEF Shrunk
<1>5. /\ Content("consumer", l)' \subseteq Content("consumer", l) \cup {g}
      /\ IsInjective(Line("consumer", l)')
  BY <1>2, <1>3, Places, PlacesThen DEF Lines
<1>6. {g} \subseteq Existing /\ {g} \subseteq Abroad
  BY <1>2, AbroadExists DEF Abroad
<1>7. "consumer" \in Kinds
  BY KindsAre
<1>8. \A w \in Workers : /\ worker'[w].flight \subseteq worker[w].flight \ {g}
                         /\ worker'[w].serial = worker[w].serial
                         /\ worker'[w].version \in Nat /\ worker'[w].version >= worker[w].version
  BY <1>1, <1>6, NotInFlight DEF OneInv
<1> QED BY <1>4, <1>5, <1>6, <1>7, <1>8, Travel

LEMMA OnePut ==
  ASSUME Typed, BoundInv, OneInv, NEW l \in Learners, Put(l)
  PROVE  OneInv'
<1> DEFINE g == consumer[l][1]
<1>1. /\ consumer[l] # <<>> /\ consumer[l] \in Seq(Groups) /\ Len(consumer[l]) <= 1
      /\ buffer[l] \in Seq(Groups)
      /\ buffer' = [buffer EXCEPT ![l] = buffer[l] \o consumer[l]]
      /\ consumer' = [consumer EXCEPT ![l] = <<>>]
      /\ UNCHANGED <<worker, queue, latePush, learner, trained>>
  BY DEF Put, poolW, server, channel, Typed, BoundInv
<1>2. g \in Groups /\ consumer[l] = <<g>>
  BY <1>1
<1> HIDE DEF g
<1>3. ToSet(consumer[l]) = {g}
  BY <1>2, OneLine
<1>4. g \notin ToSet(buffer[l]) /\ IsInjective(buffer[l])
  BY <1>3, ApartIs DEF OneInv
<1>5. /\ buffer[l] \o consumer[l] = Append(buffer[l], g)
      /\ IsInjective(Append(buffer[l], g))
      /\ ToSet(Append(buffer[l], g)) = ToSet(buffer[l]) \cup {g}
  BY <1>1, <1>2, <1>4, AppendLine
<1>6. /\ consumer'[l] = <<>> /\ buffer'[l] = Append(buffer[l], g)
      /\ \A m \in Learners \ {l} : consumer'[m] = consumer[m] /\ buffer'[m] = buffer[m]
  BY <1>1, <1>5 DEF Typed
<1>7. "buffer" \in Kinds
  BY KindsAre
<1>8. Into("buffer", l, {g})
  <2>2. g \notin ToSet(queue) /\ g \notin latePush /\ g \notin trained
    BY <1>3, ApartIs DEF OneInv
  <2>3. \A m \in Learners : /\ g \notin ToSet(buffer[m]) /\ g \notin ToSet(learner[m].got)
                            /\ m # l => g \notin ToSet(consumer[m])
    BY <1>3, ApartIs DEF OneInv
  <2> QED BY <1>1, <1>6, <1>7, <2>2, <2>3, IntoIs, EmptyLine DEF Shrunk
<1>9. /\ Content("buffer", l)' \subseteq Content("buffer", l) \cup {g}
      /\ IsInjective(Line("buffer", l)')
  BY <1>5, <1>6, Places, PlacesThen, ZenonT(60) DEF Lines
<1>10. {g} \subseteq Existing /\ {g} \subseteq Abroad
  BY <1>3, AbroadExists DEF Abroad
<1>11. \A w \in Workers : /\ worker'[w].flight \subseteq worker[w].flight \ {g}
                          /\ worker'[w].serial = worker[w].serial
                          /\ worker'[w].version \in Nat /\ worker'[w].version >= worker[w].version
  BY <1>1, <1>10, NotInFlight DEF OneInv
<1> QED BY <1>7, <1>8, <1>9, <1>10, <1>11, Travel

\* A batch takes the first group of the buffer, or drops it.
LEMMA CollectEffect ==
  ASSUME Typed, NEW l \in Learners, Collect(l)
  PROVE  /\ buffer[l] \in Seq(Groups) /\ buffer[l] # <<>>
         /\ buffer'[l] = Tail(buffer[l]) /\ \A m \in Learners \ {l} : buffer'[m] = buffer[m]
         /\ UNCHANGED <<scenario, worker, queue, latePush, latePop, consumer, trained, server, channel>>
         /\ \/ UNCHANGED learner
            \/ /\ ~TooStale(l, Head(buffer[l])) /\ UNCHANGED faults
               /\ learner'[l] = [learner[l] EXCEPT !.got = Append(learner[l].got, Head(buffer[l]))]
               /\ \A m \in Learners \ {l} : learner'[m] = learner[m]
  BY DEF Collect, Typed, poolW

LEMMA OneCollect ==
  ASSUME Typed, OneInv, NEW l \in Learners, Collect(l)
  PROVE  OneInv'
<1> DEFINE g == Head(buffer[l])
<1>1. /\ buffer[l] \in Seq(Groups) /\ buffer[l] # <<>>
      /\ buffer'[l] = Tail(buffer[l]) /\ \A m \in Learners \ {l} : buffer'[m] = buffer[m]
      /\ UNCHANGED <<worker, queue, latePush, consumer, trained>>
  BY CollectEffect
<1>2. CASE UNCHANGED learner
  BY <1>1, <1>2, Drops DEF Shrunk
<1>3. CASE ~UNCHANGED learner
  <2>1. /\ learner'[l] = [learner[l] EXCEPT !.got = Append(learner[l].got, g)]
        /\ \A m \in Learners \ {l} : learner'[m] = learner[m]
    BY <1>3, CollectEffect
  <2>2. learner'[l].got = Append(learner[l].got, g) /\ learner[l].got \in Seq(Groups)
    BY <2>1 DEF Typed, Loops
  <2>3. g \in Groups /\ g \in ToSet(buffer[l]) /\ g \notin ToSet(buffer'[l])
    BY <1>1, TailLine, ApartIs DEF OneInv
  <2> HIDE DEF g
  <2>4. /\ \A m \in Learners : g \notin ToSet(consumer[m]) /\ g \notin ToSet(learner[m].got)
                               /\ (m # l => g \notin ToSet(buffer[m]))
        /\ g \notin ToSet(queue) /\ g \notin latePush /\ g \notin trained
        /\ IsInjective(learner[l].got)
    BY <2>3, ApartIs DEF OneInv
  <2>5. "got" \in Kinds
    BY KindsAre
  <2>6. Into("got", l, {g})
    BY <1>1, <2>1, <2>3, <2>4, <2>5, IntoIs DEF Shrunk
  <2>7. IsInjective(learner'[l].got) /\ ToSet(learner'[l].got) = ToSet(learner[l].got) \cup {g}
    BY <2>2, <2>3, <2>4, AppendLine
  <2>8. /\ Content("got", l)' \subseteq Content("got", l) \cup {g}
        /\ IsInjective(Line("got", l)')
    BY <2>7, Places, PlacesThen DEF Lines
  <2>9. {g} \subseteq Existing /\ {g} \subseteq Abroad
    BY <2>3, AbroadExists DEF Abroad
  <2>10. \A w \in Workers : /\ worker'[w].flight \subseteq worker[w].flight \ {g}
                            /\ worker'[w].serial = worker[w].serial
                            /\ worker'[w].version \in Nat /\ worker'[w].version >= worker[w].version
    BY <1>1, <2>9, NotInFlight DEF OneInv
  <2> QED BY <2>5, <2>6, <2>8, <2>9, <2>10, Travel
<1> QED BY <1>2, <1>3

LEMMA OneStart ==
  ASSUME Typed, OneInv, NEW l \in Learners, StartStep(l)
  PROVE  OneInv'
<1> DEFINE X == ToSet(learner[l].got)
<1>1. /\ UNCHANGED <<worker, queue, latePush, consumer, buffer>>
      /\ trained' = trained \cup X
  BY DEF StartStep, poolW, feed, server, channel
<1>2. learner'[l].got = <<>> /\ \A m \in Learners \ {l} : learner'[m] = learner[m]
  <2>1. learner[l] \in Loops
    BY DEF Typed
  <2> QED BY <2>1, StartEffect DEF Loops
<1>3. /\ X \cap ToSet(queue) = {} /\ X \cap latePush = {}
      /\ \A m \in Learners : /\ X \cap ToSet(consumer[m]) = {} /\ X \cap ToSet(buffer[m]) = {}
                             /\ m # l => X \cap ToSet(learner[m].got) = {}
  BY ApartIs DEF OneInv
<1>4. X \subseteq Existing /\ X \subseteq Abroad
  BY AbroadExists DEF Abroad
<1> HIDE DEF X
<1>5. "trained" \in Kinds /\ "trained" \notin Lines
  BY KindsAre DEF Lines
<1>6. Into("trained", l, X)
  BY <1>1, <1>2, <1>3, <1>5, IntoIs, EmptyLine DEF Shrunk
<1>7. Content("trained", l)' \subseteq Content("trained", l) \cup X
  BY <1>1, Places, PlacesThen
<1>8. \A w \in Workers : /\ worker'[w].flight \subseteq worker[w].flight \ X
                         /\ worker'[w].serial = worker[w].serial
                         /\ worker'[w].version \in Nat /\ worker'[w].version >= worker[w].version
  BY <1>1, <1>4, NotInFlight DEF OneInv
<1> QED BY <1>4, <1>5, <1>6, <1>7, <1>8, Travel

\* A boundary leaves the batch in hand to the next window, which starts without one.
LEMMA SettleGot ==
  ASSUME Typed, NEW l \in Learners, NEW s \in Loops, Settle(l, s), s.got = learner[l].got
  PROVE  \A m \in Learners : learner'[m].got \in {learner[m].got, <<>>}
<1>1. AfterSync(l, s).got \in {s.got, <<>>}
  <2>1. /\ [s EXCEPT !.pc = "raised"].got = s.got /\ [s EXCEPT !.pc = "done"].got = s.got
        /\ NewWindow(s).got = <<>>
    BY DEF NewWindow, Loops
  <2> QED BY <2>1 DEF AfterSync
<1> QED BY <1>1, SettleEffect

LEMMA SyncGot ==
  ASSUME Typed, NEW l \in Learners
  PROVE  /\ \A n : Adopted(learner[l], n).got = learner[l].got
         /\ Failed(learner[l]).got = learner[l].got
         /\ [learner[l] EXCEPT !.base = learner[l].win].got = learner[l].got
  BY DEF Adopted, Failed, Typed, Loops

LEMMA OneLoop ==
  ASSUME Typed, OneInv, NEW l \in Learners, FinishStep(l) \/ Stall(l) \/ SyncHub(l) \/ SyncOwn(l)
  PROVE  OneInv'
<1>0. learner[l] \in Loops
  BY DEF Typed
<1>1. UNCHANGED <<worker, queue, latePush, trained>>
  BY DEF FinishStep, Stall, SyncHub, SyncOwn, poolW
<1>2. CASE FinishStep(l) /\ ~End(l, "diverged")
  <2>1. learner'[l].got = learner[l].got /\ \A m \in Learners \ {l} : learner'[m] = learner[m]
    BY <1>0, <1>2, FinishEffect, ZenonT(60) DEF Loops
  <2>2. UNCHANGED <<consumer, buffer>>
    BY <1>2, FinishEffect
  <2> QED BY <1>1, <2>1, <2>2, Drops DEF Shrunk
<1>3. ASSUME NEW how \in Pcs, End(l, how) PROVE OneInv'
  <2>1. learner'[l].got = <<>> /\ \A m \in Learners \ {l} : learner'[m] = learner[m]
    BY <1>0, <1>3, EndEffect DEF Loops
  <2>2. \A m \in Learners : consumer'[m] \in {consumer[m], <<>>} /\ buffer'[m] \in {buffer[m], <<>>}
    BY <1>3, EndEffect
  <2> QED BY <1>1, <2>1, <2>2, Drops DEF Shrunk
<1>4. ASSUME NEW s \in Loops, Settle(l, s), s.got = learner[l].got PROVE OneInv'
  <2>1. \A m \in Learners : learner'[m].got \in {learner[m].got, <<>>}
    BY <1>4, SettleGot
  <2>2. \A m \in Learners : consumer'[m] \in {consumer[m], <<>>} /\ buffer'[m] \in {buffer[m], <<>>}
    BY <1>4, SettleEffect
  <2> QED BY <1>1, <2>1, <2>2, Drops DEF Shrunk
<1>5. CASE FinishStep(l) /\ End(l, "diverged")
  BY <1>3, <1>5 DEF Pcs
<1>6. CASE Stall(l)
  BY <1>3, <1>6 DEF Pcs, Stall
<1>7. CASE SyncHub(l)
  <2>1. PICK s : Settle(l, s) /\ s \in {Adopted(learner[l], revision + 1), Adopted(learner[l], revision),
                                        Failed(learner[l])}
    BY <1>7 DEF SyncHub
  <2>2. s \in Loops /\ s.got = learner[l].got
    BY <2>1, SyncForms, SyncGot
  <2> QED BY <1>4, <2>1, <2>2
<1>8. CASE SyncOwn(l)
  <2>1. Settle(l, [learner[l] EXCEPT !.base = learner[l].win])
    BY <1>8 DEF SyncOwn
  <2> QED BY <1>4, <2>1, SyncForms, SyncGot
<1> QED BY <1>2, <1>5, <1>6, <1>7, <1>8

LEMMA OneLate ==
  ASSUME Typed, OneInv, Late
  PROVE  OneInv'
<1>1. CASE ServeLatePush
  <2>1. PICK g \in latePush : Enqueue(g) /\ latePush' = latePush \ {g}
    BY <1>1 DEF ServeLatePush
  <2>2. UNCHANGED <<worker, trained, consumer, buffer, learner>>
    BY <1>1 DEF ServeLatePush, feed
  <2>3. /\ g \in Groups /\ g \notin ToSet(queue) /\ g \notin trained
        /\ \A m \in Learners : /\ g \notin ToSet(consumer[m]) /\ g \notin ToSet(buffer[m])
                               /\ g \notin ToSet(learner[m].got)
    BY LearnerExists, ApartIs DEF OneInv, Typed
  <2>4. {g} \subseteq Abroad /\ g \in Existing
    BY AbroadExists DEF Abroad
  <2>5. \A w \in Workers : /\ worker'[w].flight \subseteq worker[w].flight \ {g}
                           /\ worker'[w].serial = worker[w].serial
                           /\ worker'[w].version \in Nat /\ worker'[w].version >= worker[w].version
    BY <2>2, <2>4, NotInFlight DEF OneInv
  <2> QED BY <2>1, <2>2, <2>3, <2>4, <2>5, IntoQueue
<1>2. CASE ServeLatePop
  BY <1>2, Drops DEF ServeLatePop, Rest, Shrunk
<1> QED BY <1>1, <1>2 DEF Late

LEMMA OneStep ==
  ASSUME Typed, BoundInv, OneInv, [Next]_vars
  PROVE  OneInv'
<1>1. ASSUME NEW w \in Workers, WorkerStep(w) \/ PushTimesOut(w) PROVE OneInv'
  BY <1>1, OneWorker
<1>2. ASSUME NEW l \in Learners, Consume(l) \/ PopTimesOut(l) \/ TrainStep(l) PROVE OneInv'
  <2>1. CASE PopTimesOut(l)
    BY <2>1, Drops DEF PopTimesOut, Rest, Shrunk
  <2>2. CASE Consume(l)
    BY <2>2, OnePop, OnePut DEF Consume
  <2>3. CASE TrainStep(l)
    BY <2>3, OneCollect, OneStart, OneLoop DEF TrainStep
  <2> QED BY <1>2, <2>1, <2>2, <2>3
<1>3. CASE Publish
  BY <1>3, OneStays DEF Publish, SnapshotOwn, PostOwn, HubPublish, poolW, feed
<1>4. CASE Late
  BY <1>4, OneLate
<1>5. CASE ServerRestart
  BY <1>5, OneStays DEF ServerRestart, poolW, feed
<1>6. CASE UNCHANGED vars
  BY <1>6, OneStays DEF vars, poolW, feed
<1> QED BY <1>1, <1>2, <1>3, <1>4, <1>5, <1>6 DEF Next

LEMMA OneInit == Init => OneInv
<1> SUFFICES ASSUME Init PROVE OneInv
  OBVIOUS
<1>1. \A l \in Learners : /\ consumer[l] = <<>> /\ buffer[l] = <<>> /\ learner[l].got = <<>>
  BY DEF Init, FirstWindow
<1>2. queue = <<>> /\ latePush = {} /\ trained = {} /\ \A w \in Workers : worker[w].flight = {}
  BY DEF Init
<1>3. \A k \in Lines, l \in Learners : Line(k, l) = <<>>
  BY <1>1, <1>2, Places DEF Lines
<1>4. \A k \in Kinds, l \in Learners : Content(k, l) = {}
  BY <1>1, <1>2, <1>3, Places, EmptyLine DEF Kinds
<1>5. AtMostOnce
  BY <1>3, <1>4, EmptyLine DEF AtMostOnce
<1>6. Abroad = {}
  BY <1>1, <1>2, EmptyLine DEF Abroad
<1>7. Existing = {}
  BY <1>2, <1>6 DEF Existing
<1> QED BY <1>2, <1>5, <1>7 DEF OneInv, GroupInv

-----------------------------------------------------------------------------
(* What the steps of a learner leave of its loop. *)

LEMMA AfterSyncForm ==
  ASSUME NEW s \in Loops, NEW l, NEW n, n = AfterSync(l, s)
  PROVE  /\ n.base = s.base /\ n.win = s.win /\ n.baseRev = s.baseRev /\ n.known = s.known
         /\ \/ n.pc = "window" /\ n.h = 0 /\ n.collecting /\ n.got = <<>> /\ n.train = <<>>
            \/ /\ n.pc \in {"raised", "done"} /\ n.h = s.h /\ n.collecting = s.collecting
               /\ n.got = s.got /\ n.train = s.train
<1>1. n \in {[s EXCEPT !.pc = "raised"], [s EXCEPT !.pc = "done"], NewWindow(s)}
  BY DEF AfterSync
<1> QED BY <1>1 DEF NewWindow, Loops

LEMMA SyncArgument ==
  ASSUME Typed, NEW l \in Learners, SyncHub(l) \/ SyncOwn(l)
  PROVE  \E s \in Loops :
           /\ Settle(l, s)
           /\ s.pc = learner[l].pc /\ s.h = learner[l].h /\ s.collecting = learner[l].collecting
           /\ s.got = learner[l].got /\ s.train = learner[l].train /\ s.win = learner[l].win
           /\ s.base \in {learner[l].base, learner[l].win}
<1>1. PICK s : /\ Settle(l, s)
               /\ s \in {Adopted(learner[l], revision + 1), Adopted(learner[l], revision),
                         Failed(learner[l]), [learner[l] EXCEPT !.base = learner[l].win]}
  BY DEF SyncHub, SyncOwn
<1>2. s \in Loops /\ learner[l] \in Loops
  BY <1>1, SyncForms DEF Typed
<1> QED BY <1>1, <1>2, ZenonT(60) DEF Adopted, Failed, Loops

LEMMA SyncEffect ==
  ASSUME Typed, NEW l \in Learners, SyncHub(l) \/ SyncOwn(l)
  PROVE  /\ learner[l].pc = "sync" /\ l \in members
         /\ learner'[l].win = learner[l].win /\ learner'[l].base \in {learner[l].base, learner[l].win}
         /\ \/ /\ learner'[l].pc = "window" /\ learner'[l].h = 0 /\ learner'[l].collecting
               /\ learner'[l].got = <<>> /\ learner'[l].train = <<>>
            \/ /\ learner'[l].pc \in {"raised", "done"} /\ learner'[l].h = learner[l].h
               /\ learner'[l].collecting = learner[l].collecting
               /\ learner'[l].got = learner[l].got /\ learner'[l].train = learner[l].train
         /\ \A m \in Learners \ {l} : learner'[m] = learner[m]
         /\ \A m \in Learners : /\ consumer'[m] \in {consumer[m], <<>>}
                                /\ buffer'[m] \in {buffer[m], <<>>}
         /\ UNCHANGED <<scenario, worker, queue, latePush, latePop, trained>>
<1>1. PICK s \in Loops :
        /\ Settle(l, s)
        /\ s.pc = learner[l].pc /\ s.h = learner[l].h /\ s.collecting = learner[l].collecting
        /\ s.got = learner[l].got /\ s.train = learner[l].train /\ s.win = learner[l].win
        /\ s.base \in {learner[l].base, learner[l].win}
  BY SyncArgument
<1>2. learner[l].pc = "sync" /\ l \in members
      /\ UNCHANGED <<scenario, worker, queue, latePush, latePop, trained>>
  BY DEF SyncHub, SyncOwn, poolW, Alive
<1>3. /\ learner'[l] = AfterSync(l, s) /\ \A m \in Learners \ {l} : learner'[m] = learner[m]
      /\ \A m \in Learners : /\ consumer'[m] \in {consumer[m], <<>>}
                             /\ buffer'[m] \in {buffer[m], <<>>}
  BY <1>1, SettleEffect
<1> QED BY <1>1, <1>2, <1>3, AfterSyncForm

\* A step that ends, with its window or its learner, or a stall.
LEMMA EndsEffect ==
  ASSUME Typed, NEW l \in Learners, FinishStep(l) \/ Stall(l)
  PROVE  /\ learner'[l].base = learner[l].base /\ learner'[l].baseRev = learner[l].baseRev
         /\ learner'[l].known = learner[l].known /\ learner'[l].h = learner[l].h
         /\ learner'[l].win \in {learner[l].win, learner[l].win + 1} /\ learner'[l].train = <<>>
         /\ \/ /\ learner'[l].pc \in {"diverged", "stalled"} /\ ~learner'[l].collecting
               /\ learner'[l].got = <<>>
            \/ /\ learner'[l].pc = (IF learner[l].h = SyncEvery THEN "sync" ELSE learner[l].pc)
               /\ learner'[l].collecting = learner[l].collecting /\ learner'[l].got = learner[l].got
               /\ learner[l].train # <<>>
         /\ \A m \in Learners \ {l} : learner'[m] = learner[m]
         /\ \A m \in Learners : /\ consumer'[m] \in {consumer[m], <<>>}
                                /\ buffer'[m] \in {buffer[m], <<>>}
         /\ UNCHANGED <<scenario, worker, queue, latePush, latePop, trained, server, channel>>
<1>0. learner[l] \in Loops
  BY DEF Typed
<1>1. UNCHANGED <<scenario, worker, queue, latePush, latePop, trained, server, channel>>
  BY DEF FinishStep, Stall, poolW
<1>2. CASE FinishStep(l) /\ ~End(l, "diverged")
  <2>1. PICK p \in Pcs, n \in Nat :
          /\ learner'[l] = [learner[l] EXCEPT !.train = <<>>, !.pc = p, !.win = n]
          /\ p = (IF learner[l].h = SyncEvery THEN "sync" ELSE learner[l].pc)
          /\ n = (IF learner[l].h = SyncEvery THEN learner[l].win + 1 ELSE learner[l].win)
    BY <1>2, FinishEffect
  <2>2. (\A m \in Learners \ {l} : learner'[m] = learner[m]) /\ UNCHANGED <<consumer, buffer>>
    BY <1>2, FinishEffect
  <2>3. learner[l].train # <<>>
    BY <1>2 DEF FinishStep
  <2> QED BY <1>0, <1>1, <2>1, <2>2, <2>3 DEF Loops
<1>3. CASE ~(FinishStep(l) /\ ~End(l, "diverged"))
  <2>1. PICK how \in {"diverged", "stalled"} : End(l, how)
    BY <1>3 DEF FinishStep, Stall
  <2>2. /\ learner'[l] = [learner[l] EXCEPT !.pc = how, !.got = <<>>, !.train = <<>>, !.collecting = FALSE]
        /\ \A m \in Learners \ {l} : learner'[m] = learner[m]
        /\ \A m \in Learners : /\ consumer'[m] \in {consumer[m], <<>>}
                               /\ buffer'[m] \in {buffer[m], <<>>}
    BY <2>1, EndEffect DEF Pcs
  <2> QED BY <1>0, <1>1, <2>1, <2>2 DEF Loops
<1> QED BY <1>2, <1>3

LEMMA StartFields ==
  ASSUME Typed, NEW l \in Learners, StartStep(l)
  PROVE  /\ learner'[l].base = learner[l].base /\ learner'[l].baseRev = learner[l].baseRev
         /\ learner'[l].known = learner[l].known /\ learner'[l].win = learner[l].win
         /\ learner'[l].pc = "window" /\ learner[l].pc = "window" /\ l \in members
         /\ learner[l].h < SyncEvery /\ learner'[l].h = learner[l].h + 1
         /\ learner'[l].collecting = (learner[l].h + 1 < SyncEvery)
         /\ learner'[l].train = learner[l].got /\ learner'[l].got = <<>>
         /\ \A m \in Learners \ {l} : learner'[m] = learner[m]
         /\ UNCHANGED <<scenario, worker, queue, latePush, feed, server, channel, faults>>
<1>1. learner[l] \in Loops
  BY DEF Typed
<1>2. /\ learner'[l] = [learner[l] EXCEPT !.h = learner[l].h + 1, !.train = learner[l].got, !.got = <<>>,
                                          !.collecting = CollectsAhead(learner[l].h + 1)]
      /\ \A m \in Learners \ {l} : learner'[m] = learner[m]
  BY StartEffect
<1>3. /\ learner[l].pc = "window" /\ l \in members /\ learner[l].h < SyncEvery
      /\ UNCHANGED <<scenario, worker, queue, latePush, feed, server, channel, faults>>
  BY DEF StartStep, Alive, poolW
<1> QED BY <1>1, <1>2, <1>3 DEF Loops, CollectsAhead

LEMMA CollectFields ==
  ASSUME Typed, NEW l \in Learners, Collect(l)
  PROVE  /\ learner'[l].base = learner[l].base /\ learner'[l].baseRev = learner[l].baseRev
         /\ learner'[l].known = learner[l].known /\ learner'[l].win = learner[l].win
         /\ learner'[l].pc = learner[l].pc /\ learner'[l].h = learner[l].h
         /\ learner'[l].collecting = learner[l].collecting /\ learner[l].collecting
         /\ learner'[l].train = learner[l].train /\ l \in members
         /\ Len(learner[l].got) < BatchGroups
         /\ \/ learner'[l].got = learner[l].got
            \/ /\ learner'[l].got = Append(learner[l].got, Head(buffer[l]))
               /\ ~TooStale(l, Head(buffer[l]))
         /\ \A m \in Learners \ {l} : learner'[m] = learner[m]
<1>1. learner[l] \in Loops
  BY DEF Typed
<1>2. learner[l].collecting /\ l \in members /\ Len(learner[l].got) < BatchGroups
  BY DEF Collect, Collecting, Alive
<1>3. CASE UNCHANGED learner
  BY <1>2, <1>3
<1>4. CASE ~UNCHANGED learner
  <2>1. /\ learner'[l] = [learner[l] EXCEPT !.got = Append(learner[l].got, Head(buffer[l]))]
        /\ ~TooStale(l, Head(buffer[l])) /\ \A m \in Learners \ {l} : learner'[m] = learner[m]
    BY <1>4, CollectEffect
  <2> QED BY <1>1, <1>2, <2>1, ZenonT(60) DEF Loops
<1> QED BY <1>3, <1>4

-----------------------------------------------------------------------------
(* Bounds. *)

WorkerBound(w) ==
  /\ IsFiniteSet(worker[w].flight) /\ Cardinality(worker[w].flight) <= GroupsPerRound
  /\ worker[w].version <= published
LearnerBound(l) ==
  /\ Len(consumer[l]) <= 1 /\ Len(buffer[l]) <= BufferSize
  /\ Len(learner[l].got) <= BatchGroups
  /\ learner[l].h <= SyncEvery /\ learner[l].base <= learner[l].win
PublishBound ==
  /\ strategy = "own" => published <= ckpt
  /\ strategy = "hub" => publishing = "none"

LEMMA BoundIs ==
  BoundInv <=> /\ Len(queue) <= QueueSize /\ \A w \in Workers : WorkerBound(w)
               /\ \A l \in Learners : LearnerBound(l)
               /\ PublishBound
  BY DEF BoundInv, WorkerBound, LearnerBound, PublishBound

LEMMA BoundIsThen ==
  BoundInv' <=> /\ Len(queue') <= QueueSize /\ \A w \in Workers : WorkerBound(w)'
                /\ \A l \in Learners : LearnerBound(l)'
                /\ PublishBound'
  BY DEF BoundInv, WorkerBound, LearnerBound, PublishBound

\* The queue takes a group while it is not full.
LEMMA QueueBound ==
  ASSUME Typed, Len(queue) <= QueueSize, NEW g \in Groups, Enqueue(g)
  PROVE  Len(queue') <= QueueSize
<1>1. queue \in Seq(Groups) /\ QueueSize \in Nat
  BY ScenarioValues DEF Typed
<1> QED BY <1>1, AppendLine, LineValues DEF Enqueue, Full

\* What may happen to the bounds of a learner that does nothing itself.
LEMMA LearnerStays ==
  ASSUME Typed, NEW l \in Learners, LearnerBound(l), scenario' = scenario,
         consumer'[l] \in {consumer[l], <<>>}, buffer'[l] \in {buffer[l], <<>>} \/ Len(buffer'[l]) <= BufferSize,
         learner'[l].got \in {learner[l].got, <<>>}, learner'[l].h \in {learner[l].h, 0},
         learner'[l].win \in {learner[l].win, learner[l].win + 1},
         learner'[l].base \in {learner[l].base, learner[l].win}
  PROVE  LearnerBound(l)'
<1>1. /\ learner[l].base \in Nat /\ learner[l].win \in Nat /\ learner[l].h \in Nat
      /\ SyncEvery \in Nat /\ BufferSize \in Nat /\ BatchGroups \in Nat
  BY ScenarioValues DEF Typed, Loops
<1>2. SyncEvery' = SyncEvery
  BY DEF SyncEvery
<1>3. Len(<<>>) = 0
  BY EmptyLine
<1>4. Len(consumer'[l]) <= 1 /\ Len(buffer'[l]) <= BufferSize
  BY <1>1, <1>3 DEF LearnerBound
<1>5. Len(learner'[l].got) <= BatchGroups
  BY <1>1, <1>3 DEF LearnerBound
<1>6. learner'[l].h <= SyncEvery'
  BY <1>1, <1>2 DEF LearnerBound
<1>7. learner'[l].base <= learner'[l].win
  BY <1>1 DEF LearnerBound
<1> QED BY <1>4, <1>5, <1>6, <1>7 DEF LearnerBound

LEMMA WorkerStays ==
  ASSUME Typed, NEW w \in Workers, WorkerBound(w), scenario' = scenario, worker'[w] = worker[w],
         published' \in Nat, published' >= published
  PROVE  WorkerBound(w)'
<1>1. worker[w].version \in Nat /\ published \in Nat /\ GroupsPerRound' = GroupsPerRound
  BY DEF Typed, GroupsPerRound
<1> QED BY <1>1 DEF WorkerBound

LEMMA BoundWorker ==
  ASSUME Typed, BoundInv, NEW w \in Workers, WorkerStep(w) \/ PushTimesOut(w)
  PROVE  BoundInv'
<1>1. UNCHANGED <<scenario, learner, consumer, buffer, published, ckpt, publishing>>
  BY DEF WorkerStep, Load, Spawn, Push, PushTimesOut, feed, channel
<1>2. \A l \in Learners : LearnerBound(l)'
  BY <1>1, BoundIs, LearnerStays
<1>3. PublishBound'
  BY <1>1, BoundIs DEF PublishBound, strategy
<1>4. /\ published \in Nat /\ worker[w].version \in Nat /\ GroupsPerRound \in Nat
      /\ worker[w].flight \subseteq Groups
      /\ IsFiniteSet(worker[w].flight) /\ Cardinality(worker[w].flight) \in Nat
      /\ GroupsPerRound' = GroupsPerRound
  BY <1>1, ScenarioValues, BoundIs, FS_CardinalityType DEF Typed, WorkerBound, GroupsPerRound
<1>5. ASSUME NEW g \in worker[w].flight, Sent(w, g)
      PROVE  /\ WorkerBound(w)' /\ g \in Groups /\ \A v \in Workers \ {w} : worker'[v] = worker[v]
  <2>1. /\ worker'[w].flight = worker[w].flight \ {g} /\ worker'[w].version = worker[w].version
        /\ \A v \in Workers \ {w} : worker'[v] = worker[v]
    BY <1>5 DEF Sent, Typed
  <2>2. IsFiniteSet(worker'[w].flight) /\ Cardinality(worker'[w].flight) <= GroupsPerRound
    <3>1. IsFiniteSet(worker[w].flight) /\ Cardinality(worker[w].flight) <= GroupsPerRound
      BY BoundIs DEF WorkerBound
    <3>2. /\ IsFiniteSet(worker[w].flight \ {g})
          /\ Cardinality(worker[w].flight \ {g}) = Cardinality(worker[w].flight) - 1
      BY <1>5, <3>1, FS_RemoveElement
    <3> QED BY <1>4, <2>1, <3>1, <3>2
  <2> QED BY <1>1, <1>4, <2>1, <2>2, BoundIs DEF WorkerBound
<1>6. /\ WorkerBound(w)' /\ Len(queue') <= QueueSize /\ \A v \in Workers \ {w} : worker'[v] = worker[v]
  <2>1. CASE Load(w)
    BY <1>1, <1>4, <2>1, BoundIs DEF Load, Typed, WorkerBound
  <2>2. CASE Spawn(w)
    <3> DEFINE g == [from |-> w, nr |-> worker[w].serial + 1, version |-> worker[w].version]
    <3>1. /\ worker'[w].flight = worker[w].flight \cup {g} /\ worker'[w].version = worker[w].version
          /\ Cardinality(worker[w].flight) < GroupsPerRound /\ UNCHANGED queue
          /\ \A v \in Workers \ {w} : worker'[v] = worker[v]
      BY <2>2 DEF Spawn, Typed
    <3> HIDE DEF g
    <3>2. IsFiniteSet(worker'[w].flight) /\ Cardinality(worker'[w].flight) <= GroupsPerRound
      <4>1. /\ IsFiniteSet(worker[w].flight \cup {g})
            /\ Cardinality(worker[w].flight \cup {g})
                 \in {Cardinality(worker[w].flight), Cardinality(worker[w].flight) + 1}
        BY <1>4, FS_AddElement
      <4> QED BY <1>4, <3>1, <4>1
    <3> QED BY <1>1, <1>4, <3>1, <3>2, BoundIs DEF WorkerBound
  <2>3. CASE Push(w)
    <3>1. PICK g \in worker[w].flight : Sent(w, g) /\ Enqueue(g)
      BY <2>3 DEF Push, Tag
    <3> QED BY <1>5, <3>1, BoundIs, QueueBound
  <2>4. CASE PushTimesOut(w)
    <3>1. PICK g \in worker[w].flight : Sent(w, g)
      BY <2>4 DEF PushTimesOut
    <3>2. UNCHANGED queue
      BY <2>4 DEF PushTimesOut
    <3> QED BY <1>5, <3>1, <3>2, BoundIs
  <2> QED BY <2>1, <2>2, <2>3, <2>4 DEF WorkerStep
<1>7. \A v \in Workers : WorkerBound(v)'
  BY <1>1, <1>4, <1>6, BoundIs, WorkerStays
<1> QED BY <1>2, <1>3, <1>6, <1>7, BoundIsThen

\* Bounds after a step that is neither a worker's nor a publish.
LEMMA BoundFrame ==
  ASSUME Typed, BoundInv, UNCHANGED <<scenario, worker, published, ckpt>>,
         strategy = "own" \/ UNCHANGED publishing,
         Len(queue') <= QueueSize, \A m \in Learners : LearnerBound(m)'
  PROVE  BoundInv'
<1>1. published \in Nat
  BY DEF Typed
<1>2. \A w \in Workers : WorkerBound(w)'
  BY <1>1, BoundIs, WorkerStays
<1>3. PublishBound'
  BY BoundIs DEF PublishBound, strategy
<1> QED BY <1>2, <1>3, BoundIsThen

LEMMA QueueShrinks ==
  ASSUME Typed, BoundInv, Shrunk(queue', queue)
  PROVE  Len(queue') <= QueueSize
<1>1. queue \in Seq(Groups) /\ QueueSize \in Nat /\ Len(queue) <= QueueSize
  BY ScenarioValues DEF Typed, BoundInv
<1>2. queue' \in Seq(Groups) /\ Len(queue') <= Len(queue)
  BY <1>1, ShrunkLine
<1> QED BY <1>1, <1>2

LEMMA BoundConsume ==
  ASSUME Typed, BoundInv, NEW l \in Learners, Consume(l) \/ PopTimesOut(l)
  PROVE  BoundInv'
<1>1. UNCHANGED <<scenario, worker, published, ckpt, publishing, learner>>
  BY DEF Consume, Pop, Put, PopTimesOut, poolW, channel
<1>2. CASE Pop(l)
  <2>1. Len(queue') <= QueueSize
    BY <1>2, QueueShrinks DEF Pop, Rest, Shrunk
  <2>2. consumer'[l] = <<Head(queue)>> /\ (\A m \in Learners \ {l} : consumer'[m] = consumer[m])
        /\ UNCHANGED buffer
    BY <1>2 DEF Pop, Typed
  <2>3. SyncEvery' = SyncEvery /\ Len(consumer'[l]) = 1
    BY <1>1, <2>2 DEF SyncEvery
  <2>4. LearnerBound(l)'
    BY <1>1, <2>2, <2>3, BoundIs DEF LearnerBound
  <2>5. \A m \in Learners \ {l} : LearnerBound(m)'
    BY <1>1, <2>2, BoundIs, LearnerStays
  <2> QED BY <1>1, <2>1, <2>4, <2>5, BoundFrame
<1>3. CASE Put(l)
  <2>1. UNCHANGED queue
    BY <1>3 DEF Put, poolW
  <2>2. /\ buffer'[l] = buffer[l] \o consumer[l] /\ consumer'[l] = <<>>
        /\ \A m \in Learners \ {l} : consumer'[m] = consumer[m] /\ buffer'[m] = buffer[m]
        /\ Len(buffer[l]) < BufferSize /\ consumer[l] \in Seq(Groups) /\ buffer[l] \in Seq(Groups)
    BY <1>3 DEF Put, Typed
  <2>3. Len(buffer'[l]) <= BufferSize
    BY <2>2, BoundIs, ScenarioValues DEF Typed, LearnerBound
  <2>4. \A m \in Learners : LearnerBound(m)'
    BY <1>1, <2>2, <2>3, BoundIs, LearnerStays
  <2> QED BY <1>1, <2>1, <2>4, BoundFrame, BoundIs
<1>4. CASE PopTimesOut(l)
  <2>1. Len(queue') <= QueueSize /\ UNCHANGED <<consumer, buffer>>
    BY <1>4, QueueShrinks DEF PopTimesOut, Rest, Shrunk
  <2>2. \A m \in Learners : LearnerBound(m)'
    BY <1>1, <2>1, BoundIs, LearnerStays
  <2> QED BY <1>1, <2>1, <2>2, BoundFrame
<1> QED BY <1>2, <1>3, <1>4 DEF Consume

LEMMA BoundLoop ==
  ASSUME Typed, BoundInv, NEW l \in Learners, TrainStep(l)
  PROVE  BoundInv'
<1>1. CASE Collect(l)
  <2>1. UNCHANGED <<scenario, worker, queue, consumer, published, ckpt, publishing>>
    BY <1>1, CollectEffect DEF channel
  <2>2. /\ learner'[l].base = learner[l].base /\ learner'[l].win = learner[l].win
        /\ learner'[l].h = learner[l].h
        /\ \A m \in Learners \ {l} : learner'[m] = learner[m] /\ buffer'[m] = buffer[m]
    BY <1>1, CollectEffect, CollectFields
  <2>3. Len(buffer'[l]) <= BufferSize
    <3>1. /\ buffer[l] \in Seq(Groups) /\ buffer[l] # <<>> /\ buffer'[l] = Tail(buffer[l])
          /\ BufferSize \in Nat /\ Len(buffer[l]) <= BufferSize
      <4>1. BufferSize \in Nat /\ Len(buffer[l]) <= BufferSize
        BY ScenarioValues, BoundIs DEF LearnerBound, Typed
      <4> QED BY <1>1, <4>1, CollectEffect
    <3> QED BY <3>1, TailLine, LineValues
  <2>4. Len(learner'[l].got) <= BatchGroups
    <3>1. /\ learner[l].got \in Seq(Groups) /\ Head(buffer[l]) \in Groups
          /\ Len(learner[l].got) < BatchGroups /\ BatchGroups \in Nat
      BY <1>1, CollectEffect, CollectFields, TailLine, ScenarioValues DEF Typed, Loops
    <3>2. /\ Len(Append(learner[l].got, Head(buffer[l]))) = Len(learner[l].got) + 1
          /\ Len(learner[l].got) \in Nat
      BY <3>1, AppendLine, LineValues
    <3> QED BY <1>1, <3>1, <3>2, CollectFields
  <2>5. LearnerBound(l)'
    BY <2>1, <2>2, <2>3, <2>4, BoundIs DEF LearnerBound, SyncEvery
  <2>6. \A m \in Learners \ {l} : LearnerBound(m)'
    BY <2>1, <2>2, BoundIs, LearnerStays
  <2> QED BY <2>1, <2>5, <2>6, BoundFrame, BoundIs
<1>2. CASE StartStep(l)
  <2>1. UNCHANGED <<scenario, worker, queue, consumer, buffer, published, ckpt, publishing>>
    BY <1>2, StartFields DEF channel, feed
  <2>2. /\ learner'[l].base = learner[l].base /\ learner'[l].win = learner[l].win
        /\ learner'[l].h = learner[l].h + 1 /\ learner[l].h < SyncEvery /\ learner'[l].got = <<>>
        /\ \A m \in Learners \ {l} : learner'[m] = learner[m]
    BY <1>2, StartFields
  <2>3. learner[l].h \in Nat /\ SyncEvery \in Nat /\ BatchGroups \in Nat /\ SyncEvery' = SyncEvery
    BY <2>1, ScenarioValues DEF Typed, Loops, SyncEvery
  <2>4. LearnerBound(l)'
    BY <2>1, <2>2, <2>3, BoundIs, EmptyLine DEF LearnerBound
  <2>5. \A m \in Learners \ {l} : LearnerBound(m)'
    BY <2>1, <2>2, BoundIs, LearnerStays
  <2> QED BY <2>1, <2>4, <2>5, BoundFrame, BoundIs
<1>3. CASE FinishStep(l) \/ Stall(l)
  <2>1. /\ learner'[l].base = learner[l].base /\ learner'[l].h = learner[l].h
        /\ learner'[l].win \in {learner[l].win, learner[l].win + 1}
        /\ learner'[l].got \in {learner[l].got, <<>>}
        /\ \A m \in Learners \ {l} : learner'[m] = learner[m]
        /\ \A m \in Learners : /\ consumer'[m] \in {consumer[m], <<>>}
                               /\ buffer'[m] \in {buffer[m], <<>>}
        /\ UNCHANGED <<scenario, worker, queue, published, ckpt, publishing>>
    BY <1>3, EndsEffect DEF channel
  <2>2. \A m \in Learners : LearnerBound(m)'
    BY <2>1, BoundIs, LearnerStays
  <2> QED BY <2>1, <2>2, BoundFrame, BoundIs
<1>4. CASE SyncHub(l) \/ SyncOwn(l)
  <2>1. /\ learner'[l].base \in {learner[l].base, learner[l].win} /\ learner'[l].win = learner[l].win
        /\ learner'[l].h \in {learner[l].h, 0} /\ learner'[l].got \in {learner[l].got, <<>>}
        /\ \A m \in Learners \ {l} : learner'[m] = learner[m]
        /\ \A m \in Learners : /\ consumer'[m] \in {consumer[m], <<>>}
                               /\ buffer'[m] \in {buffer[m], <<>>}
        /\ UNCHANGED <<scenario, worker, queue>>
    BY <1>4, SyncEffect
  <2>2. UNCHANGED <<published, ckpt>> /\ (strategy = "own" \/ UNCHANGED publishing)
    BY <1>4 DEF SyncHub, SyncOwn, channel
  <2>3. \A m \in Learners : LearnerBound(m)'
    BY <2>1, BoundIs, LearnerStays
  <2> QED BY <2>1, <2>2, <2>3, BoundFrame, BoundIs
<1> QED BY <1>1, <1>2, <1>3, <1>4 DEF TrainStep

LEMMA BoundPublish ==
  ASSUME Typed, BoundInv, Publish
  PROVE  BoundInv'
<1>1. UNCHANGED <<scenario, worker, queue, consumer, buffer, learner>>
  BY DEF Publish, SnapshotOwn, PostOwn, HubPublish, poolW, feed
<1>2. published \in Nat /\ ckpt \in Nat /\ revision \in Nat /\ strategy' = strategy
      /\ strategy \in {"hub", "own"}
  BY <1>1, ScenarioValues DEF Typed, strategy
<1>3. PublishBound
  BY BoundIs
<1>4. published' \in Nat /\ published' >= published /\ PublishBound'
  <2>1. CASE SnapshotOwn
    BY <1>2, <1>3, <2>1 DEF SnapshotOwn, PublishBound
  <2>2. CASE PostOwn /\ strategy = "own"
    BY <1>2, <1>3, <2>2 DEF PostOwn, PublishBound
  <2>3. CASE HubPublish
    BY <1>2, <1>3, <2>3 DEF HubPublish, PublishBound
  <2>4. PostOwn => strategy = "own"
    BY <1>2, <1>3 DEF PostOwn, PublishBound
  <2> QED BY <2>1, <2>2, <2>3, <2>4 DEF Publish
<1>5. \A w \in Workers : WorkerBound(w)'
  BY <1>1, <1>4, BoundIs, WorkerStays
<1>6. \A l \in Learners : LearnerBound(l)'
  BY <1>1, BoundIs, LearnerStays
<1> QED BY <1>1, <1>4, <1>5, <1>6, BoundIs, BoundIsThen

LEMMA BoundStep ==
  ASSUME Typed, BoundInv, [Next]_vars
  PROVE  BoundInv'
<1>1. ASSUME NEW w \in Workers, WorkerStep(w) \/ PushTimesOut(w) PROVE BoundInv'
  BY <1>1, BoundWorker
<1>2. ASSUME NEW l \in Learners, Consume(l) \/ PopTimesOut(l) \/ TrainStep(l) PROVE BoundInv'
  BY <1>2, BoundConsume, BoundLoop
<1>3. ASSUME UNCHANGED <<scenario, worker, published, ckpt, publishing, consumer, buffer, learner>>,
             Len(queue') <= QueueSize
      PROVE  BoundInv'
  <2>1. \A m \in Learners : LearnerBound(m)'
    BY <1>3, BoundIs, LearnerStays
  <2> QED BY <1>3, <2>1, BoundFrame
<1>4. CASE Late
  <2>1. CASE ServeLatePush
    <3>1. PICK g \in latePush : Enqueue(g)
      BY <2>1 DEF ServeLatePush
    <3>2. Len(queue') <= QueueSize
      BY <3>1, QueueBound, BoundIs DEF Typed
    <3> QED BY <1>3, <2>1, <3>2 DEF ServeLatePush, feed, channel
  <2>2. CASE ServeLatePop
    <3>1. Len(queue') <= QueueSize
      BY <2>2, QueueShrinks DEF ServeLatePop, Rest, Shrunk
    <3> QED BY <1>3, <2>2, <3>1 DEF ServeLatePop, channel
  <2> QED BY <1>4, <2>1, <2>2 DEF Late
<1>5. CASE ServerRestart \/ UNCHANGED vars
  <2>1. UNCHANGED <<scenario, worker, queue, published, ckpt, publishing, consumer, buffer, learner>>
    BY <1>5 DEF ServerRestart, vars, poolW, feed, channel
  <2> QED BY <1>3, <2>1, BoundIs
<1>6. CASE Publish
  BY <1>6, BoundPublish
<1> QED BY <1>1, <1>2, <1>4, <1>5, <1>6 DEF Next

LEMMA BoundInit == Init => BoundInv
<1> SUFFICES ASSUME Init PROVE BoundInv
  OBVIOUS
<1>1. /\ SyncEvery \in Nat \ {0} /\ GroupsPerRound \in Nat \ {0} /\ QueueSize \in Nat /\ BufferSize \in Nat
      /\ BatchGroups \in Nat
  BY ScenarioValues DEF Init
<1>2. IsFiniteSet({}) /\ Cardinality({}) = 0
  BY FS_EmptySet
<1>3. \A w \in Workers : WorkerBound(w)
  <2>1. \A w \in Workers : worker[w].flight = {} /\ worker[w].version = 0
    BY DEF Init
  <2>2. published \in {0, 1}
    BY DEF Init
  <2>3. 0 <= GroupsPerRound /\ 0 <= published
    BY <1>1, <2>2
  <2> HIDE <1>1, <2>2
  <2> QED BY <1>2, <2>1, <2>3 DEF WorkerBound
<1>4. \A l \in Learners : LearnerBound(l)
  BY <1>1, EmptyLine DEF Init, LearnerBound, FirstWindow
<1>5. Len(queue) <= QueueSize /\ PublishBound
  BY <1>1, EmptyLine DEF Init, PublishBound
<1> QED BY <1>3, <1>4, <1>5, BoundIs

-----------------------------------------------------------------------------
(* What is trained is fresh. *)

LEMMA GroupVersion ==
  ASSUME NEW g \in Groups
  PROVE  g.version \in Nat
  BY DEF Groups

LoopFresh(l) ==
  /\ ~learner[l].collecting => learner[l].got = <<>>
  /\ learner[l].pc # "window" => learner[l].train = <<>> /\ ~learner[l].collecting
  /\ learner[l].h = SyncEvery => ~learner[l].collecting
  /\ l \notin members => learner[l].got = <<>> /\ learner[l].train = <<>>
HandFresh(l) == \A g \in ToSet(learner[l].got) \cup ToSet(learner[l].train) : Behind(l, g)

LEMMA FreshIs ==
  /\ FreshInv <=> \A l \in Learners : LoopFresh(l) /\ HandFresh(l)
  /\ FreshInv' <=> \A l \in Learners : LoopFresh(l)' /\ HandFresh(l)'
  BY DEF FreshInv, LoopFresh, HandFresh

\* No group in hand, or the same groups and the same reference.
LEMMA HandStays ==
  ASSUME Typed, NEW l \in Learners, HandFresh(l), scenario' = scenario,
         ToSet(learner'[l].got) \cup ToSet(learner'[l].train)
           \subseteq ToSet(learner[l].got) \cup ToSet(learner[l].train),
         learner'[l].known = learner[l].known, UNCHANGED <<ckpt, publishing>>
  PROVE  HandFresh(l)'
  BY DEF HandFresh, Behind, Reference, strategy

LEMMA HandEmpty ==
  ASSUME NEW l \in Learners, learner'[l].got = <<>>, learner'[l].train = <<>>
  PROVE  HandFresh(l)'
  BY EmptyLine DEF HandFresh

LEMMA FreshStays ==
  ASSUME Typed, FreshInv, UNCHANGED <<scenario, learner, ckpt, publishing>>
  PROVE  FreshInv'
<1>1. \A l \in Learners : HandFresh(l)'
  BY FreshIs, HandStays
<1>2. \A l \in Learners : LoopFresh(l)'
  BY FreshIs DEF LoopFresh, SyncEvery, members
<1> QED BY <1>1, <1>2, FreshIs

LEMMA FreshOthers ==
  ASSUME Typed, FreshInv, NEW l \in Learners, scenario' = scenario, UNCHANGED <<ckpt, publishing>>,
         \A m \in Learners \ {l} : learner'[m] = learner[m]
  PROVE  \A m \in Learners \ {l} : LoopFresh(m)' /\ HandFresh(m)'
<1>1. \A m \in Learners \ {l} : HandFresh(m)'
  BY FreshIs, HandStays
<1>2. \A m \in Learners \ {l} : LoopFresh(m)'
  BY FreshIs DEF LoopFresh, SyncEvery, members
<1> QED BY <1>1, <1>2

LEMMA FreshCollect ==
  ASSUME Typed, FreshInv, NEW l \in Learners, Collect(l)
  PROVE  FreshInv'
<1> DEFINE g == Head(buffer[l])
<1>1. UNCHANGED <<scenario, ckpt, publishing>>
  BY CollectEffect DEF channel
<1>2. LoopFresh(l)'
  <2>1. SyncEvery' = SyncEvery /\ members' = members
    BY <1>1 DEF SyncEvery, members
  <2> QED BY <2>1, CollectFields, FreshIs DEF LoopFresh
<1>3. HandFresh(l)'
  <2>1. CASE learner'[l].got = learner[l].got
    BY <1>1, <2>1, CollectFields, FreshIs, HandStays
  <2>2. CASE learner'[l].got # learner[l].got
    <3>1. /\ learner'[l].got = Append(learner[l].got, g) /\ ~TooStale(l, g)
          /\ learner'[l].train = learner[l].train /\ learner'[l].known = learner[l].known
      BY <2>2, CollectFields
    <3>2. g \in Groups /\ learner[l].got \in Seq(Groups)
      BY CollectEffect, TailLine DEF Typed, Loops
    <3> HIDE DEF g
    <3>3. ToSet(learner'[l].got) = ToSet(learner[l].got) \cup {g}
      BY <3>1, <3>2, AppendLine
    <3>4. Behind(l, g)
      <4>1. Reference(l) \in Nat /\ MaxStaleness \in Nat
        BY PoolAssumption DEF Reference, Typed, Loops
      <4> QED BY <3>1, <3>2, <4>1, GroupVersion DEF Behind, TooStale
    <3>5. \A k \in ToSet(learner'[l].got) \cup ToSet(learner'[l].train) : Behind(l, k)
      BY <3>1, <3>3, <3>4, FreshIs DEF HandFresh
    <3>6. \A k : Behind(l, k)' <=> Behind(l, k)
      BY <1>1, <3>1 DEF Behind, Reference, strategy
    <3> QED BY <3>5, <3>6 DEF HandFresh
  <2> QED BY <2>1, <2>2
<1>4. \A m \in Learners \ {l} : LoopFresh(m)' /\ HandFresh(m)'
  BY <1>1, CollectFields, FreshOthers
<1> QED BY <1>2, <1>3, <1>4, FreshIs

LEMMA FreshWindow ==
  ASSUME Typed, FreshInv, NEW l \in Learners, StartStep(l) \/ FinishStep(l) \/ Stall(l)
  PROVE  FreshInv'
<1>1. /\ UNCHANGED <<scenario, ckpt, publishing>> /\ learner'[l].known = learner[l].known
      /\ \A m \in Learners \ {l} : learner'[m] = learner[m]
  BY StartFields, EndsEffect DEF channel
<1>2. learner[l].h \in Nat /\ SyncEvery \in Nat \ {0} /\ SyncEvery' = SyncEvery /\ members' = members
  BY <1>1, ScenarioValues DEF Typed, Loops, SyncEvery, members
<1>3. LoopFresh(l) /\ HandFresh(l)
  BY FreshIs
<1>4. LoopFresh(l)' /\ HandFresh(l)'
  <2>1. CASE StartStep(l)
    <3>1. LoopFresh(l)'
      <4>1. /\ learner'[l].got = <<>> /\ learner'[l].pc = "window" /\ l \in members
            /\ learner'[l].h = learner[l].h + 1
            /\ learner'[l].collecting = (learner[l].h + 1 < SyncEvery)
        BY <2>1, StartFields
      <4>2. learner'[l].h = SyncEvery => ~learner'[l].collecting
        <5>1. learner'[l].h = SyncEvery => ~(learner[l].h + 1 < SyncEvery)
          BY <1>2, <4>1
        <5> QED BY <4>1, <5>1, Zenon
      <4> QED BY <1>2, <4>1, <4>2 DEF LoopFresh
    <3>2. learner'[l].train = learner[l].got /\ learner'[l].got = <<>>
      BY <2>1, StartFields
    <3> QED BY <1>1, <1>3, <3>1, <3>2, HandStays, EmptyLine
  <2>2. CASE FinishStep(l) \/ Stall(l)
    <3>1. learner'[l].train = <<>> /\ learner'[l].got \in {learner[l].got, <<>>}
      BY <2>2, EndsEffect
    <3>2. LoopFresh(l)'
      BY <1>2, <1>3, <2>2, EndsEffect, EmptyLine DEF LoopFresh
    <3> QED BY <1>1, <1>3, <3>1, <3>2, HandStays, EmptyLine
  <2> QED BY <2>1, <2>2
<1>5. \A m \in Learners \ {l} : LoopFresh(m)' /\ HandFresh(m)'
  BY <1>1, FreshOthers
<1> QED BY <1>4, <1>5, FreshIs

LEMMA FreshSync ==
  ASSUME Typed, FreshInv, NEW l \in Learners, SyncHub(l) \/ SyncOwn(l)
  PROVE  FreshInv'
<1>1. /\ learner[l].train = <<>> /\ ~learner[l].collecting /\ learner[l].got = <<>> /\ l \in members
      /\ scenario' = scenario /\ UNCHANGED ckpt
      /\ \A m \in Learners \ {l} : learner'[m] = learner[m]
  BY SyncEffect, FreshIs DEF LoopFresh, SyncHub, SyncOwn, channel
<1>2. SyncEvery \in Nat \ {0} /\ SyncEvery' = SyncEvery /\ members' = members
  BY <1>1, ScenarioValues DEF Typed, SyncEvery, members
<1>3. learner'[l].got = <<>> /\ learner'[l].train = <<>>
  BY <1>1, SyncEffect
<1>4. LoopFresh(l)'
  BY <1>1, <1>2, <1>3, SyncEffect DEF LoopFresh
<1>5. HandFresh(l)'
  BY <1>3, HandEmpty
<1>6. ASSUME NEW m \in Learners \ {l} PROVE LoopFresh(m)' /\ HandFresh(m)'
  <2>1. CASE SyncHub(l)
    BY <1>1, <2>1, FreshOthers DEF SyncHub, channel
  <2>2. CASE SyncOwn(l)
    <3>1. m \notin members
      BY <1>1, <2>2, ScenarioValues DEF SyncOwn, Typed
    <3>2. learner'[m] = learner[m] /\ learner'[m].got = <<>> /\ learner'[m].train = <<>>
      BY <1>1, <3>1, FreshIs DEF LoopFresh
    <3>3. LoopFresh(m)'
      BY <1>2, <3>2, FreshIs DEF LoopFresh
    <3> QED BY <3>2, <3>3, HandEmpty
  <2> QED BY <2>1, <2>2
<1> QED BY <1>4, <1>5, <1>6, FreshIs

LEMMA FreshPublish ==
  ASSUME Typed, FreshInv, BoundInv, Publish
  PROVE  FreshInv'
<1>1. UNCHANGED <<scenario, learner>>
  BY DEF Publish, SnapshotOwn, PostOwn, HubPublish
<1>2. \A l \in Learners : LoopFresh(l)'
  BY <1>1, FreshIs DEF LoopFresh, SyncEvery, members
<1>3. ASSUME NEW l \in Learners, NEW g \in Groups, Behind(l, g) PROVE Behind(l, g)'
  <2>1. /\ strategy \in {"hub", "own"} /\ strategy' = strategy /\ ckpt \in Nat /\ learner[l].known \in Nat
        /\ g.version \in Nat /\ MaxStaleness \in Nat
    BY <1>1, ScenarioValues, GroupVersion DEF Typed, Loops, strategy
  <2>2. CASE strategy = "hub"
    BY <1>1, <1>3, <2>1, <2>2 DEF Behind, Reference
  <2>3. CASE strategy = "own" /\ SnapshotOwn
    BY <1>1, <1>3, <2>1, <2>3 DEF Behind, Reference, SnapshotOwn
  <2>4. CASE strategy = "own" /\ PostOwn
    BY <1>1, <1>3, <2>1, <2>4 DEF Behind, Reference, PostOwn
  <2>5. CASE strategy = "own" /\ HubPublish
    BY <2>5 DEF HubPublish
  <2> QED BY <2>1, <2>2, <2>3, <2>4, <2>5 DEF Publish
<1>4. \A l \in Learners : ToSet(learner[l].got) \cup ToSet(learner[l].train) \subseteq Groups
  BY LineValues DEF Typed, Loops
<1>5. \A l \in Learners : HandFresh(l)'
  BY <1>1, <1>3, <1>4, FreshIs DEF HandFresh
<1> QED BY <1>2, <1>5, FreshIs

LEMMA FreshStep ==
  ASSUME Typed, BoundInv, FreshInv, [Next]_vars
  PROVE  FreshInv'
<1>1. ASSUME NEW w \in Workers, WorkerStep(w) \/ PushTimesOut(w) PROVE FreshInv'
  BY <1>1, FreshStays DEF WorkerStep, Load, Spawn, Push, PushTimesOut, channel
<1>2. ASSUME NEW l \in Learners, Consume(l) \/ PopTimesOut(l) \/ TrainStep(l) PROVE FreshInv'
  <2>1. CASE Consume(l) \/ PopTimesOut(l)
    BY <2>1, FreshStays DEF Consume, Pop, Put, PopTimesOut, channel
  <2>2. CASE TrainStep(l)
    BY <2>2, FreshCollect, FreshWindow, FreshSync DEF TrainStep
  <2> QED BY <1>2, <2>1, <2>2
<1>3. CASE Publish
  BY <1>3, FreshPublish
<1>4. CASE Late \/ ServerRestart \/ UNCHANGED vars
  BY <1>4, FreshStays DEF Late, ServeLatePush, ServeLatePop, ServerRestart, vars, channel
<1> QED BY <1>1, <1>2, <1>3, <1>4 DEF Next

LEMMA FreshInit == Init => FreshInv
<1> SUFFICES ASSUME Init PROVE FreshInv
  OBVIOUS
<1>1. SyncEvery \in Nat \ {0}
  BY ScenarioValues DEF Init
<1>2. \A l \in Learners : learner[l] = FirstWindow
  BY DEF Init
<1>3. \A l \in Learners : LoopFresh(l)
  BY <1>1, <1>2 DEF LoopFresh, FirstWindow
<1>4. \A l \in Learners : HandFresh(l)
  BY <1>2, EmptyLine DEF HandFresh, FirstWindow
<1> QED BY <1>3, <1>4, FreshIs

-----------------------------------------------------------------------------
(* Windows are counted once, in order. *)

Ends(l) == log[l] # <<>> =>
  log[l][Len(log[l])][2] = learner[l].base /\ learner[l].baseRev <= revision
Joined(l) == \A i \in 1..Len(log[l]) - 1 : log[l][i + 1][1] = log[l][i][2] + 1
WorkAll == WorkInv /\ WorkContinuous

LEMMA WorkIs ==
  /\ WorkAll <=> /\ strategy = "own" => \A l \in Learners : log[l] = <<>>
                 /\ faults["reply"] = 0 => \A l \in Learners : Ends(l) /\ Joined(l)
  /\ WorkAll' <=> /\ strategy' = "own" => \A l \in Learners : log'[l] = <<>>
                  /\ faults'["reply"] = 0 => \A l \in Learners : Ends(l)' /\ Joined(l)'
  BY DEF WorkAll, WorkInv, WorkContinuous, Ends, Joined

LEMMA FaultGrows ==
  ASSUME faults \in [FaultKinds -> Nat], UNCHANGED faults \/ \E k \in FaultKinds : Fault(k)
  PROVE  faults'["reply"] = 0 => faults["reply"] = 0
<1>1. "reply" \in FaultKinds
  BY DEF FaultKinds
<1>2. CASE UNCHANGED faults
  BY <1>2
<1>3. ASSUME NEW k \in FaultKinds, Fault(k) PROVE faults'["reply"] = 0 => faults["reply"] = 0
  BY <1>1, <1>3, FaultTyped
<1> QED BY <1>2, <1>3

\* Only the end of a window moves what a push begins with.
LEMMA WorkStays ==
  ASSUME Typed, WorkAll, UNCHANGED <<scenario, log, revision>>,
         faults'["reply"] = 0 => faults["reply"] = 0,
         \A m \in Learners : learner'[m].base = learner[m].base /\ learner'[m].baseRev = learner[m].baseRev
  PROVE  WorkAll'
<1>1. strategy' = strategy
  BY DEF strategy
<1>2. \A m \in Learners : (Ends(m) => Ends(m)') /\ (Joined(m) => Joined(m)')
  BY DEF Ends, Joined
<1> QED BY <1>1, <1>2, WorkIs

\* A push that is folded in begins where the last one ended.
LEMMA JoinedAppend ==
  ASSUME Typed, NEW l \in Learners, Ends(l), Joined(l), Applied(l)
  PROVE  Joined(l)' /\ log'[l] # <<>> /\ log'[l][Len(log'[l])][2] = learner[l].win
<1> DEFINE q == log[l]  p == log'[l]  x == <<learner[l].base + 1, learner[l].win>>
<1>1. q \in Seq(Nat \X Nat) /\ x \in Nat \X Nat /\ p = Append(q, x)
      /\ x[1] = learner[l].base + 1 /\ x[2] = learner[l].win
  BY AppliedTyped, SyncForms DEF Typed
<1>2. (q # <<>> => q[Len(q)][2] = learner[l].base) /\ \A i \in 1..Len(q) - 1 : q[i + 1][1] = q[i][2] + 1
  BY DEF Ends, Joined
<1> HIDE DEF x, q, p
<1>3. /\ Len(q) \in Nat /\ Len(p) = Len(q) + 1 /\ p[Len(q) + 1] = x /\ p # <<>>
      /\ \A i \in 1..Len(q) : p[i] = q[i]
      /\ Len(q) > 0 => q # <<>>
  BY <1>1
<1>4. ASSUME NEW i \in 1..Len(p) - 1 PROVE p[i + 1][1] = p[i][2] + 1
  <2>1. CASE i < Len(q)
    BY <1>2, <1>3, <2>1
  <2>2. CASE i = Len(q)
    BY <1>1, <1>2, <1>3, <2>2
  <2> QED BY <1>3, <2>1, <2>2
<1> QED BY <1>1, <1>3, <1>4 DEF Joined, p

LEMMA WorkSyncHub ==
  ASSUME Typed, WorkAll, NEW l \in Learners, SyncHub(l)
  PROVE  WorkAll'
<1>1. scenario' = scenario /\ strategy = "hub" /\ strategy' = strategy
  BY DEF SyncHub, strategy
<1>2. faults'["reply"] = 0 => faults["reply"] = 0
  BY FaultGrows DEF SyncHub, Typed, FaultKinds
<1>3. \A m \in Learners \ {l} : learner'[m] = learner[m]
  BY SyncEffect
<1>4. revision \in Nat /\ learner[l] \in Loops /\ learner[l].baseRev \in Nat /\ learner[l].base \in Nat
  BY DEF Typed, Loops
<1>5. ASSUME NEW s \in Loops, Settle(l, s) PROVE learner'[l].base = s.base /\ learner'[l].baseRev = s.baseRev
  BY <1>5, SettleEffect, AfterSyncForm
<1>6. SUFFICES ASSUME faults'["reply"] = 0 PROVE \A m \in Learners : Ends(m)' /\ Joined(m)'
  BY <1>1, WorkIs
<1>7. \A m \in Learners : Ends(m) /\ Joined(m)
  BY <1>2, <1>6, WorkIs
<1>8. CASE Applied(l) /\ Settle(l, Adopted(learner[l], revision + 1))
  <2> DEFINE s == Adopted(learner[l], revision + 1)
  <2>1. s \in Loops /\ s.base = learner[l].win /\ s.baseRev = revision + 1
    BY <1>4, SyncForms DEF Adopted, Loops
  <2>2. learner'[l].base = learner[l].win /\ learner'[l].baseRev = revision + 1
    BY <1>5, <1>8, <2>1
  <2>3. revision' = revision + 1 /\ \A m \in Learners \ {l} : log'[m] = log[m]
    BY <1>8, AppliedTyped DEF Applied
  <2>4. Ends(l)' /\ Joined(l)'
    BY <1>4, <1>7, <1>8, <2>2, <2>3, JoinedAppend DEF Ends
  <2>5. \A m \in Learners \ {l} : learner[m].baseRev \in Nat
    BY DEF Typed, Loops
  <2>6. \A m \in Learners \ {l} : Ends(m)' /\ Joined(m)'
    <3> SUFFICES ASSUME NEW m \in Learners \ {l} PROVE Ends(m)' /\ Joined(m)'
      OBVIOUS
    <3>1. learner'[m] = learner[m] /\ log'[m] = log[m] /\ revision' >= revision
          /\ (learner[m].baseRev <= revision => learner[m].baseRev <= revision')
      BY <1>3, <1>4, <2>3, <2>5
    <3>2. Ends(m)'
      BY <1>7, <3>1 DEF Ends
    <3>3. Joined(m)'
      BY <1>7, <3>1 DEF Joined
    <3> QED BY <3>2, <3>3
  <2> QED BY <2>4, <2>6
<1>9. CASE Rejects(l) /\ Settle(l, Adopted(learner[l], revision)) /\ UNCHANGED <<revision, log>>
  <2>1. log[l] = <<>>
    BY <1>4, <1>7, <1>9 DEF Ends, Rejects
  <2>2. Ends(l)' /\ Joined(l)'
    BY <1>9, <2>1, EmptyLine DEF Ends, Joined
  <2>3. \A m \in Learners \ {l} : Ends(m)' /\ Joined(m)'
    BY <1>3, <1>7, <1>9 DEF Ends, Joined
  <2> QED BY <2>2, <2>3
<1>10. CASE Settle(l, Failed(learner[l])) /\ UNCHANGED <<revision, log>>
  <2>1. /\ Failed(learner[l]) \in Loops /\ Failed(learner[l]).base = learner[l].base
        /\ Failed(learner[l]).baseRev = learner[l].baseRev
    BY <1>4, SyncForms DEF Failed, Loops
  <2>2. learner'[l].base = learner[l].base /\ learner'[l].baseRev = learner[l].baseRev
    BY <1>5, <1>10, <2>1
  <2>3. \A m \in Learners : Ends(m)' /\ Joined(m)'
    BY <1>3, <1>7, <1>10, <2>2 DEF Ends, Joined
  <2> QED BY <2>3
<1>11. ~Fault("reply")
  <2>1. "reply" \in FaultKinds /\ faults \in [FaultKinds -> Nat]
    BY DEF FaultKinds, Typed
  <2> QED BY <1>6, <2>1, FaultTyped
<1> QED BY <1>8, <1>9, <1>10, <1>11 DEF SyncHub, server

LEMMA WorkStep ==
  ASSUME Typed, WorkAll, [Next]_vars
  PROVE  WorkAll'
<1>1. faults'["reply"] = 0 => faults["reply"] = 0
  <2>1. UNCHANGED faults \/ \E k \in FaultKinds : Fault(k)
    <3>1. ASSUME NEW w \in Workers, WorkerStep(w) \/ PushTimesOut(w)
          PROVE  UNCHANGED faults \/ \E k \in FaultKinds : Fault(k)
      BY <3>1 DEF WorkerStep, Load, Spawn, Push, PushTimesOut, FaultKinds
    <3>2. ASSUME NEW l \in Learners, Consume(l) \/ PopTimesOut(l) \/ TrainStep(l)
          PROVE  UNCHANGED faults \/ \E k \in FaultKinds : Fault(k)
      <4>1. {"pop", "untrainable", "nan", "unpushed", "reply"} \subseteq FaultKinds
        BY DEF FaultKinds
      <4> QED BY <3>2, <4>1 DEF Consume, Pop, Put, PopTimesOut, TrainStep, Collect, StartStep, FinishStep,
                              Stall, SyncHub, SyncOwn
    <3>3. CASE Publish \/ Late \/ ServerRestart \/ UNCHANGED vars
      BY <3>3 DEF Publish, SnapshotOwn, PostOwn, HubPublish, Late, ServeLatePush, ServeLatePop,
                  ServerRestart, vars, FaultKinds
    <3> QED BY <3>1, <3>2, <3>3 DEF Next
  <2> QED BY <2>1, FaultGrows DEF Typed
<1>2. ASSUME UNCHANGED <<scenario, log, revision, learner>> PROVE WorkAll'
  BY <1>1, <1>2, WorkStays
<1>3. ASSUME NEW w \in Workers, WorkerStep(w) \/ PushTimesOut(w) PROVE WorkAll'
  BY <1>2, <1>3 DEF WorkerStep, Load, Spawn, Push, PushTimesOut, server
<1>4. ASSUME NEW l \in Learners, Consume(l) \/ PopTimesOut(l) \/ TrainStep(l) PROVE WorkAll'
  <2>1. CASE Consume(l) \/ PopTimesOut(l)
    BY <1>2, <2>1 DEF Consume, Pop, Put, PopTimesOut, server
  <2>2. CASE Collect(l) \/ StartStep(l) \/ FinishStep(l) \/ Stall(l)
    <3>1. /\ learner'[l].base = learner[l].base /\ learner'[l].baseRev = learner[l].baseRev
          /\ \A m \in Learners \ {l} : learner'[m] = learner[m]
      BY <2>2, CollectFields, StartFields, EndsEffect
    <3>2. UNCHANGED <<scenario, log, revision>>
      BY <2>2 DEF Collect, StartStep, FinishStep, Stall, server
    <3> QED BY <1>1, <3>1, <3>2, WorkStays
  <2>3. CASE SyncHub(l)
    BY <2>3, WorkSyncHub
  <2>4. CASE SyncOwn(l)
    <3>1. strategy = "own" /\ strategy' = strategy /\ UNCHANGED log
      BY <2>4 DEF SyncOwn, strategy, server
    <3>2. \A m \in Learners : log'[m] = <<>>
      BY <3>1, WorkIs
    <3>3. \A m \in Learners : Ends(m)' /\ Joined(m)'
      BY <3>2, EmptyLine DEF Ends, Joined
    <3> QED BY <3>2, <3>3, WorkIs
  <2> QED BY <1>4, <2>1, <2>2, <2>3, <2>4 DEF TrainStep
<1>5. CASE Publish \/ Late \/ UNCHANGED vars
  BY <1>2, <1>5 DEF Publish, SnapshotOwn, PostOwn, HubPublish, Late, ServeLatePush, ServeLatePop, vars, server
<1>6. CASE ServerRestart
  <2>1. \A m \in Learners : log'[m] = <<>>
    BY <1>6 DEF ServerRestart
  <2>2. \A m \in Learners : Ends(m)' /\ Joined(m)'
    BY <2>1, EmptyLine DEF Ends, Joined
  <2> QED BY <2>1, <2>2, WorkIs
<1> QED BY <1>3, <1>4, <1>5, <1>6 DEF Next

LEMMA WorkInit == Init => WorkAll
<1> SUFFICES ASSUME Init PROVE WorkAll
  OBVIOUS
<1>1. \A m \in Learners : log[m] = <<>>
  BY DEF Init
<1>2. \A m \in Learners : Ends(m) /\ Joined(m)
  BY <1>1, EmptyLine DEF Ends, Joined
<1> QED BY <1>1, <1>2, WorkIs

-----------------------------------------------------------------------------
(* How far the reference runs ahead. *)

LEMMA LagStep ==
  ASSUME Typed, BoundInv, PublishLag, [Next]_vars
  PROVE  PublishLag'
<1>0. /\ scenario' = scenario /\ strategy' = strategy
      /\ faults["publish"] \in Nat /\ published \in Nat /\ ckpt \in Nat
  <2>1. scenario' = scenario
    BY DEF Next, WorkerStep, Load, Spawn, Push, PushTimesOut, Consume, Pop, Put, PopTimesOut, TrainStep,
           Collect, StartStep, FinishStep, Stall, SyncHub, SyncOwn, Publish, SnapshotOwn, PostOwn, HubPublish,
           Late, ServeLatePush, ServeLatePop, ServerRestart, vars
  <2> QED BY <2>1 DEF strategy, Typed, FaultKinds
<1>1. ASSUME UNCHANGED faults \/ \E k \in FaultKinds : Fault(k)
      PROVE  faults'["publish"] \in Nat /\ faults'["publish"] >= faults["publish"]
  <2>1. "publish" \in FaultKinds /\ faults \in [FaultKinds -> Nat]
    BY DEF FaultKinds, Typed
  <2>2. ASSUME NEW k \in FaultKinds, Fault(k)
        PROVE  faults'["publish"] \in Nat /\ faults'["publish"] >= faults["publish"]
    BY <1>0, <2>1, <2>2, FaultTyped
  <2> QED BY <1>0, <1>1, <2>2
<1>2. ASSUME UNCHANGED <<published, ckpt>>, publishing' = publishing \/ publishing # "post",
             UNCHANGED faults \/ \E k \in FaultKinds : Fault(k)
      PROVE  PublishLag'
  BY <1>0, <1>1, <1>2 DEF PublishLag
<1>3. ASSUME NEW w \in Workers, WorkerStep(w) \/ PushTimesOut(w) PROVE PublishLag'
  BY <1>2, <1>3 DEF WorkerStep, Load, Spawn, Push, PushTimesOut, FaultKinds, channel
<1>4. ASSUME NEW l \in Learners, Consume(l) \/ PopTimesOut(l) \/ TrainStep(l) PROVE PublishLag'
  <2>1. UNCHANGED <<published, ckpt>> /\ (publishing' = publishing \/ publishing # "post")
    BY <1>4 DEF Consume, Pop, Put, PopTimesOut, TrainStep, Collect, StartStep, FinishStep,
                Stall, SyncHub, SyncOwn, channel, MayPublish
  <2>2. {"pop", "untrainable", "nan", "unpushed", "reply"} \subseteq FaultKinds
    BY DEF FaultKinds
  <2>3. UNCHANGED faults \/ \E k \in FaultKinds : Fault(k)
    BY <1>4, <2>2 DEF Consume, Pop, Put, PopTimesOut, TrainStep, Collect, StartStep, FinishStep,
                      Stall, SyncHub, SyncOwn
  <2> QED BY <1>2, <2>1, <2>3
<1>5. CASE SnapshotOwn
  BY <1>0, <1>5 DEF SnapshotOwn, PublishLag
<1>6. CASE PostOwn
  <2>1. CASE published' = ckpt /\ UNCHANGED <<faults, ckpt>>
    BY <1>0, <1>6, <2>1 DEF PostOwn, PublishLag
  <2>2. CASE Fault("publish") /\ UNCHANGED <<published, ckpt>>
    <3>1. faults'["publish"] = faults["publish"] + 1
      BY <2>2, FaultTyped DEF FaultKinds, Typed
    <3> QED BY <1>0, <1>6, <2>2, <3>1 DEF PostOwn, PublishLag
  <2> QED BY <1>6, <2>1, <2>2 DEF PostOwn
<1>7. CASE HubPublish
  BY <1>0, <1>7 DEF HubPublish, PublishLag
<1>8. CASE Late \/ ServerRestart \/ UNCHANGED vars
  BY <1>2, <1>8 DEF Late, ServeLatePush, ServeLatePop, ServerRestart, vars, channel, FaultKinds
<1> QED BY <1>3, <1>4, <1>5, <1>6, <1>7, <1>8 DEF Next, Publish

-----------------------------------------------------------------------------
PoolInv == Typed /\ BoundInv /\ OneInv /\ FreshInv /\ WorkAll /\ PublishLag

LEMMA PoolInductive == Spec => []PoolInv
<1>1. Init => PoolInv
  <2> SUFFICES ASSUME Init PROVE PublishLag
    BY TypedInit, BoundInit, OneInit, FreshInit, WorkInit DEF PoolInv
  <2>1. faults["publish"] = 0
    BY DEF Init, FaultKinds
  <2> QED BY <2>1 DEF Init, PublishLag
<1>2. PoolInv /\ [Next]_vars => PoolInv'
  BY TypedStep, BoundStep, OneStep, FreshStep, WorkStep, LagStep DEF PoolInv
<1> QED BY <1>1, <1>2, PTL DEF Spec

LEMMA PoolTypes == Typed /\ BoundInv => TypeOK
<1> SUFFICES ASSUME Typed, BoundInv PROVE TypeOK
  OBVIOUS
<1>1. \A l \in Learners : learner[l].pc \in {"window", "sync", "done", "raised", "stalled", "diverged"}
  BY DEF Typed, Loops
<1> QED BY <1>1 DEF Typed, BoundInv, TypeOK

\* Every group that has left its worker is in one place and is trained at most
\* once, whichever requests time out and are served late, and as long as no
\* answer to an applied push is lost each window is folded in exactly once.
THEOREM RolloutsUsedOnce == Spec => []PoolSound
<1>1. PoolInv => PoolSound
  BY PoolTypes DEF PoolInv, OneInv, WorkAll, PoolSound
<1> QED BY <1>1, PoolInductive, PTL

\* What is trained is no staler than max_staleness allows, stamps grow with the
\* order in which a worker starts its groups, and the reference runs ahead of
\* what can be fetched only by failed publishes and the one in flight.
THEOREM RolloutsAreFresh == Spec => []StampsFresh
<1>1. PoolInv => StampsFresh
  <2> SUFFICES ASSUME PoolInv PROVE StampsFresh
    OBVIOUS
  <2>1. TrainedFresh
    <3> SUFFICES ASSUME NEW l \in Learners, NEW i \in 1..Len(learner[l].train)
                 PROVE  Reference(l) - learner[l].train[i].version
                          <= MaxStaleness + (IF strategy = "own" THEN 1 ELSE 0)
      BY DEF TrainedFresh
    <3>1. learner[l].train \in Seq(Groups)
      BY DEF PoolInv, Typed, Loops
    <3>2. learner[l].train[i] \in ToSet(learner[l].train) /\ learner[l].train[i] \in Groups
      BY <3>1, LineValues
    <3>3. Behind(l, learner[l].train[i])
      BY <3>2 DEF PoolInv, FreshInv
    <3>4. Reference(l) \in Nat /\ learner[l].train[i].version \in Nat /\ MaxStaleness \in Nat
      BY <3>2, PoolAssumption, GroupVersion DEF PoolInv, Reference, Typed, Loops
    <3> QED BY <3>3, <3>4 DEF Behind
  <2>2. StampsInOrder
    BY DEF PoolInv, OneInv, GroupInv, Existing, Abroad, StampsInOrder
  <2> QED BY <2>1, <2>2 DEF PoolInv, StampsFresh
<1> QED BY <1>1, PoolInductive, PTL
===============================================================================
