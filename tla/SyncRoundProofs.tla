---------------------------- MODULE SyncRoundProofs ----------------------------
(***************************************************************************)
(* Outer steps shared by several sessions are sound: proofs that, for any  *)
(* workers, handler threads and settings, a round is one outer step over   *)
(* exactly its pushes, no pseudo-gradient is applied twice, one thread     *)
(* processes a batch, every member is told of steps that have its push,    *)
(* and, when a round needs all workers, that it averages pushes of one     *)
(* model. At the end, that the prototype the server was derived from is    *)
(* sound for workers of any paces.                                         *)
(***************************************************************************)
EXTENDS SyncRound, Simulator, FiniteSetTheorems, WellFoundedInduction, TLAPS

-----------------------------------------------------------------------------
(* Sessions. *)

Typed == TypeOK /\ ScenarioInv

LEMMA SomeWorker == (CHOOSE w \in Workers : TRUE) \in Workers
  BY RoundAssumption

LEMMA FreeTyped ==
  /\ FreeSession \in Sessions
  /\ FreeSession.phase = "free" /\ FreeSession.batch = NoBatch /\ FreeSession.applied = 0
  /\ FreeSession.push = 0
<1>1. PICK u \in Workers : u = CHOOSE w \in Workers : TRUE
  BY SomeWorker
<1>2. FreeSession = [phase |-> "free", worker |-> u, push |-> 0, basis |-> 0,
                     batch |-> NoBatch, awake |-> TRUE, applied |-> 0, revision |-> 0]
  BY <1>1 DEF FreeSession
<1> QED BY <1>2 DEF Sessions, Phases

LEMMA BecomeEffect ==
  ASSUME conn \in [Conns -> Sessions], NEW c \in Conns, NEW s \in Sessions, Become(c, s)
  PROVE  /\ conn' \in [Conns -> Sessions] /\ conn'[c] = s
         /\ \A d \in Conns \ {c} : conn'[d] = conn[d]
  BY DEF Become

\* The forms a session takes.
LEMMA SessionMoves ==
  ASSUME NEW s \in Sessions, NEW p \in Phases, NEW b \in Batches \cup {NoBatch}, NEW n \in Nat
  PROVE  /\ [s EXCEPT !.phase = p] \in Sessions
         /\ [s EXCEPT !.phase = p, !.revision = n] \in Sessions
         /\ [s EXCEPT !.phase = p, !.batch = b] \in Sessions
         /\ [s EXCEPT !.phase = p, !.batch = b, !.awake = FALSE] \in Sessions
         /\ [s EXCEPT !.phase = p, !.batch = b, !.applied = n] \in Sessions
         /\ [s EXCEPT !.phase = p, !.revision = n, !.batch = b] \in Sessions
         /\ [s EXCEPT !.applied = n] \in Sessions
         /\ [s EXCEPT !.awake = TRUE] \in Sessions
<1> HIDE DEF Phases
<1> QED BY DEF Sessions

\* A session moves outside any batch.
Outside(c) ==
  /\ conn' \in [Conns -> Sessions]
  /\ \A d \in Conns \ {c} : conn'[d] = conn[d]
  /\ conn[c].batch = NoBatch /\ conn'[c].batch = NoBatch
  /\ ~Processing(c) /\ ~Processing(c)' /\ conn'[c].phase # "waiting" /\ conn'[c].applied = 0
  /\ UNCHANGED roundVars

LEMMA OutsideBatch ==
  ASSUME Typed, SessionInv, NEW c \in Conns,
         conn[c].phase \in {"free", "sent", "admitted", "published", "answered", "closed"}
  PROVE  conn[c].batch = NoBatch /\ ~Processing(c) /\ conn[c].applied = 0 /\ conn[c] \in Sessions
  BY DEF SessionInv, Processing, Typed, TypeOK

LEMMA OutsideMove ==
  ASSUME Typed, SessionInv, NEW c \in Conns, NEW s \in Sessions, Become(c, s),
         conn[c].phase \in {"free", "sent", "admitted", "published", "answered", "closed"},
         s.phase \in {"free", "sent", "admitted", "published", "answered", "closed"},
         s.batch = NoBatch, s.applied = 0, UNCHANGED roundVars
  PROVE  Outside(c) /\ conn'[c] = s
<1>1. conn[c].batch = NoBatch /\ ~Processing(c)
  BY OutsideBatch
<1>2. /\ conn' \in [Conns -> Sessions] /\ conn'[c] = s
      /\ \A d \in Conns \ {c} : conn'[d] = conn[d]
  BY BecomeEffect DEF Typed, TypeOK
<1>3. ~Processing(c)' /\ conn'[c].phase # "waiting"
  BY <1>2 DEF Processing
<1> QED BY <1>1, <1>2, <1>3 DEF Outside

LEMMA WindowsGrow ==
  ASSUME Typed, NEW w \in Workers, MoreWindows(w), windows' = [windows EXCEPT ![w] = @ + 1],
         UNCHANGED scenario
  PROVE  /\ \A u \in Workers : windows'[u] \in 0..scenario.windows[u] /\ windows'[u] >= windows[u]
         /\ windows'[w] = windows[w] + 1
<1>1. scenario.windows \in [Workers -> Nat] /\ DOMAIN windows = Workers
  BY DEF Typed, ScenarioInv
<1>2. \A u \in Workers : windows[u] \in 0..scenario.windows[u]
  BY DEF Typed, TypeOK
<1> QED BY <1>1, <1>2 DEF MoreWindows

-----------------------------------------------------------------------------
(* What each action does to the session it is about. *)

LEMMA StartEffect ==
  ASSUME Typed, SessionInv, NEW w \in Workers, NEW c \in Conns, StartCall(w, c)
  PROVE  /\ Outside(c) /\ InPhase(c, "free") /\ call[w] = NoConn
         /\ call' = [call EXCEPT ![w] = c] /\ UNCHANGED <<baseline, resync, scenario>>
         /\ conn'[c].phase = "sent" /\ conn'[c].worker = w /\ conn'[c].push \in Nat
         /\ scenario.windows[w] > 0
         /\ DOMAIN windows' = Workers
         /\ \A u \in Workers : windows'[u] \in 0..scenario.windows[u] /\ windows'[u] >= windows[u]
         /\ conn'[c].push # 0 =>
              /\ conn'[c].push = windows[w] + 1 /\ conn'[c].push <= windows'[w]
              /\ HasBaseline(w) /\ ~resync[w] /\ conn'[c].basis = baseline[w]
<1>t. /\ DOMAIN windows = Workers /\ scenario.windows \in [Workers -> Nat]
      /\ \A u \in Workers : windows[u] \in 0..scenario.windows[u]
      /\ baseline \in [Workers -> Int]
  BY DEF Typed, TypeOK, ScenarioInv
<1>1. ASSUME NEW push \in Nat, Request(w, c, push)
      PROVE  /\ Outside(c) /\ InPhase(c, "free") /\ call[w] = NoConn
             /\ call' = [call EXCEPT ![w] = c] /\ UNCHANGED <<baseline, resync, scenario>>
             /\ conn'[c].phase = "sent" /\ conn'[c].worker = w /\ conn'[c].push = push
             /\ HasBaseline(w) => conn'[c].basis = baseline[w]
  <2> DEFINE basis == IF HasBaseline(w) THEN baseline[w] ELSE 0
             s == [FreeSession EXCEPT !.phase = "sent", !.worker = w, !.push = push, !.basis = basis]
  <2>1. basis \in Nat
    BY <1>t DEF HasBaseline
  <2>2. /\ s \in Sessions /\ s.phase = "sent" /\ s.worker = w /\ s.push = push
        /\ s.basis = basis /\ s.batch = NoBatch /\ s.applied = 0
    <3> HIDE DEF basis
    <3> QED BY <2>1, FreeTyped DEF Sessions, Phases
  <2>3. /\ Become(c, s) /\ InPhase(c, "free") /\ call[w] = NoConn
        /\ call' = [call EXCEPT ![w] = c]
        /\ UNCHANGED <<roundVars, baseline, resync, scenario>>
    BY <1>1 DEF Request
  <2> HIDE DEF s
  <2>4. Outside(c) /\ conn'[c] = s
    BY <2>2, <2>3, OutsideMove DEF InPhase
  <2> QED BY <2>2, <2>3, <2>4
<1>2. CASE StartPush(w, c)
  <2>1. windows[w] + 1 \in Nat
    BY <1>t
  <2>2. /\ Request(w, c, windows[w] + 1) /\ MoreWindows(w) /\ HasBaseline(w) /\ ~resync[w]
        /\ windows' = [windows EXCEPT ![w] = @ + 1]
    BY <1>2 DEF StartPush
  <2>3. UNCHANGED scenario
    BY <2>2 DEF Request
  <2>4. /\ \A u \in Workers : windows'[u] \in 0..scenario.windows[u] /\ windows'[u] >= windows[u]
        /\ windows'[w] = windows[w] + 1
    BY <2>2, <2>3, WindowsGrow
  <2>5. scenario.windows[w] > 0 /\ windows[w] + 1 <= windows'[w] /\ DOMAIN windows' = Workers
    BY <1>t, <2>2, <2>4 DEF MoreWindows
  <2> QED BY <1>1, <2>1, <2>2, <2>4, <2>5
<1>3. CASE InitialPull(w, c)
  <2>1. Request(w, c, 0) /\ UNCHANGED windows /\ scenario.windows[w] > 0
    BY <1>3 DEF InitialPull
  <2>2. \A u \in Workers : windows'[u] \in 0..scenario.windows[u] /\ windows'[u] >= windows[u]
    BY <1>t, <2>1
  <2> QED BY <1>1, <1>t, <2>1, <2>2
<1>4. CASE Resync(w, c)
  <2>1. Request(w, c, 0) /\ MoreWindows(w) /\ windows' = [windows EXCEPT ![w] = @ + 1]
    BY <1>4 DEF Resync
  <2>2. UNCHANGED scenario
    BY <2>1 DEF Request
  <2>3. \A u \in Workers : windows'[u] \in 0..scenario.windows[u] /\ windows'[u] >= windows[u]
    BY <2>1, <2>2, WindowsGrow
  <2>4. scenario.windows[w] > 0 /\ DOMAIN windows' = Workers
    BY <1>t, <2>1 DEF MoreWindows
  <2> QED BY <1>1, <2>1, <2>3, <2>4
<1> QED BY <1>2, <1>3, <1>4 DEF StartCall

LEMMA CallTyped ==
  ASSUME Typed, NEW w \in Workers, call[w] # NoConn
  PROVE  call[w] \in Conns
  BY DEF Typed, TypeOK

LEMMA AdoptEffect ==
  ASSUME Typed, SessionInv, NEW w \in Workers, Adopt(w)
  PROVE  /\ call[w] \in Conns /\ Outside(call[w]) /\ InPhase(call[w], "answered")
         /\ conn'[call[w]] = FreeSession
         /\ baseline' = [baseline EXCEPT ![w] = conn[call[w]].revision]
         /\ baseline' \in [Workers -> Int]
         /\ resync' = [resync EXCEPT ![w] = FALSE] /\ call' = [call EXCEPT ![w] = NoConn]
         /\ UNCHANGED <<windows, scenario>>
<1>1. call[w] \in Conns
  BY CallTyped DEF Adopt
<1>2. Outside(call[w]) /\ conn'[call[w]] = FreeSession
  BY <1>1, FreeTyped, OutsideMove DEF Adopt, InPhase
<1>3. conn[call[w]].revision \in Int
  BY <1>1 DEF Typed, TypeOK, Sessions
<1> QED BY <1>1, <1>2, <1>3 DEF Adopt, Typed, TypeOK

LEMMA CallFailsEffect ==
  ASSUME Typed, SessionInv, NEW w \in Workers, CallFails(w)
  PROVE  /\ call[w] \in Conns /\ Outside(call[w]) /\ InPhase(call[w], "closed")
         /\ conn'[call[w]] = FreeSession
         /\ resync' = [resync EXCEPT ![w] = HasBaseline(w)] /\ call' = [call EXCEPT ![w] = NoConn]
         /\ UNCHANGED <<baseline, windows, scenario>>
<1>1. call[w] \in Conns
  BY CallTyped DEF CallFails
<1>2. Outside(call[w]) /\ conn'[call[w]] = FreeSession
  BY <1>1, FreeTyped, OutsideMove DEF CallFails, InPhase, DropExchange
<1> QED BY <1>1, <1>2 DEF CallFails, DropExchange

\* Giving up changes the session only if the answer was there.
LEMMA TimeoutEffect ==
  ASSUME Typed, SessionInv, NEW w \in Workers, CallTimesOut(w)
  PROVE  /\ UNCHANGED <<roundVars, baseline, windows>>
         /\ scenario' = [scenario EXCEPT !.call = @ - 1, !.abandoned = TRUE] /\ scenario.call > 0
         /\ resync' = [resync EXCEPT ![w] = HasBaseline(w)] /\ call' = [call EXCEPT ![w] = NoConn]
         /\ \/ UNCHANGED conn
            \/ \E c \in Conns : Outside(c) /\ conn'[c] = FreeSession
<1>1. call[w] \in Conns
  BY CallTyped DEF CallTimesOut
<1>2. CASE InPhase(call[w], "answered")
  <2>1. Become(call[w], FreeSession) /\ UNCHANGED roundVars
    BY <1>2 DEF CallTimesOut, DropExchange
  <2>2. Outside(call[w]) /\ conn'[call[w]] = FreeSession
    BY <1>1, <1>2, <2>1, FreeTyped, OutsideMove DEF InPhase
  <2> QED BY <1>1, <2>2 DEF CallTimesOut, DropExchange
<1>3. CASE ~ InPhase(call[w], "answered")
  <2>1. conn' = [conn EXCEPT ![call[w]] = conn[call[w]]]
    BY <1>3 DEF CallTimesOut, Become
  <2>2. UNCHANGED conn
    BY <1>1, <2>1 DEF Typed, TypeOK
  <2> QED BY <2>2 DEF CallTimesOut, DropExchange
<1> QED BY <1>2, <1>3

\* A session is admitted, refused or answered.
LEMMA AdmitEffect ==
  ASSUME Typed, SessionInv, NEW c \in Conns, Admit(c)
  PROVE  /\ Outside(c) /\ InPhase(c, "sent") /\ UNCHANGED <<workerVars, scenario>>
         /\ conn'[c] = [conn[c] EXCEPT !.phase = "admitted"]
<1>1. conn[c] \in Sessions /\ InPhase(c, "sent")
  BY DEF Typed, TypeOK, Admit
<1> DEFINE s == [conn[c] EXCEPT !.phase = "admitted"]
<1>2. s \in Sessions /\ s.phase = "admitted" /\ s.batch = conn[c].batch /\ s.applied = conn[c].applied
  BY <1>1 DEF Sessions, Phases
<1>3. s.batch = NoBatch /\ s.applied = 0
  BY <1>1, <1>2, OutsideBatch DEF InPhase
<1>4. Become(c, s) /\ UNCHANGED <<roundVars, workerVars, scenario>>
  BY DEF Admit
<1> HIDE DEF s
<1>5. Outside(c) /\ conn'[c] = s
  BY <1>1, <1>2, <1>3, <1>4, OutsideMove DEF InPhase
<1> QED BY <1>1, <1>4, <1>5 DEF s

\* What is left of a session after an error.
LEMMA ClosedForm ==
  ASSUME Typed, NEW c \in Conns
  PROVE  /\ Closed(c) \in Sessions /\ Closed(c).phase \in {"closed", "free"}
         /\ Closed(c).batch = NoBatch /\ Closed(c).applied = 0
         /\ \/ Closed(c) = FreeSession /\ ~Waiting(c)
            \/ /\ Closed(c).worker = conn[c].worker /\ Closed(c).push = conn[c].push
               /\ Closed(c).phase = "closed"
<1>1. conn[c] \in Sessions
  BY DEF Typed, TypeOK
<1>2. CASE Waiting(c)
  BY <1>1, <1>2 DEF Closed, Sessions, Phases
<1>3. CASE ~Waiting(c)
  BY <1>3, FreeTyped DEF Closed
<1> QED BY <1>2, <1>3

LEMMA RefuseEffect ==
  ASSUME Typed, SessionInv, NEW c \in Conns, RefuseBusy(c)
  PROVE  /\ Outside(c) /\ InPhase(c, "sent") /\ UNCHANGED <<workerVars, scenario>>
         /\ conn'[c] = Closed(c)
<1>1. Become(c, Closed(c)) /\ InPhase(c, "sent") /\ UNCHANGED <<roundVars, workerVars, scenario>>
  BY DEF RefuseBusy
<1>2. PICK s \in Sessions : s = Closed(c)
  BY ClosedForm
<1>3. s.phase \in {"closed", "free"} /\ s.batch = NoBatch /\ s.applied = 0
  BY <1>2, ClosedForm
<1>4. Outside(c) /\ conn'[c] = s
  BY <1>1, <1>2, <1>3, OutsideMove DEF InPhase
<1> QED BY <1>1, <1>2, <1>4

LEMMA PullEffect ==
  ASSUME Typed, SessionInv, NEW c \in Conns, HandlePull(c)
  PROVE  /\ Outside(c) /\ InPhase(c, "admitted") /\ UNCHANGED <<workerVars, scenario>>
         /\ conn[c].push = 0
         /\ conn'[c] = [conn[c] EXCEPT !.phase = "published", !.revision = revision]
<1>1. conn[c] \in Sessions /\ InPhase(c, "admitted") /\ revision \in Nat
  BY DEF Typed, TypeOK, HandlePull, revision
<1> DEFINE s == [conn[c] EXCEPT !.phase = "published", !.revision = revision]
<1>2. s \in Sessions /\ s.phase = "published" /\ s.batch = conn[c].batch /\ s.applied = conn[c].applied
  BY <1>1 DEF Sessions, Phases
<1>3. s.batch = NoBatch /\ s.applied = 0
  BY <1>1, <1>2, OutsideBatch DEF InPhase
<1>4. Become(c, s) /\ UNCHANGED <<roundVars, workerVars, scenario>> /\ conn[c].push = 0
  BY DEF HandlePull
<1> HIDE DEF s
<1>5. Outside(c) /\ conn'[c] = s
  BY <1>1, <1>2, <1>3, <1>4, OutsideMove DEF InPhase
<1> QED BY <1>1, <1>4, <1>5 DEF s

LEMMA ReplyEffect ==
  ASSUME Typed, SessionInv, NEW c \in Conns, SendReply(c)
  PROVE  /\ Outside(c) /\ InPhase(c, "published") /\ UNCHANGED <<workerVars, scenario>>
         /\ \/ conn'[c] = FreeSession /\ ~Waiting(c)
            \/ conn'[c] = [conn[c] EXCEPT !.phase = "answered"]
<1>1. conn[c] \in Sessions /\ InPhase(c, "published") /\ UNCHANGED <<roundVars, workerVars, scenario>>
  BY DEF Typed, TypeOK, SendReply
<1>2. CASE ~Waiting(c)
  <2>1. Become(c, FreeSession)
    BY <1>2 DEF SendReply
  <2> QED BY <1>1, <1>2, <2>1, FreeTyped, OutsideMove DEF InPhase
<1>3. CASE Waiting(c)
  <2> DEFINE s == [conn[c] EXCEPT !.phase = "answered"]
  <2>1. s \in Sessions /\ s.phase = "answered" /\ s.batch = conn[c].batch /\ s.applied = conn[c].applied
    BY <1>1 DEF Sessions, Phases
  <2>2. s.batch = NoBatch /\ s.applied = 0
    BY <1>1, <2>1, OutsideBatch DEF InPhase
  <2>3. Become(c, s)
    BY <1>3 DEF SendReply
  <2> HIDE DEF s
  <2>4. Outside(c) /\ conn'[c] = s
    BY <1>1, <2>1, <2>2, <2>3, OutsideMove DEF InPhase
  <2> QED BY <1>1, <2>4 DEF s
<1> QED BY <1>2, <1>3

-----------------------------------------------------------------------------
(* What each action does to a batch and to its members. *)

\* Being notified aside, a session stays what it is.
Keeps(d) ==
  /\ conn'[d].phase = conn[d].phase /\ conn'[d].worker = conn[d].worker
  /\ conn'[d].push = conn[d].push /\ conn'[d].basis = conn[d].basis
  /\ conn'[d].batch = conn[d].batch /\ conn'[d].applied = conn[d].applied
  /\ conn'[d].revision = conn[d].revision

LEMMA NotifiedForm ==
  ASSUME NEW cn \in [Conns -> Sessions]
  PROVE  /\ Notified(cn) \in [Conns -> Sessions]
         /\ \A d \in Conns : Notified(cn)[d] = [cn[d] EXCEPT !.awake = TRUE]
<1>1. \A d \in Conns : [cn[d] EXCEPT !.awake = TRUE] \in Sessions
  BY DEF Sessions
<1> QED BY <1>1 DEF Notified

LEMMA AwakeKeeps ==
  ASSUME NEW s \in Sessions, NEW t, t \in {s, [s EXCEPT !.awake = TRUE]}
  PROVE  /\ t.phase = s.phase /\ t.worker = s.worker /\ t.push = s.push /\ t.basis = s.basis
         /\ t.batch = s.batch /\ t.applied = s.applied /\ t.revision = s.revision
  BY DEF Sessions

LEMMA EmptyTyped ==
  /\ EmptyBatch \in BatchObjects /\ EmptyBatch.grads = <<>> /\ DOMAIN EmptyBatch.grads = {}
  /\ Len(EmptyBatch.grads) = 0 /\ ~EmptyBatch.claimed /\ ~EmptyBatch.done
<1>1. <<>> \in Seq(Grads) /\ DOMAIN <<>> = {} /\ Len(<<>>) = 0
  OBVIOUS
<1> QED BY <1>1 DEF EmptyBatch, BatchObjects

LEMMA BatchMoves ==
  ASSUME NEW x \in BatchObjects, NEW g \in Grads, NEW n \in Nat, NEW e \in BOOLEAN, NEW q \in BOOLEAN
  PROVE  /\ [x EXCEPT !.grads = Append(x.grads, g)] \in BatchObjects
         /\ [x EXCEPT !.claimed = q] \in BatchObjects
         /\ [x EXCEPT !.expired = q] \in BatchObjects
         /\ [x EXCEPT !.revision = n] \in BatchObjects
         /\ [x EXCEPT !.done = TRUE, !.error = e] \in BatchObjects
         /\ x.grads \in Seq(Grads) /\ x.revision \in Nat /\ x.claimed \in BOOLEAN
<1> DEFINE S == Seq(Grads)
<1>1. BatchObjects = [grads: S, expired: BOOLEAN, claimed: BOOLEAN, done: BOOLEAN, error: BOOLEAN,
                      revision: Nat]
  BY DEF BatchObjects
<1>2. x.grads \in Seq(Grads)
  BY DEF BatchObjects
<1>3. Append(x.grads, g) \in S
  BY <1>2
<1> HIDE DEF S
<1>4. PICK a \in S : a = Append(x.grads, g)
  BY <1>3
<1>5. [x EXCEPT !.grads = a] \in BatchObjects
  BY <1>1
<1> QED BY <1>1, <1>2, <1>4, <1>5

\* A member leaves its batch: if it was the last, the batch is gone.
LEMMA CollectedForm ==
  ASSUME Typed, BatchInv, NEW c \in Conns, NEW b \in Batches, NEW bs \in [Batches -> BatchObjects],
         \A a \in Batches \ {b} : bs[a] = batch[a],
         conn[c].batch = b, conn'[c].batch = NoBatch,
         \A d \in Conns \ {c} : conn'[d].batch = conn[d].batch,
         batch' = Collected(bs, conn')
  PROVE  /\ batch' \in [Batches -> BatchObjects]
         /\ \A a \in Batches \ {b} : batch'[a] = batch[a]
         /\ batch'[b] \in {bs[b], EmptyBatch}
         /\ (\A d \in Conns : conn'[d].batch # b) => batch'[b] = EmptyBatch
         /\ batch'[b] = EmptyBatch \/ batch'[b] = bs[b]
         /\ (\E d \in Conns : conn'[d].batch = b) => batch'[b] = bs[b]
<1>1. batch' \in [Batches -> BatchObjects]
      /\ \A a \in Batches :
           batch'[a] = IF \E d \in Conns : conn'[d].batch = a THEN bs[a] ELSE EmptyBatch
  BY EmptyTyped DEF Collected
<1>2. ASSUME NEW a \in Batches \ {b} PROVE batch'[a] = batch[a]
  <2>1. CASE \E d \in Conns : conn'[d].batch = a
    BY <1>1, <2>1
  <2>2. CASE ~ \E d \in Conns : conn'[d].batch = a
    <3>1. \A d \in Conns : conn[d].batch # a
      BY <2>2, RoundAssumption
    <3> QED BY <1>1, <2>2, <3>1 DEF BatchInv, BatchGood
  <2> QED BY <2>1, <2>2
<1> QED BY <1>1, <1>2

\* There is a blank batch for a session to open: one of fewer others.
LEMMA SomeBlank ==
  ASSUME Typed, BatchInv, NEW c \in Conns, conn[c].batch = NoBatch
  PROVE  \E f \in Batches : \A d \in Conns : conn[d].batch # f
<1> SUFFICES ASSUME \A f \in Batches : \E d \in Conns : conn[d].batch = f
             PROVE  FALSE
  OBVIOUS
<1> DEFINE T == Conns \ {c}
           h == [f \in Batches |-> CHOOSE d \in T : conn[d].batch = f]
<1>1. \A f \in Batches : \E d \in T : conn[d].batch = f
  BY RoundAssumption
<1>2. \A f \in Batches : h[f] \in T /\ conn[h[f]].batch = f
  BY <1>1
<1>3. IsFiniteSet(T) /\ Cardinality(T) = Cardinality(Conns) - 1 /\ Cardinality(Conns) \in Nat
      /\ Cardinality(Batches) \in Nat
  BY RoundAssumption, FS_RemoveElement, FS_CardinalityType
<1>4. Cardinality(T) < Cardinality(Batches)
  BY <1>3, RoundAssumption
<1>5. h \in [Batches -> T]
  BY <1>2
<1> HIDE DEF h, T
<1>6. PICK x, y \in Batches : x # y /\ h[x] = h[y]
  BY <1>3, <1>4, <1>5, RoundAssumption, FS_PigeonHole
<1> QED BY <1>2, <1>6

LEMMA EnterEffect ==
  ASSUME Typed, SessionInv, BatchInv, NEW c \in Conns, EnterBatch(c)
  PROVE  /\ InPhase(c, "admitted") /\ conn[c].push # 0 /\ UNCHANGED <<steps, workerVars, scenario>>
         /\ conn' \in [Conns -> Sessions] /\ batch' \in [Batches -> BatchObjects]
         /\ \A d \in Conns \ {c} : Keeps(d)
         /\ conn'[c].worker = conn[c].worker /\ conn'[c].push = conn[c].push
         /\ conn'[c].basis = conn[c].basis /\ conn'[c].applied = conn[c].applied
         /\ \E b \in Batches :
              LET g == [worker |-> conn[c].worker, n |-> conn[c].push, basis |-> conn[c].basis] IN
              /\ ~batch[b].claimed /\ ~batch[b].done /\ \A d \in Conns : conn[d].batch = b => ~Processing(d)
              /\ conn'[c].batch = b
              /\ \A a \in Batches \ {b} : batch'[a] = batch[a]
              /\ g \in Grads /\ batch'[b].grads = Append(batch[b].grads, g)
              /\ ~batch'[b].done
              /\ conn'[c].phase = IF batch'[b].claimed THEN "applying" ELSE "waiting"
              /\ RoundSize > 0 => (batch'[b].claimed <=> Len(batch[b].grads) + 1 >= RoundSize)
              /\ current' = IF batch'[b].claimed THEN NoBatch ELSE b
<1> DEFINE g == [worker |-> conn[c].worker, n |-> conn[c].push, basis |-> conn[c].basis]
<1>1. /\ InPhase(c, "admitted") /\ conn[c].push # 0 /\ UNCHANGED <<steps, workerVars, scenario>>
      /\ conn[c] \in Sessions /\ conn \in [Conns -> Sessions] /\ batch \in [Batches -> BatchObjects]
      /\ conn[c].batch = NoBatch /\ g \in Grads
  <2>1. InPhase(c, "admitted") /\ conn[c].push # 0 /\ UNCHANGED <<steps, workerVars, scenario>>
    BY DEF EnterBatch
  <2>2. conn[c] \in Sessions /\ conn \in [Conns -> Sessions] /\ batch \in [Batches -> BatchObjects]
    BY DEF Typed, TypeOK
  <2>3. conn[c].batch = NoBatch
    BY <2>1, OutsideBatch DEF InPhase
  <2> QED BY <2>1, <2>2, <2>3 DEF Sessions, Grads
<1>2. PICK b \in Batches :
        LET x == [batch[b] EXCEPT !.grads = Append(@, g)] IN
        /\ IF current # NoBatch THEN b = current
           ELSE b = CHOOSE f \in Batches : \A d \in Conns : conn[d].batch # f
        /\ batch' = [batch EXCEPT ![b] = Elected(x)]
        /\ current' = IF Elected(x).claimed THEN Detached(b) ELSE b
        /\ conn' = [Woken(conn) EXCEPT ![c] = InLoop(c, b, x)]
  BY DEF EnterBatch
<1> DEFINE x == [batch[b] EXCEPT !.grads = Append(batch[b].grads, g)]
<1>3. ~batch[b].claimed /\ ~batch[b].done /\ \A d \in Conns : conn[d].batch = b => ~Processing(d)
  <2>1. ~batch[b].claimed
    <3>1. CASE current # NoBatch
      BY <1>2, <3>1 DEF BatchInv, OneProcessor
    <3>2. CASE current = NoBatch
      <4>1. \A d \in Conns : conn[d].batch # b
        BY <1>1, <1>2, <3>2, SomeBlank
      <4> QED BY <4>1, EmptyTyped DEF BatchInv, BatchGood
    <3> QED BY <3>1, <3>2
  <2> QED BY <2>1 DEF BatchInv, BatchGood, ProcessorOf
<1>4. /\ x \in BatchObjects /\ x.grads = Append(batch[b].grads, g) /\ x.claimed = batch[b].claimed
      /\ x.done = batch[b].done /\ batch[b].grads \in Seq(Grads)
  <2>1. batch[b] \in BatchObjects
    BY <1>1
  <2>2. x \in BatchObjects /\ batch[b].grads \in Seq(Grads)
    <3> HIDE DEF g
    <3> QED BY <1>1, <2>1, BatchMoves
  <2> HIDE DEF g
  <2>3. x.grads = Append(batch[b].grads, g) /\ x.claimed = batch[b].claimed /\ x.done = batch[b].done
    BY <2>1 DEF BatchObjects
  <2> QED BY <2>2, <2>3
<1>5. /\ batch' = [batch EXCEPT ![b] = Elected(x)]
      /\ current' = IF Elected(x).claimed THEN Detached(b) ELSE b
      /\ conn' = [Woken(conn) EXCEPT ![c] = InLoop(c, b, x)]
  BY <1>2
<1> HIDE DEF x, g
<1>6. /\ Elected(x) \in BatchObjects /\ Elected(x).grads = x.grads /\ Elected(x).done = x.done
      /\ Elected(x).claimed = Complete(x)
  <2>1. Complete(x) \in BOOLEAN
    <3>1. x.expired \in BOOLEAN
      BY <1>4 DEF BatchObjects
    <3>2. (Len(x.grads) >= RoundSize) \in BOOLEAN
      OBVIOUS
    <3>3. CASE RoundSize > 0
      BY <3>2, <3>3 DEF Complete
    <3>4. CASE ~ (RoundSize > 0)
      BY <3>1, <3>4 DEF Complete
    <3> QED BY <3>3, <3>4
  <2>2. Elected(x) = [x EXCEPT !.claimed = x.claimed \/ Complete(x)]
    BY DEF Elected
  <2>3. PICK q \in BOOLEAN : q = Complete(x)
    BY <2>1
  <2>4. (x.claimed \/ Complete(x)) = q
    BY <1>3, <1>4, <2>3
  <2>5. Elected(x) = [x EXCEPT !.claimed = q]
    BY <2>2, <2>4
  <2>6. Elected(x) \in BatchObjects
    BY <1>1, <1>4, <2>5, BatchMoves
  <2>7. [x EXCEPT !.claimed = q].grads = x.grads /\ [x EXCEPT !.claimed = q].done = x.done
        /\ [x EXCEPT !.claimed = q].claimed = q
    BY <1>4 DEF BatchObjects
  <2> QED BY <2>3, <2>5, <2>6, <2>7
<1>7. /\ InLoop(c, b, x) \in Sessions
      /\ InLoop(c, b, x).phase = IF Complete(x) THEN "applying" ELSE "waiting"
      /\ InLoop(c, b, x).batch = b /\ InLoop(c, b, x).worker = conn[c].worker
      /\ InLoop(c, b, x).push = conn[c].push /\ InLoop(c, b, x).basis = conn[c].basis
      /\ InLoop(c, b, x).applied = conn[c].applied
  <2>1. CASE Complete(x)
    <3>1. InLoop(c, b, x) = [conn[c] EXCEPT !.phase = "applying", !.batch = b]
      BY <1>3, <1>4, <2>1 DEF InLoop
    <3> QED BY <1>1, <2>1, <3>1 DEF Sessions, Phases
  <2>2. CASE ~Complete(x)
    <3>1. InLoop(c, b, x) = [conn[c] EXCEPT !.phase = "waiting", !.batch = b, !.awake = FALSE]
      BY <2>2 DEF InLoop
    <3> QED BY <1>1, <2>2, <3>1 DEF Sessions, Phases
  <2> QED BY <2>1, <2>2
<1>8. Woken(conn) \in [Conns -> Sessions]
      /\ \A d \in Conns : Woken(conn)[d] \in {conn[d], [conn[d] EXCEPT !.awake = TRUE]}
  BY <1>1, NotifiedForm DEF Woken
<1>9. /\ conn' \in [Conns -> Sessions] /\ conn'[c] = InLoop(c, b, x)
      /\ \A d \in Conns \ {c} : conn'[d] \in {conn[d], [conn[d] EXCEPT !.awake = TRUE]}
  BY <1>5, <1>7, <1>8
<1>10. \A d \in Conns \ {c} : Keeps(d)
  <2> SUFFICES ASSUME NEW d \in Conns \ {c} PROVE Keeps(d)
    OBVIOUS
  <2>1. conn[d] \in Sessions /\ conn'[d] \in {conn[d], [conn[d] EXCEPT !.awake = TRUE]}
    BY <1>1, <1>9
  <2> QED BY <2>1, AwakeKeeps DEF Keeps
<1>11. /\ batch' \in [Batches -> BatchObjects] /\ batch'[b] = Elected(x)
       /\ \A a \in Batches \ {b} : batch'[a] = batch[a]
  BY <1>1, <1>5, <1>6
<1>12. RoundSize > 0 => (Complete(x) <=> Len(batch[b].grads) + 1 >= RoundSize)
  BY <1>1, <1>4 DEF Complete
<1>13. current' = IF batch'[b].claimed THEN NoBatch ELSE b
  BY <1>5, <1>11 DEF Detached
<1> QED
  BY <1>1, <1>3, <1>4, <1>6, <1>7, <1>9, <1>10, <1>11, <1>12, <1>13 DEF g

LEMMA MemberBatch ==
  ASSUME Typed, SessionInv, NEW c \in Conns, conn[c].phase \in {"waiting", "applying", "snapped"}
  PROVE  /\ conn[c].batch \in Batches /\ batch[conn[c].batch] \in BatchObjects
         /\ conn[c] \in Sessions /\ conn \in [Conns -> Sessions]
         /\ batch \in [Batches -> BatchObjects] /\ NoBatch \notin Batches
         /\ batch[conn[c].batch].grads \in Seq(Grads)
<1>1. conn[c].batch # NoBatch /\ conn[c].batch \in Batches \cup {NoBatch}
  BY DEF SessionInv, Typed, TypeOK, Sessions
<1> QED BY <1>1, RoundAssumption DEF Typed, TypeOK, BatchObjects

\* A woken thread whose batch is not done claims it or goes on waiting.
LEMMA LookEffect ==
  ASSUME Typed, SessionInv, NEW c \in Conns, Wake(c), ~batch[conn[c].batch].done
  PROVE  LET b == conn[c].batch IN
         /\ InPhase(c, "waiting") /\ UNCHANGED <<steps, workerVars, scenario>> /\ b \in Batches
         /\ conn' \in [Conns -> Sessions] /\ batch' \in [Batches -> BatchObjects]
         /\ \A d \in Conns \ {c} : Keeps(d)
         /\ conn'[c].worker = conn[c].worker /\ conn'[c].push = conn[c].push
         /\ conn'[c].basis = conn[c].basis /\ conn'[c].applied = conn[c].applied
         /\ conn'[c].revision = conn[c].revision /\ conn'[c].batch = b
         /\ \A a \in Batches \ {b} : batch'[a] = batch[a]
         /\ batch'[b].grads = batch[b].grads /\ ~batch'[b].done
         /\ batch'[b].error = batch[b].error /\ batch'[b].revision = batch[b].revision
         /\ \/ /\ conn'[c].phase = "waiting"
               /\ batch'[b].claimed = batch[b].claimed /\ current' = current
            \/ /\ conn'[c].phase = "applying" /\ ~batch[b].claimed /\ batch'[b].claimed
               /\ RoundSize > 0 => Len(batch[b].grads) >= RoundSize
               /\ current' = NoBatch
<1> DEFINE b == conn[c].batch
           x == batch[b]
<1>1. InPhase(c, "waiting") /\ UNCHANGED <<steps, workerVars, scenario>>
  BY DEF Wake
<1>2. /\ b \in Batches /\ x \in BatchObjects /\ conn[c] \in Sessions /\ conn \in [Conns -> Sessions]
      /\ batch \in [Batches -> BatchObjects]
  BY <1>1, MemberBatch DEF InPhase
<1>3. /\ Become(c, InLoop(c, b, x)) /\ batch' = [batch EXCEPT ![b] = Elected(x)]
      /\ current' = IF Elected(x).claimed /\ ~x.claimed THEN Detached(b) ELSE current
  BY DEF Wake, Done
<1>4. ~x.done
  OBVIOUS
<1> HIDE DEF x
<1>5. CASE ~x.claimed /\ Complete(x)
  <2>1. Elected(x) = [x EXCEPT !.claimed = TRUE]
    BY <1>5 DEF Elected
  <2>2. /\ Elected(x) \in BatchObjects /\ Elected(x).grads = x.grads /\ Elected(x).done = x.done
        /\ Elected(x).error = x.error /\ Elected(x).revision = x.revision /\ Elected(x).claimed
    BY <1>2, <2>1 DEF BatchObjects
  <2> DEFINE s == [conn[c] EXCEPT !.phase = "applying", !.batch = b]
  <2>3. /\ s \in Sessions /\ s.phase = "applying" /\ s.batch = b /\ s.worker = conn[c].worker
        /\ s.push = conn[c].push /\ s.basis = conn[c].basis /\ s.applied = conn[c].applied
        /\ s.revision = conn[c].revision
    <3> HIDE DEF b
    <3> QED BY <1>2 DEF Sessions, Phases
  <2>4. Become(c, s)
    BY <1>3, <1>5 DEF InLoop
  <2> HIDE DEF s
  <2>5. /\ conn' \in [Conns -> Sessions] /\ conn'[c] = s
        /\ \A d \in Conns \ {c} : conn'[d] = conn[d]
    BY <1>2, <2>3, <2>4, BecomeEffect
  <2>6. /\ batch' \in [Batches -> BatchObjects] /\ batch'[b] = Elected(x)
        /\ \A a \in Batches \ {b} : batch'[a] = batch[a]
    BY <1>2, <1>3, <2>2
  <2>7. current' = NoBatch
    BY <1>3, <1>5, <2>2 DEF Detached
  <2>8. RoundSize > 0 => Len(x.grads) >= RoundSize
    BY <1>5 DEF Complete
  <2>9. \A d \in Conns \ {c} : Keeps(d)
    BY <2>5 DEF Keeps
  <2>10. batch'[b].grads = x.grads /\ ~batch'[b].done /\ batch'[b].claimed
         /\ batch'[b].error = x.error /\ batch'[b].revision = x.revision
    BY <1>4, <2>2, <2>6
  <2> QED BY <1>1, <1>2, <1>5, <2>3, <2>5, <2>6, <2>7, <2>8, <2>9, <2>10 DEF x
<1>6. CASE ~ (~x.claimed /\ Complete(x))
  <2>1. Elected(x) = [x EXCEPT !.claimed = x.claimed \/ Complete(x)]
    BY DEF Elected
  <2>2. PICK q \in BOOLEAN : q = x.claimed
    BY <1>2 DEF BatchObjects
  <2>3. (x.claimed \/ Complete(x)) = q
    BY <1>6, <2>2
  <2>4. Elected(x) = [x EXCEPT !.claimed = q]
    BY <2>1, <2>3
  <2>5. Elected(x) = x
    BY <1>2, <2>2, <2>4 DEF BatchObjects
  <2> DEFINE s == [conn[c] EXCEPT !.phase = "waiting", !.batch = b, !.awake = FALSE]
  <2>6. /\ s \in Sessions /\ s.phase = "waiting" /\ s.batch = b /\ s.worker = conn[c].worker
        /\ s.push = conn[c].push /\ s.basis = conn[c].basis /\ s.applied = conn[c].applied
        /\ s.revision = conn[c].revision
    <3> HIDE DEF b
    <3> QED BY <1>2 DEF Sessions, Phases
  <2>7. Become(c, s)
    BY <1>3, <1>6 DEF InLoop
  <2> HIDE DEF s
  <2>8. /\ conn' \in [Conns -> Sessions] /\ conn'[c] = s
        /\ \A d \in Conns \ {c} : conn'[d] = conn[d]
    BY <1>2, <2>6, <2>7, BecomeEffect
  <2>9. batch' \in [Batches -> BatchObjects] /\ batch'[b] = x
        /\ \A a \in Batches \ {b} : batch'[a] = batch[a]
    BY <1>2, <1>3, <2>5
  <2>10. current' = current
    BY <1>3, <2>5
  <2>11. \A d \in Conns \ {c} : Keeps(d)
    BY <2>8 DEF Keeps
  <2> QED BY <1>1, <1>2, <1>4, <2>6, <2>8, <2>9, <2>10, <2>11 DEF x
<1> QED BY <1>5, <1>6

\* A member learns the outcome of its batch and leaves it.
LEMMA LeaveEffect ==
  ASSUME Typed, SessionInv, BatchInv, NEW c \in Conns, Wake(c), batch[conn[c].batch].done
  PROVE  LET b == conn[c].batch IN
         /\ InPhase(c, "waiting") /\ UNCHANGED <<steps, current, workerVars, scenario>>
         /\ b \in Batches
         /\ conn' \in [Conns -> Sessions] /\ batch' \in [Batches -> BatchObjects]
         /\ \A d \in Conns \ {c} : Keeps(d)
         /\ conn'[c].batch = NoBatch /\ conn'[c].applied = 0
         /\ \/ batch[b].error /\ conn'[c] = Closed(c)
            \/ /\ ~batch[b].error /\ conn'[c].phase = "published"
               /\ conn'[c].worker = conn[c].worker /\ conn'[c].push = conn[c].push
               /\ conn'[c].revision = batch[b].revision
         /\ \A a \in Batches \ {b} : batch'[a] = batch[a]
         /\ batch'[b] \in {batch[b], EmptyBatch}
         /\ (\A d \in Conns : conn'[d].batch # b) => batch'[b] = EmptyBatch
         /\ (\E d \in Conns : conn'[d].batch = b) => batch'[b] = batch[b]
<1> DEFINE b == conn[c].batch
           x == batch[b]
<1>1. InPhase(c, "waiting") /\ UNCHANGED <<steps, workerVars, scenario>>
  BY DEF Wake
<1>2. /\ b \in Batches /\ x \in BatchObjects /\ conn[c] \in Sessions /\ conn \in [Conns -> Sessions]
      /\ batch \in [Batches -> BatchObjects] /\ conn[c].applied = 0 /\ NoBatch \notin Batches
  BY <1>1, MemberBatch DEF InPhase, SessionInv, Processing
<1> DEFINE out == IF x.error THEN Closed(c)
                  ELSE [conn[c] EXCEPT !.phase = "published", !.revision = x.revision, !.batch = NoBatch]
<1>3. /\ Become(c, out) /\ batch' = Collected(batch, [conn EXCEPT ![c] = out]) /\ UNCHANGED current
  BY DEF Wake, Done
<1>4. /\ out \in Sessions /\ out.batch = NoBatch /\ out.applied = 0
      /\ \/ x.error /\ out = Closed(c)
         \/ /\ ~x.error /\ out.phase = "published" /\ out.worker = conn[c].worker
            /\ out.push = conn[c].push /\ out.revision = x.revision
  <2>1. CASE x.error
    <3>1. out = Closed(c)
      BY <2>1
    <3> QED BY <2>1, <3>1, ClosedForm
  <2>2. CASE ~x.error
    <3>1. out = [conn[c] EXCEPT !.phase = "published", !.revision = x.revision, !.batch = NoBatch]
      BY <2>2
    <3>2. x.revision \in Nat
      BY <1>2 DEF BatchObjects
    <3> HIDE DEF out, x
    <3> QED BY <1>2, <2>2, <3>1, <3>2 DEF Sessions, Phases
  <2> QED BY <2>1, <2>2
<1> HIDE DEF out
<1>5. /\ conn' \in [Conns -> Sessions] /\ conn'[c] = out /\ conn' = [conn EXCEPT ![c] = out]
      /\ \A d \in Conns \ {c} : conn'[d] = conn[d]
  BY <1>2, <1>3, <1>4, BecomeEffect DEF Become
<1>6. batch' = Collected(batch, conn')
  BY <1>3, <1>5
<1>7. /\ batch' \in [Batches -> BatchObjects]
      /\ \A a \in Batches \ {b} : batch'[a] = batch[a]
      /\ batch'[b] \in {batch[b], EmptyBatch}
      /\ (\A d \in Conns : conn'[d].batch # b) => batch'[b] = EmptyBatch
      /\ (\E d \in Conns : conn'[d].batch = b) => batch'[b] = batch[b]
  <2>1. conn'[c].batch = NoBatch /\ \A d \in Conns \ {c} : conn'[d].batch = conn[d].batch
    BY <1>4, <1>5
  <2> QED BY <1>2, <1>6, <2>1, CollectedForm
<1>8. \A d \in Conns \ {c} : Keeps(d)
  BY <1>5 DEF Keeps
<1> QED BY <1>1, <1>2, <1>3, <1>4, <1>5, <1>7, <1>8

\* The next outer step: the whole round, or one arrival.
LEMMA ApplyEffect ==
  ASSUME Typed, SessionInv, BatchInv, NEW c \in Conns, ApplyNext(c)
  PROVE  LET b == conn[c].batch
             n == conn[c].applied
             sums == batch[b].grads
         IN
         /\ InPhase(c, "applying") /\ UNCHANGED <<current, batch, workerVars, scenario>>
         /\ b \in Batches /\ sums \in Seq(Grads) /\ n \in Nat /\ n < Len(sums)
         /\ ProcessorOf(c, b)
         /\ conn' \in [Conns -> Sessions] /\ \A d \in Conns \ {c} : Keeps(d)
         /\ conn'[c].phase = "applying" /\ conn'[c].worker = conn[c].worker
         /\ conn'[c].push = conn[c].push /\ conn'[c].basis = conn[c].basis
         /\ conn'[c].batch = b /\ conn'[c].revision = conn[c].revision
         /\ RoundSize > 0 => n = 0 /\ conn'[c].applied = Len(sums) /\ steps' = Append(steps, sums)
         /\ ~(RoundSize > 0) => conn'[c].applied = n + 1 /\ steps' = Append(steps, <<sums[n + 1]>>)
<1> DEFINE b == conn[c].batch
           n == conn[c].applied
           sums == batch[b].grads
<1>1. /\ InPhase(c, "applying") /\ UNCHANGED <<current, batch, workerVars, scenario>> /\ n < Len(sums)
      /\ steps' = Append(steps, NextStep(sums, n))
      /\ Become(c, [conn[c] EXCEPT !.applied = AppliedBy(sums, n)])
  BY DEF ApplyNext
<1>2. /\ b \in Batches /\ conn[c] \in Sessions /\ conn \in [Conns -> Sessions]
      /\ sums \in Seq(Grads) /\ n \in Nat
  BY <1>1, MemberBatch DEF InPhase, Sessions
<1>3. ProcessorOf(c, b)
  BY <1>1, <1>2 DEF BatchInv, BatchGood, Processing, InPhase
<1>4. RoundSize > 0 => n = 0
  BY <1>1, <1>2, <1>3 DEF ProcessorOf
<1>5. AppliedBy(sums, n) \in Nat
  BY <1>2 DEF AppliedBy
<1> DEFINE s == [conn[c] EXCEPT !.applied = AppliedBy(sums, n)]
<1>6. /\ s \in Sessions /\ s.phase = conn[c].phase /\ s.worker = conn[c].worker /\ s.push = conn[c].push
      /\ s.basis = conn[c].basis /\ s.batch = b /\ s.revision = conn[c].revision
      /\ s.applied = AppliedBy(sums, n)
  <2> HIDE DEF sums, n
  <2> QED BY <1>2, <1>5 DEF Sessions
<1>7. Become(c, s)
  BY <1>1
<1> HIDE DEF s
<1>8. /\ conn' \in [Conns -> Sessions] /\ conn'[c] = s
      /\ \A d \in Conns \ {c} : conn'[d] = conn[d]
  BY <1>2, <1>6, <1>7, BecomeEffect
<1>9. \A d \in Conns \ {c} : Keeps(d)
  BY <1>8 DEF Keeps
<1> QED BY <1>1, <1>2, <1>3, <1>4, <1>6, <1>8, <1>9 DEF NextStep, AppliedBy, InPhase

LEMMA SnapshotEffect ==
  ASSUME Typed, SessionInv, BatchInv, NEW c \in Conns, TakeSnapshot(c)
  PROVE  LET b == conn[c].batch IN
         /\ InPhase(c, "applying") /\ UNCHANGED <<steps, current, workerVars, scenario>>
         /\ b \in Batches /\ conn[c].applied = Len(batch[b].grads)
         /\ ProcessorOf(c, b)
         /\ conn' \in [Conns -> Sessions] /\ batch' \in [Batches -> BatchObjects]
         /\ \A d \in Conns \ {c} : Keeps(d)
         /\ conn'[c].phase = "snapped" /\ conn'[c].worker = conn[c].worker
         /\ conn'[c].push = conn[c].push /\ conn'[c].basis = conn[c].basis
         /\ conn'[c].batch = b /\ conn'[c].applied = conn[c].applied /\ conn'[c].revision = revision
         /\ \A a \in Batches \ {b} : batch'[a] = batch[a]
         /\ batch'[b].grads = batch[b].grads /\ batch'[b].claimed = batch[b].claimed
         /\ batch'[b].done = batch[b].done /\ batch'[b].error = batch[b].error
         /\ batch'[b].revision = revision
<1> DEFINE b == conn[c].batch
<1>1. /\ InPhase(c, "applying") /\ UNCHANGED <<steps, current, workerVars, scenario>>
      /\ conn[c].applied = Len(batch[b].grads)
      /\ batch' = [batch EXCEPT ![b].revision = revision]
      /\ Become(c, [conn[c] EXCEPT !.phase = "snapped", !.revision = revision])
  BY DEF TakeSnapshot
<1>2. /\ b \in Batches /\ conn[c] \in Sessions /\ conn \in [Conns -> Sessions]
      /\ batch \in [Batches -> BatchObjects] /\ batch[b] \in BatchObjects
  BY <1>1, MemberBatch DEF InPhase
<1>3. ProcessorOf(c, b)
  BY <1>1, <1>2 DEF BatchInv, BatchGood, Processing, InPhase
<1>4. PICK r \in Nat : r = revision
  BY DEF Typed, TypeOK, revision
<1> DEFINE x == [batch[b] EXCEPT !.revision = r]
<1>5. /\ x \in BatchObjects /\ x.grads = batch[b].grads /\ x.claimed = batch[b].claimed
      /\ x.done = batch[b].done /\ x.error = batch[b].error /\ x.revision = r
  BY <1>2 DEF BatchObjects
<1>6. batch' = [batch EXCEPT ![b] = x]
  BY <1>1, <1>4
<1> HIDE DEF x
<1>7. /\ batch' \in [Batches -> BatchObjects] /\ batch'[b] = x
      /\ \A a \in Batches \ {b} : batch'[a] = batch[a]
  BY <1>2, <1>5, <1>6
<1> DEFINE s == [conn[c] EXCEPT !.phase = "snapped", !.revision = r]
<1>8. /\ s \in Sessions /\ s.phase = "snapped" /\ s.worker = conn[c].worker /\ s.push = conn[c].push
      /\ s.basis = conn[c].basis /\ s.batch = b /\ s.revision = r /\ s.applied = conn[c].applied
  BY <1>2 DEF Sessions, Phases
<1>9. Become(c, s)
  BY <1>1, <1>4
<1> HIDE DEF s
<1>10. /\ conn' \in [Conns -> Sessions] /\ conn'[c] = s
       /\ \A d \in Conns \ {c} : conn'[d] = conn[d]
  BY <1>2, <1>8, <1>9, BecomeEffect
<1>11. \A d \in Conns \ {c} : Keeps(d)
  BY <1>10 DEF Keeps
<1> QED BY <1>1, <1>2, <1>3, <1>4, <1>5, <1>7, <1>8, <1>10, <1>11

\* The processor publishes the outcome and leaves.
LEMMA PublishEffect ==
  ASSUME Typed, SessionInv, BatchInv, NEW c \in Conns, NEW s \in Sessions, NEW error \in BOOLEAN,
         s.batch = NoBatch, conn[c].phase \in {"applying", "snapped"}, PublishAs(c, s, error)
  PROVE  LET b == conn[c].batch IN
         /\ UNCHANGED <<steps, current, workerVars>> /\ b \in Batches /\ ProcessorOf(c, b)
         /\ conn' \in [Conns -> Sessions] /\ batch' \in [Batches -> BatchObjects]
         /\ \A d \in Conns \ {c} : Keeps(d)
         /\ conn'[c].phase = s.phase /\ conn'[c].worker = s.worker /\ conn'[c].push = s.push
         /\ conn'[c].batch = NoBatch /\ conn'[c].applied = s.applied /\ conn'[c].revision = s.revision
         /\ \A a \in Batches \ {b} : batch'[a] = batch[a]
         /\ \/ /\ batch'[b] = EmptyBatch /\ \A d \in Conns : conn'[d].batch # b
            \/ /\ batch'[b].grads = batch[b].grads /\ batch'[b].claimed = batch[b].claimed
               /\ batch'[b].done /\ batch'[b].error = error /\ batch'[b].revision = batch[b].revision
               /\ \E d \in Conns : conn'[d].batch = b
<1> DEFINE b == conn[c].batch
           cn == [conn EXCEPT ![c] = s]
           x == [batch[b] EXCEPT !.done = TRUE, !.error = error]
           bs == [batch EXCEPT ![b] = x]
<1>1. /\ b \in Batches /\ conn[c] \in Sessions /\ conn \in [Conns -> Sessions]
      /\ batch \in [Batches -> BatchObjects] /\ batch[b] \in BatchObjects
  BY MemberBatch
<1>2. ProcessorOf(c, b)
  BY <1>1 DEF BatchInv, BatchGood, Processing
<1>3. conn' = Notified(cn) /\ UNCHANGED <<steps, current, workerVars>>
  BY DEF PublishAs, NotifyWaiters
<1>4. batch' = Collected(bs, conn')
  BY <1>3 DEF PublishAs, NotifyWaiters, Published
<1>5. cn \in [Conns -> Sessions] /\ cn[c] = s /\ \A d \in Conns \ {c} : cn[d] = conn[d]
  BY <1>1
<1> HIDE DEF cn
<1>6. /\ conn' \in [Conns -> Sessions]
      /\ \A d \in Conns : conn'[d] = [cn[d] EXCEPT !.awake = TRUE]
  BY <1>3, <1>5, NotifiedForm
<1>7. \A d \in Conns \ {c} : Keeps(d)
  <2> SUFFICES ASSUME NEW d \in Conns \ {c} PROVE Keeps(d)
    OBVIOUS
  <2>1. conn[d] \in Sessions /\ conn'[d] = [conn[d] EXCEPT !.awake = TRUE]
    BY <1>1, <1>5, <1>6
  <2> QED BY <2>1, AwakeKeeps DEF Keeps
<1>8. /\ conn'[c].phase = s.phase /\ conn'[c].worker = s.worker /\ conn'[c].push = s.push
      /\ conn'[c].batch = NoBatch /\ conn'[c].applied = s.applied /\ conn'[c].revision = s.revision
  BY <1>5, <1>6, AwakeKeeps
<1>9. /\ x \in BatchObjects /\ x.grads = batch[b].grads /\ x.claimed = batch[b].claimed
      /\ x.done /\ x.error = error /\ x.revision = batch[b].revision
  BY <1>1 DEF BatchObjects
<1> HIDE DEF x
<1>10. bs \in [Batches -> BatchObjects] /\ bs[b] = x /\ \A a \in Batches \ {b} : bs[a] = batch[a]
  BY <1>1, <1>9
<1> HIDE DEF bs
<1>11. \A d \in Conns \ {c} : conn'[d].batch = conn[d].batch
  BY <1>7 DEF Keeps
<1>12. /\ batch' \in [Batches -> BatchObjects]
       /\ \A a \in Batches \ {b} : batch'[a] = batch[a]
       /\ (\A d \in Conns : conn'[d].batch # b) => batch'[b] = EmptyBatch
       /\ (\E d \in Conns : conn'[d].batch = b) => batch'[b] = bs[b]
  BY <1>1, <1>4, <1>8, <1>10, <1>11, CollectedForm
<1> QED BY <1>1, <1>2, <1>3, <1>6, <1>7, <1>8, <1>9, <1>10, <1>12

LEMMA ExpireEffect ==
  ASSUME Typed, NEW b \in Batches, Expire(b)
  PROVE  /\ UNCHANGED <<steps, current, workerVars, scenario>>
         /\ conn' \in [Conns -> Sessions] /\ batch' \in [Batches -> BatchObjects]
         /\ \A d \in Conns : Keeps(d)
         /\ batch[b].grads # <<>>
         /\ \A a \in Batches \ {b} : batch'[a] = batch[a]
         /\ batch'[b].grads = batch[b].grads /\ batch'[b].claimed = batch[b].claimed
         /\ batch'[b].done = batch[b].done /\ batch'[b].error = batch[b].error
         /\ batch'[b].revision = batch[b].revision
<1>1. /\ conn \in [Conns -> Sessions] /\ batch \in [Batches -> BatchObjects]
      /\ batch[b] \in BatchObjects
  BY DEF Typed, TypeOK
<1>2. /\ UNCHANGED <<steps, current, workerVars, scenario>> /\ batch[b].grads # <<>>
      /\ batch' = [batch EXCEPT ![b].expired = TRUE]
      /\ conn' = [c \in Conns |-> IF conn[c].batch = b THEN [conn[c] EXCEPT !.awake = TRUE] ELSE conn[c]]
  BY DEF Expire
<1> DEFINE x == [batch[b] EXCEPT !.expired = TRUE]
<1>3. /\ x \in BatchObjects /\ x.grads = batch[b].grads /\ x.claimed = batch[b].claimed
      /\ x.done = batch[b].done /\ x.error = batch[b].error /\ x.revision = batch[b].revision
  BY <1>1 DEF BatchObjects
<1>4. batch' = [batch EXCEPT ![b] = x]
  BY <1>2
<1> HIDE DEF x
<1>5. /\ batch' \in [Batches -> BatchObjects] /\ batch'[b] = x
      /\ \A a \in Batches \ {b} : batch'[a] = batch[a]
  BY <1>1, <1>3, <1>4
<1>6. \A d \in Conns : conn[d] \in Sessions /\ conn'[d] \in {conn[d], [conn[d] EXCEPT !.awake = TRUE]}
  BY <1>1, <1>2
<1>7. \A d \in Conns : Keeps(d)
  BY <1>6, AwakeKeeps DEF Keeps
<1>8. conn' \in [Conns -> Sessions]
  <2>1. \A d \in Conns : [conn[d] EXCEPT !.awake = TRUE] \in Sessions
    BY <1>6, ZenonT(60) DEF Sessions
  <2> QED BY <1>2, <1>6, <2>1
<1> QED BY <1>2, <1>3, <1>5, <1>7, <1>8

-----------------------------------------------------------------------------
(* The kinds of steps. *)

\* A session moves outside any batch, and stays true to what was applied.
Elsewhere(c) ==
  /\ Outside(c)
  /\ conn'[c].push <= windows'[conn'[c].worker]
  /\ conn'[c].phase \in {"published", "answered"} =>
       /\ conn'[c].revision <= revision
       /\ conn'[c].push # 0 => Stepped(<<conn'[c].worker, conn'[c].push>>, conn'[c].revision)
  /\ conn'[c].phase \in {"sent", "admitted"} /\ conn'[c].push # 0 =>
       \/ Arriving(c) /\ conn'[c].worker = conn[c].worker /\ conn'[c].push = conn[c].push
       \/ conn'[c].push > windows[conn'[c].worker]

\* The processor on c leaves: its batch succeeded, or failed.
PublishStep(c) ==
  \E s \in Sessions, error \in BOOLEAN :
    /\ s.batch = NoBatch /\ s.applied = 0 /\ PublishAs(c, s, error) /\ Processing(c)
    /\ s.phase \in {"published", "closed", "free"}
    /\ s.push <= windows[s.worker]
    /\ s.phase = "free" => ~Waiting(c)
    /\ s.phase # "free" => s.worker = conn[c].worker /\ s.push = conn[c].push
    /\ ~error => InPhase(c, "snapped")
    /\ s.phase = "published" =>
         InPhase(c, "snapped") /\ ~error /\ s.revision = conn[c].revision

\* ShownInv says it of every member.
LEMMA ReplyForm == ReplyShowsPush <=> \A c \in Conns : ReplyShown(c)
<1>1. ASSUME NEW c \in Conns
      PROVE  InSteps(c, conn[c].revision) <=> Stepped(PushKey(c), conn[c].revision)
  BY DEF InSteps, Stepped, PushKey, Key, Within
<1> QED BY <1>1 DEF ReplyShowsPush, ReplyShown

LEMMA FreePush ==
  ASSUME Typed PROVE FreeSession.push <= windows[FreeSession.worker]
<1>1. FreeSession.worker \in Workers
  BY FreeTyped DEF Sessions
<1> QED BY <1>1, FreeTyped DEF Typed, TypeOK

\* A closed or freed session is no claim about a push.
LEMMA ClosedPush ==
  ASSUME Typed, SessionInv, NEW c \in Conns
  PROVE  Closed(c).push <= windows[Closed(c).worker]
<1>1. conn[c].push <= windows[conn[c].worker]
  BY DEF SessionInv
<1> QED BY <1>1, ClosedForm, FreePush

LEMMA ElsewhereSteps ==
  ASSUME Typed, SessionInv, ReplyShowsPush, NEW w \in Workers, NEW c \in Conns,
         \/ StartCall(w, c) \/ Adopt(w) \/ CallFails(w)
         \/ Admit(c) \/ RefuseBusy(c) \/ HandlePull(c) \/ SendReply(c)
  PROVE  /\ \E d \in Conns : Elsewhere(d)
         /\ \A u \in Workers : windows'[u] \in 0..scenario.windows[u] /\ windows'[u] >= windows[u]
         /\ DOMAIN windows' = Workers /\ UNCHANGED <<roundVars, scenario>>
         /\ baseline' \in [Workers -> Int] /\ resync' \in [Workers -> BOOLEAN]
         /\ call' \in [Workers -> Conns \cup {NoConn}]
<1>t. /\ DOMAIN windows = Workers /\ \A u \in Workers : windows[u] \in 0..scenario.windows[u]
      /\ scenario.windows \in [Workers -> Nat]
      /\ baseline \in [Workers -> Int] /\ resync \in [Workers -> BOOLEAN]
      /\ call \in [Workers -> Conns \cup {NoConn}]
      /\ conn \in [Conns -> Sessions]
  BY DEF Typed, TypeOK, ScenarioInv
<1>p. \A d \in Conns : conn[d].push <= windows[conn[d].worker]
  BY DEF SessionInv
<1>1. CASE StartCall(w, c)
  <2>1. /\ Outside(c) /\ call' = [call EXCEPT ![w] = c] /\ UNCHANGED <<baseline, resync, scenario>>
        /\ conn'[c].phase = "sent" /\ conn'[c].worker = w /\ conn'[c].push \in Nat
        /\ DOMAIN windows' = Workers
        /\ \A u \in Workers : windows'[u] \in 0..scenario.windows[u] /\ windows'[u] >= windows[u]
        /\ conn'[c].push # 0 => conn'[c].push = windows[w] + 1 /\ conn'[c].push <= windows'[w]
    BY <1>1, StartEffect
  <2>2. conn'[c].push <= windows'[w]
    BY <1>t, <2>1
  <2>3. conn'[c].push # 0 => conn'[c].push > windows[w]
    BY <1>t, <2>1
  <2>4. Elsewhere(c)
    BY <2>1, <2>2, <2>3 DEF Elsewhere
  <2> QED BY <1>t, <2>1, <2>4 DEF Outside
<1>2. CASE Adopt(w)
  <2>1. /\ call[w] \in Conns /\ Outside(call[w]) /\ conn'[call[w]] = FreeSession
        /\ baseline' \in [Workers -> Int] /\ UNCHANGED <<windows, scenario>>
        /\ resync' = [resync EXCEPT ![w] = FALSE] /\ call' = [call EXCEPT ![w] = NoConn]
    BY <1>2, AdoptEffect
  <2>2. Elsewhere(call[w])
    BY <2>1, FreeTyped, FreePush DEF Elsewhere
  <2> QED BY <1>t, <2>1, <2>2 DEF Outside
<1>3. CASE CallFails(w)
  <2>1. /\ call[w] \in Conns /\ Outside(call[w]) /\ conn'[call[w]] = FreeSession
        /\ UNCHANGED <<baseline, windows, scenario>>
        /\ resync' = [resync EXCEPT ![w] = HasBaseline(w)] /\ call' = [call EXCEPT ![w] = NoConn]
    BY <1>3, CallFailsEffect
  <2>2. Elsewhere(call[w])
    BY <2>1, FreeTyped, FreePush DEF Elsewhere
  <2>3. HasBaseline(w) \in BOOLEAN
    BY DEF HasBaseline
  <2> QED BY <1>t, <2>1, <2>2, <2>3 DEF Outside
<1>4. ASSUME UNCHANGED <<workerVars, scenario>>, Elsewhere(c)
      PROVE  /\ \E d \in Conns : Elsewhere(d)
             /\ \A u \in Workers : windows'[u] \in 0..scenario.windows[u] /\ windows'[u] >= windows[u]
             /\ DOMAIN windows' = Workers /\ UNCHANGED <<roundVars, scenario>>
             /\ baseline' \in [Workers -> Int] /\ resync' \in [Workers -> BOOLEAN]
             /\ call' \in [Workers -> Conns \cup {NoConn}]
  <2>1. UNCHANGED <<baseline, resync, call, windows>> /\ UNCHANGED roundVars
    BY <1>4 DEF workerVars, Elsewhere, Outside
  <2>2. \A u \in Workers : windows'[u] \in 0..scenario.windows[u] /\ windows'[u] >= windows[u]
    BY <1>t, <2>1
  <2> QED BY <1>4, <1>t, <2>1, <2>2
<1>s. conn[c] \in Sessions
  BY <1>t
<1>5. CASE Admit(c)
  <2>1. /\ Outside(c) /\ InPhase(c, "sent") /\ UNCHANGED <<workerVars, scenario>>
        /\ conn'[c] = [conn[c] EXCEPT !.phase = "admitted"]
    BY <1>5, AdmitEffect
  <2>2. conn'[c].phase = "admitted" /\ conn'[c].worker = conn[c].worker /\ conn'[c].push = conn[c].push
    BY <1>s, <2>1 DEF Sessions
  <2>3. Elsewhere(c)
    BY <1>p, <2>1, <2>2 DEF Elsewhere, Arriving, InPhase, workerVars
  <2> QED BY <1>4, <2>1, <2>3
<1>6. CASE RefuseBusy(c)
  <2>1. /\ Outside(c) /\ UNCHANGED <<workerVars, scenario>> /\ conn'[c] = Closed(c)
    BY <1>6, RefuseEffect
  <2>2. conn'[c].phase \in {"closed", "free"} /\ conn'[c].push <= windows'[conn'[c].worker]
    BY <2>1, ClosedForm, ClosedPush DEF workerVars
  <2>3. Elsewhere(c)
    BY <2>1, <2>2 DEF Elsewhere
  <2> QED BY <1>4, <2>1, <2>3
<1>7. CASE HandlePull(c)
  <2>1. /\ Outside(c) /\ UNCHANGED <<workerVars, scenario>> /\ conn[c].push = 0
        /\ conn'[c] = [conn[c] EXCEPT !.phase = "published", !.revision = revision]
    BY <1>7, PullEffect
  <2>2. conn'[c].phase = "published" /\ conn'[c].worker = conn[c].worker /\ conn'[c].push = 0
        /\ conn'[c].revision = revision
    BY <1>s, <2>1 DEF Sessions
  <2>3. revision \in Nat
    BY DEF Typed, TypeOK, revision
  <2>4. Elsewhere(c)
    BY <1>p, <2>1, <2>2, <2>3 DEF Elsewhere, workerVars
  <2> QED BY <1>4, <2>1, <2>4
<1>8. CASE SendReply(c)
  <2>1. /\ Outside(c) /\ InPhase(c, "published") /\ UNCHANGED <<workerVars, scenario>>
        /\ \/ conn'[c] = FreeSession \/ conn'[c] = [conn[c] EXCEPT !.phase = "answered"]
    BY <1>8, ReplyEffect
  <2>2. CASE conn'[c] = FreeSession
    <3>1. Elsewhere(c)
      BY <2>1, <2>2, FreeTyped, FreePush DEF Elsewhere, workerVars
    <3> QED BY <1>4, <2>1, <3>1
  <2>3. CASE conn'[c] = [conn[c] EXCEPT !.phase = "answered"]
    <3>1. conn'[c].phase = "answered" /\ conn'[c].worker = conn[c].worker /\ conn'[c].push = conn[c].push
          /\ conn'[c].revision = conn[c].revision
      BY <1>s, <2>3 DEF Sessions
    <3>2. conn[c].revision <= revision /\ (conn[c].push # 0 => Stepped(PushKey(c), conn[c].revision))
      BY <2>1, ReplyForm DEF InPhase, ReplyShown
    <3>3. Elsewhere(c)
      BY <1>p, <2>1, <3>1, <3>2 DEF Elsewhere, workerVars, PushKey
    <3> QED BY <1>4, <2>1, <3>3
  <2> QED BY <2>1, <2>2, <2>3
<1> QED BY <1>1, <1>2, <1>3, <1>5, <1>6, <1>7, <1>8

-----------------------------------------------------------------------------
(* Sessions outside any batch, and sessions that are only notified. *)

\* What every step does: rounds keep their size, and windows only grow.
Grown ==
  /\ Typed /\ Typed' /\ scenario'.round = scenario.round /\ scenario'.windows = scenario.windows
  /\ \A u \in Workers : windows'[u] >= windows[u]

LEMMA GrownTyped ==
  ASSUME Grown
  PROVE  /\ RoundSize' = RoundSize /\ RoundSize \in Nat
         /\ \A u \in Workers : windows[u] \in Nat /\ windows'[u] \in Nat /\ windows'[u] >= windows[u]
         /\ conn \in [Conns -> Sessions] /\ conn' \in [Conns -> Sessions]
         /\ batch \in [Batches -> BatchObjects] /\ batch' \in [Batches -> BatchObjects]
         /\ steps \in Seq(Seq(Grads)) /\ steps' \in Seq(Seq(Grads))
         /\ revision \in Nat /\ revision' \in Nat
         /\ \A b \in Batches : batch[b].grads \in Seq(Grads) /\ batch'[b].grads \in Seq(Grads)
         /\ \A b \in Batches : batch[b].revision \in Nat /\ batch'[b].revision \in Nat
<1>1. /\ scenario.windows \in [Workers -> Nat] /\ scenario'.windows \in [Workers -> Nat]
      /\ scenario.round \in Nat
  BY DEF Grown, Typed, ScenarioInv
<1>2. /\ \A u \in Workers : windows[u] \in 0..scenario.windows[u]
      /\ \A u \in Workers : windows'[u] \in 0..scenario'.windows[u]
  BY DEF Grown, Typed, TypeOK
<1>3. /\ batch \in [Batches -> BatchObjects] /\ batch' \in [Batches -> BatchObjects]
      /\ conn \in [Conns -> Sessions] /\ conn' \in [Conns -> Sessions]
      /\ steps \in Seq(Seq(Grads)) /\ steps' \in Seq(Seq(Grads))
  BY DEF Grown, Typed, TypeOK
<1>4. \A x \in BatchObjects : x.grads \in Seq(Grads) /\ x.revision \in Nat
  BY DEF BatchObjects
<1>5. revision \in Nat /\ revision' \in Nat
  BY <1>3 DEF revision
<1>6. \A u \in Workers : windows[u] \in Nat /\ windows'[u] \in Nat
  BY <1>1, <1>2
<1> QED BY <1>1, <1>3, <1>4, <1>5, <1>6 DEF Grown, RoundSize

\* One session moves.
LEMMA SessionStep ==
  ASSUME Grown, SessionInv, NEW c \in Conns, \A d \in Conns \ {c} : Keeps(d),
         conn'[c].batch # NoBatch <=> conn'[c].phase \in {"waiting", "applying", "snapped"},
         conn'[c].batch # NoBatch => conn'[c].push # 0,
         conn'[c].push <= windows'[conn'[c].worker],
         conn'[c].phase \notin {"applying", "snapped"} => conn'[c].applied = 0
  PROVE  SessionInv'
<1> SUFFICES ASSUME NEW d \in Conns
             PROVE  /\ conn'[d].batch # NoBatch <=> conn'[d].phase \in {"waiting", "applying", "snapped"}
                    /\ conn'[d].batch # NoBatch => conn'[d].push # 0
                    /\ conn'[d].push <= windows'[conn'[d].worker]
                    /\ conn'[d].phase \notin {"applying", "snapped"} => conn'[d].applied = 0
  BY DEF SessionInv, Processing
<1>1. CASE d = c
  BY <1>1
<1>2. CASE d # c
  <2>1. Keeps(d)
    BY <1>2
  <2>2. conn[d].push <= windows[conn[d].worker] /\ conn[d].worker \in Workers /\ conn[d].push \in Nat
    BY GrownTyped DEF SessionInv, Sessions
  <2>3. conn[d].push <= windows'[conn[d].worker]
    BY <2>2, GrownTyped
  <2> QED BY <2>1, <2>3 DEF Keeps, SessionInv, Processing
<1> QED BY <1>1, <1>2

\* No outer step: what is applied stays applied.
LEMMA SameSteps ==
  ASSUME UNCHANGED steps
  PROVE  /\ revision' = revision /\ (RoundsWhole /\ RoundSize' = RoundSize => RoundsWhole')
         /\ \A key, r : Within(steps', key, r) <=> Stepped(key, r)
  BY DEF revision, RoundsWhole, Stepped, RoundSize

\* A push that is still to apply stays where it is, or is dropped with its
\* batch, and no push arrives that was seen before.
Calm ==
  /\ UNCHANGED steps
  /\ \A b \in Batches : \A k \in DOMAIN batch'[b].grads :
       k \in DOMAIN batch[b].grads /\ batch'[b].grads[k] = batch[b].grads[k]
  /\ \A b \in Batches : \A k \in DOMAIN batch'[b].grads : Pending(b, k)' => Pending(b, k)
  /\ \A c \in Conns : Arriving(c)' =>
       \/ Arriving(c) /\ conn'[c].worker = conn[c].worker /\ conn'[c].push = conn[c].push
       \/ conn'[c].push > windows[conn'[c].worker] /\ \A d \in Conns \ {c} : Keeps(d)

LEMMA KeyParts ==
  ASSUME NEW g \in Grads, NEW h \in Grads, NEW w, NEW n
  PROVE  /\ Key(g) = <<w, n>> <=> g.worker = w /\ g.n = n
         /\ Key(g) = Key(h) <=> g.worker = h.worker /\ g.n = h.n
  BY DEF Key

LEMMA OnceCalm ==
  ASSUME Grown, SessionInv, OnceInv, Calm
  PROVE  OnceInv'
<1>t. /\ \A u \in Workers : windows[u] \in Nat /\ windows'[u] \in Nat /\ windows'[u] >= windows[u]
      /\ conn \in [Conns -> Sessions] /\ conn' \in [Conns -> Sessions]
      /\ steps \in Seq(Seq(Grads)) /\ revision' = revision /\ steps' = steps /\ revision \in Nat
      /\ \A b \in Batches : batch[b].grads \in Seq(Grads) /\ batch'[b].grads \in Seq(Grads)
  BY GrownTyped, SameSteps DEF Calm
<1>g. \A b \in Batches : \A k \in DOMAIN batch[b].grads :
        /\ batch[b].grads[k] \in Grads /\ batch[b].grads[k].worker \in Workers
        /\ batch[b].grads[k].n \in Nat /\ batch[b].grads[k].n <= windows[batch[b].grads[k].worker]
  <2> SUFFICES ASSUME NEW b \in Batches, NEW k \in DOMAIN batch[b].grads
               PROVE  /\ batch[b].grads[k] \in Grads /\ batch[b].grads[k].worker \in Workers
                      /\ batch[b].grads[k].n \in Nat
                      /\ batch[b].grads[k].n <= windows[batch[b].grads[k].worker]
    OBVIOUS
  <2>1. batch[b].grads[k] \in Grads
    BY <1>t
  <2> QED BY <2>1 DEF Grads, OnceInv
<1>r. \A i \in DOMAIN steps : \A k \in DOMAIN steps[i] :
        /\ steps[i][k] \in Grads /\ steps[i][k].worker \in Workers /\ steps[i][k].n \in Nat
        /\ steps[i][k].n <= windows[steps[i][k].worker]
  <2> SUFFICES ASSUME NEW i \in DOMAIN steps, NEW k \in DOMAIN steps[i]
               PROVE  /\ steps[i][k] \in Grads /\ steps[i][k].worker \in Workers /\ steps[i][k].n \in Nat
                      /\ steps[i][k].n <= windows[steps[i][k].worker]
    OBVIOUS
  <2>1. steps[i] \in Seq(Grads)
    BY <1>t
  <2>2. steps[i][k] \in Grads
    BY <2>1
  <2> QED BY <2>2 DEF Grads, OnceInv
<1>1. AppliedOnce'
  BY <1>t DEF OnceInv, AppliedOnce
<1>2. \A i \in DOMAIN steps' : \A k \in DOMAIN steps'[i] :
        steps'[i][k].n <= windows'[steps'[i][k].worker]
  <2> SUFFICES ASSUME NEW i \in DOMAIN steps, NEW k \in DOMAIN steps[i]
               PROVE  steps[i][k].n <= windows'[steps[i][k].worker]
    BY <1>t
  <2>1. PICK u \in Workers : u = steps[i][k].worker
    BY <1>r
  <2>2. PICK n \in Nat : n = steps[i][k].n /\ n <= windows[u]
    BY <1>r, <2>1
  <2> QED BY <1>t, <2>1, <2>2
<1>3. \A b \in Batches : \A k \in DOMAIN batch'[b].grads :
        /\ batch'[b].grads[k].n <= windows'[batch'[b].grads[k].worker]
        /\ Pending(b, k)' => ~Stepped(Key(batch'[b].grads[k]), revision)
  <2> SUFFICES ASSUME NEW b \in Batches, NEW k \in DOMAIN batch'[b].grads
               PROVE  /\ batch'[b].grads[k].n <= windows'[batch'[b].grads[k].worker]
                      /\ Pending(b, k)' => ~Stepped(Key(batch'[b].grads[k]), revision)
    OBVIOUS
  <2>1. k \in DOMAIN batch[b].grads /\ batch'[b].grads[k] = batch[b].grads[k]
        /\ (Pending(b, k)' => Pending(b, k))
    BY DEF Calm
  <2>2. Pending(b, k)' => ~Stepped(Key(batch[b].grads[k]), revision)
    BY <2>1 DEF OnceInv
  <2>3. batch'[b].grads[k].n <= windows'[batch'[b].grads[k].worker]
    <3>1. PICK u \in Workers : u = batch[b].grads[k].worker
      BY <1>g, <2>1
    <3>2. PICK n \in Nat : n = batch[b].grads[k].n /\ n <= windows[u]
      BY <1>g, <2>1, <3>1
    <3> QED BY <1>t, <2>1, <3>1, <3>2
  <2> QED BY <2>1, <2>2, <2>3
<1>4. \A a, b \in Batches : \A k \in DOMAIN batch'[a].grads, l \in DOMAIN batch'[b].grads :
        Pending(a, k)' /\ Pending(b, l)' /\ Key(batch'[a].grads[k]) = Key(batch'[b].grads[l])
          => a = b /\ k = l
  <2> SUFFICES ASSUME NEW a \in Batches, NEW b \in Batches, NEW k \in DOMAIN batch'[a].grads,
                      NEW l \in DOMAIN batch'[b].grads, Pending(a, k)', Pending(b, l)',
                      Key(batch'[a].grads[k]) = Key(batch'[b].grads[l])
               PROVE  a = b /\ k = l
    OBVIOUS
  <2>1. /\ k \in DOMAIN batch[a].grads /\ batch'[a].grads[k] = batch[a].grads[k] /\ Pending(a, k)
        /\ l \in DOMAIN batch[b].grads /\ batch'[b].grads[l] = batch[b].grads[l] /\ Pending(b, l)
    BY DEF Calm
  <2> QED BY <2>1 DEF OnceInv
<1>5. \A c \in Conns : Arriving(c)' =>
        \/ /\ Arriving(c) /\ <<conn'[c].worker, conn'[c].push>> = PushKey(c)
        \/ /\ conn'[c].push > windows[conn'[c].worker] /\ \A d \in Conns \ {c} : Keeps(d)
  BY DEF Calm, PushKey
<1>c. \A c \in Conns : conn'[c].worker \in Workers /\ conn'[c].push \in Nat
                       /\ conn[c].worker \in Workers /\ conn[c].push \in Nat
                       /\ conn[c].push <= windows[conn[c].worker]
  BY <1>t DEF Sessions, SessionInv
<1>6. ASSUME NEW c \in Conns, Arriving(c)'
      PROVE  /\ ~Stepped(<<conn'[c].worker, conn'[c].push>>, revision)
             /\ \A b \in Batches : \A k \in DOMAIN batch'[b].grads :
                  Pending(b, k)' => Key(batch'[b].grads[k]) # <<conn'[c].worker, conn'[c].push>>
             /\ \A d \in Conns : Arriving(d)' /\ conn'[c].worker = conn'[d].worker
                                  /\ conn'[c].push = conn'[d].push => c = d
  <2>1. ASSUME NEW b \in Batches, NEW k \in DOMAIN batch'[b].grads, Pending(b, k)'
        PROVE  k \in DOMAIN batch[b].grads /\ batch'[b].grads[k] = batch[b].grads[k] /\ Pending(b, k)
    BY <2>1 DEF Calm
  <2>2. CASE conn'[c].push > windows[conn'[c].worker] /\ \A d \in Conns \ {c} : Keeps(d)
    <3>1. ~Stepped(<<conn'[c].worker, conn'[c].push>>, revision)
      <4> SUFFICES ASSUME Stepped(<<conn'[c].worker, conn'[c].push>>, revision) PROVE FALSE
        OBVIOUS
      <4>1. PICK i \in 1..revision : \E k \in DOMAIN steps[i] :
              Key(steps[i][k]) = <<conn'[c].worker, conn'[c].push>>
        BY DEF Stepped, Within
      <4>2. i \in DOMAIN steps
        BY <1>t DEF revision
      <4>3. PICK k \in DOMAIN steps[i] : Key(steps[i][k]) = <<conn'[c].worker, conn'[c].push>>
        BY <4>1
      <4>4. steps[i][k].worker = conn'[c].worker /\ steps[i][k].n = conn'[c].push
        BY <1>r, <4>2, <4>3, KeyParts
      <4> QED BY <1>t, <1>r, <1>c, <2>2, <4>2, <4>4
    <3>2. \A b \in Batches : \A k \in DOMAIN batch'[b].grads :
            Pending(b, k)' => Key(batch'[b].grads[k]) # <<conn'[c].worker, conn'[c].push>>
      <4> SUFFICES ASSUME NEW b \in Batches, NEW k \in DOMAIN batch'[b].grads, Pending(b, k)',
                          Key(batch'[b].grads[k]) = <<conn'[c].worker, conn'[c].push>>
                   PROVE  FALSE
        OBVIOUS
      <4>1. /\ k \in DOMAIN batch[b].grads /\ batch[b].grads[k] \in Grads
            /\ Key(batch[b].grads[k]) = <<conn'[c].worker, conn'[c].push>>
        BY <1>g, <2>1
      <4>2. batch[b].grads[k].worker = conn'[c].worker /\ batch[b].grads[k].n = conn'[c].push
        BY <4>1, KeyParts
      <4> QED BY <1>t, <1>g, <1>c, <2>2, <4>1, <4>2
    <3>3. ASSUME NEW d \in Conns, d # c, conn'[c].worker = conn'[d].worker, conn'[c].push = conn'[d].push
          PROVE  FALSE
      <4>1. conn'[d].push = conn[d].push /\ conn'[d].worker = conn[d].worker
        BY <2>2, <3>3 DEF Keeps
      <4> QED BY <1>t, <1>c, <2>2, <3>3, <4>1
    <3> QED BY <3>1, <3>2, <3>3
  <2>3. CASE Arriving(c) /\ <<conn'[c].worker, conn'[c].push>> = PushKey(c)
    <3>1. ~Stepped(<<conn'[c].worker, conn'[c].push>>, revision)
      BY <2>3 DEF OnceInv
    <3>2. \A b \in Batches : \A k \in DOMAIN batch'[b].grads :
            Pending(b, k)' => Key(batch'[b].grads[k]) # <<conn'[c].worker, conn'[c].push>>
      BY <2>1, <2>3 DEF OnceInv
    <3>3. ASSUME NEW d \in Conns, Arriving(d)', conn'[c].worker = conn'[d].worker,
                 conn'[c].push = conn'[d].push, d # c
          PROVE  FALSE
      <4>1. CASE Arriving(d) /\ <<conn'[d].worker, conn'[d].push>> = PushKey(d)
        <5>1. PushKey(c) = PushKey(d)
          BY <2>3, <3>3, <4>1
        <5> QED BY <2>3, <3>3, <4>1, <5>1 DEF OnceInv
      <4>2. CASE conn'[d].push > windows[conn'[d].worker]
        <5>1. conn'[c].worker = conn[c].worker /\ conn'[c].push = conn[c].push
          BY <2>3 DEF PushKey
        <5> QED BY <1>t, <1>c, <3>3, <4>2, <5>1
      <4> QED BY <1>5, <3>3, <4>1, <4>2
    <3> QED BY <3>1, <3>2, <3>3
  <2> QED BY <1>5, <1>6, <2>2, <2>3
<1>7. \A c \in Conns : Arriving(c)' =>
        /\ ~Stepped(PushKey(c), revision)'
        /\ \A b \in Batches : \A k \in DOMAIN batch'[b].grads :
             Pending(b, k)' => Key(batch'[b].grads[k]) # PushKey(c)'
        /\ \A d \in Conns : Arriving(d)' /\ PushKey(c)' = PushKey(d)' => c = d
  BY <1>t, <1>6 DEF PushKey, Stepped
<1>8. (\A b \in Batches : \A k \in DOMAIN batch[b].grads :
         LET g == batch[b].grads[k] IN
           /\ g.n <= windows[g.worker]
           /\ Pending(b, k) => ~Stepped(Key(g), revision))'
  <2>1. \A key : Within(steps', key, revision') <=> Within(steps, key, revision)
    BY <1>t
  <2> QED BY <1>3, <2>1 DEF Stepped
<1> QED BY <1>1, <1>2, <1>4, <1>7, <1>8 DEF OnceInv

-----------------------------------------------------------------------------
(* A step is about one session (or none) and one batch (or none). *)

One(c, b) ==
  /\ Grown
  /\ c \in Conns \cup {NoConn} /\ b \in Batches \cup {NoBatch}
  /\ \A d \in Conns \ {c} : Keeps(d)
  /\ \A a \in Batches \ {b} : batch'[a] = batch[a]
  /\ c \in Conns => conn[c].batch \in {NoBatch, b} /\ conn'[c].batch \in {NoBatch, b}

\* The other batches and the other sessions.
LEMMA BatchOne ==
  ASSUME NEW c, NEW b, One(c, b), BatchInv, OneProcessor', b \in Batches => BatchGood(b)'
  PROVE  BatchInv'
<1> SUFFICES ASSUME NEW a \in Batches, a # b PROVE BatchGood(a)'
  BY DEF BatchInv
<1>1. a # NoBatch /\ NoConn \notin Conns
  BY RoundAssumption
<1>2. \A d \in Conns : conn[d].batch = a \/ conn'[d].batch = a => Keeps(d) /\ d # c
  BY <1>1 DEF One
<1>3. \A d \in Conns : conn[d].batch = a <=> conn'[d].batch = a
  BY <1>2 DEF Keeps
<1>4. batch'[a] = batch[a] /\ BatchGood(a) /\ RoundSize' = RoundSize
  BY GrownTyped DEF One, BatchInv
<1>5. (\A d \in Conns : conn'[d].batch # a) => batch'[a] = EmptyBatch
  BY <1>3, <1>4 DEF BatchGood
<1>6. ASSUME NEW d \in Conns, conn'[d].batch = a
      PROVE  /\ Processing(d)' => ProcessorOf(d, a)'
             /\ \E k \in DOMAIN batch'[a].grads : Key(batch'[a].grads[k]) = PushKey(d)'
  <2>1. Keeps(d) /\ conn[d].batch = a
    BY <1>2, <1>3, <1>6
  <2>2. /\ Processing(d) => ProcessorOf(d, a)
        /\ \E k \in DOMAIN batch[a].grads : Key(batch[a].grads[k]) = PushKey(d)
    BY <1>4, <2>1 DEF BatchGood
  <2>3. Processing(d)' => ProcessorOf(d, a)'
    BY <1>4, <2>1, <2>2 DEF Processing, ProcessorOf, Keeps, InPhase
  <2> QED BY <1>4, <2>1, <2>2, <2>3 DEF PushKey, Keeps
<1>7. /\ batch'[a].done => batch'[a].claimed
      /\ RoundSize' > 0 =>
           IF batch'[a].claimed THEN Len(batch'[a].grads) = RoundSize'
                                ELSE Len(batch'[a].grads) < RoundSize'
  BY <1>4 DEF BatchGood
<1> QED BY <1>5, <1>6, <1>7 DEF BatchGood

LEMMA ProcessorOne ==
  ASSUME NEW c, NEW b, One(c, b), OneProcessor,
         current' # NoBatch => ~batch'[current'].claimed,
         c \in Conns /\ Processing(c)' =>
           \A d \in Conns \ {c} : Processing(d) => conn[d].batch # conn'[c].batch
  PROVE  OneProcessor'
<1> SUFFICES ASSUME NEW d \in Conns, NEW e \in Conns, Processing(d)', Processing(e)',
                    conn'[d].batch = conn'[e].batch, d # e
             PROVE  FALSE
  BY DEF OneProcessor, Processing
<1>1. \A f \in Conns \ {c} : conn'[f].batch = conn[f].batch /\ (Processing(f)' <=> Processing(f))
  BY DEF One, Keeps, Processing
<1>2. CASE d # c /\ e # c
  BY <1>1, <1>2 DEF OneProcessor, Processing
<1>3. CASE d = c
  BY <1>1, <1>3
<1>4. CASE e = c
  BY <1>1, <1>4
<1> QED BY <1>2, <1>3, <1>4

LEMMA ShownOne ==
  ASSUME NEW c, NEW b, One(c, b), UNCHANGED steps, SessionInv, ShownInv,
         b \in Batches => DoneShown(b)',
         \A d \in Conns \ {c} : conn[d].batch = b /\ Processing(d) =>
           batch'[b].grads = batch[b].grads /\ batch'[b].revision = batch[b].revision,
         c \in Conns => AppliedShown(c)' /\ SnappedShown(c)' /\ ReplyShown(c)'
  PROVE  ShownInv'
<1>1. revision' = revision /\ steps' = steps
  BY SameSteps
<1>2. ASSUME NEW a \in Batches, a # b PROVE DoneShown(a)'
  <2>1. batch'[a] = batch[a] /\ DoneShown(a)
    BY <1>2 DEF One, ShownInv
  <2> QED BY <1>1, <2>1 DEF DoneShown, Stepped
<1>3. ASSUME NEW d \in Conns, d # c PROVE AppliedShown(d)' /\ SnappedShown(d)' /\ ReplyShown(d)'
  <2>1. Keeps(d) /\ AppliedShown(d) /\ SnappedShown(d) /\ ReplyShown(d)
    BY <1>3 DEF One, ShownInv
  <2>2. ReplyShown(d)'
    BY <1>1, <2>1 DEF ReplyShown, Keeps, Stepped, PushKey
  <2>3. CASE Processing(d)
    <3>1. conn[d].batch \in Batches
      BY <2>3, MemberBatch DEF One, Grown, Processing
    <3>2. /\ batch'[conn[d].batch].grads = batch[conn[d].batch].grads
          /\ batch'[conn[d].batch].revision = batch[conn[d].batch].revision
      BY <1>3, <2>3, <3>1 DEF One
    <3>3. AppliedShown(d)'
      BY <1>1, <2>1, <2>3, <3>2 DEF AppliedShown, Keeps, Stepped
    <3>4. SnappedShown(d)'
      BY <1>1, <2>1, <3>2 DEF SnappedShown, Keeps, Stepped, InPhase
    <3> QED BY <2>2, <3>3, <3>4
  <2>4. CASE ~Processing(d)
    BY <2>1, <2>2, <2>4 DEF AppliedShown, SnappedShown, Processing, Keeps, InPhase
  <2> QED BY <2>3, <2>4
<1> QED BY <1>2, <1>3 DEF ShownInv

\* What is still to apply of the other batches is still to apply.
LEMMA PendingOther ==
  ASSUME NEW c, NEW b, One(c, b), NEW a \in Batches, a # b, NEW k, Pending(a, k)'
  PROVE  Pending(a, k)
<1>1. NoBatch \notin Batches /\ NoConn \notin Conns /\ batch'[a] = batch[a]
  BY RoundAssumption DEF One
<1>2. \A d \in Conns : conn[d].batch = a => conn'[d].batch = a /\ (Processing(d) => Processing(d)')
                                             /\ conn'[d].applied = conn[d].applied
  <2> SUFFICES ASSUME NEW d \in Conns, conn[d].batch = a
               PROVE  conn'[d].batch = a /\ (Processing(d) => Processing(d)')
                      /\ conn'[d].applied = conn[d].applied
    OBVIOUS
  <2>1. Keeps(d)
    BY <1>1 DEF One
  <2> QED BY <2>1 DEF Keeps, Processing
<1> QED BY <1>1, <1>2 DEF Pending

LEMMA CalmOne ==
  ASSUME NEW c, NEW b, One(c, b), UNCHANGED steps,
         b \in Batches => \A k \in DOMAIN batch'[b].grads :
           /\ k \in DOMAIN batch[b].grads /\ batch'[b].grads[k] = batch[b].grads[k]
           /\ Pending(b, k)' => Pending(b, k),
         c \in Conns /\ Arriving(c)' =>
           \/ Arriving(c) /\ conn'[c].worker = conn[c].worker /\ conn'[c].push = conn[c].push
           \/ conn'[c].push > windows[conn'[c].worker]
  PROVE  Calm
<1>1. NoBatch \notin Batches /\ NoConn \notin Conns
  BY RoundAssumption
<1>2. ASSUME NEW a \in Batches, a # b, NEW k \in DOMAIN batch'[a].grads
      PROVE  /\ k \in DOMAIN batch[a].grads /\ batch'[a].grads[k] = batch[a].grads[k]
             /\ Pending(a, k)' => Pending(a, k)
  <2>1. batch'[a] = batch[a]
    BY <1>2 DEF One
  <2>3. Pending(a, k)' => Pending(a, k)
    BY <1>2, PendingOther
  <2> QED BY <2>1, <2>3
<1>3. ASSUME NEW d \in Conns, Arriving(d)'
      PROVE  \/ Arriving(d) /\ conn'[d].worker = conn[d].worker /\ conn'[d].push = conn[d].push
             \/ conn'[d].push > windows[conn'[d].worker] /\ \A e \in Conns \ {d} : Keeps(e)
  <2>1. CASE d = c
    BY <1>3, <2>1 DEF One
  <2>2. CASE d # c
    <3>1. Keeps(d)
      BY <2>2 DEF One
    <3> QED BY <1>3, <3>1 DEF Keeps, Arriving
  <2> QED BY <2>1, <2>2
<1>4. \A a \in Batches : \A k \in DOMAIN batch'[a].grads :
        /\ k \in DOMAIN batch[a].grads /\ batch'[a].grads[k] = batch[a].grads[k]
        /\ Pending(a, k)' => Pending(a, k)
  BY <1>2
<1> QED BY <1>3, <1>4 DEF Calm

\* What the theorem without a hypothesis rests on.
CoreInv == SessionInv /\ BatchInv /\ ShownInv /\ OnceInv /\ RoundsWhole

-----------------------------------------------------------------------------
(* Each kind of step keeps the invariant. *)

LEMMA CoreElsewhere ==
  ASSUME Grown, CoreInv, NEW c \in Conns, Elsewhere(c)
  PROVE  CoreInv' /\ Calm
<1>1. /\ conn[c].batch = NoBatch /\ conn'[c].batch = NoBatch /\ ~Processing(c) /\ ~Processing(c)'
      /\ conn'[c].phase # "waiting"
      /\ conn'[c].applied = 0 /\ steps' = steps /\ current' = current /\ batch' = batch
      /\ \A d \in Conns \ {c} : Keeps(d)
  BY DEF Elsewhere, Outside, Keeps, roundVars
<1>2. One(c, NoBatch) /\ NoBatch \notin Batches
  BY <1>1, RoundAssumption DEF One
<1>3. SessionInv'
  <2>1. conn'[c].phase \notin {"waiting", "applying", "snapped"}
    BY <1>1 DEF Processing
  <2>2. conn'[c].push <= windows'[conn'[c].worker]
    BY DEF Elsewhere
  <2> QED BY <1>1, <2>1, <2>2, SessionStep DEF CoreInv
<1>4. BatchInv'
  <2>1. OneProcessor'
    BY <1>1, <1>2, ProcessorOne DEF CoreInv, BatchInv, OneProcessor
  <2> QED BY <1>2, <2>1, BatchOne DEF CoreInv
<1>5. ShownInv'
  <2>1. conn'[c].phase \in {"published", "answered"} =>
          /\ conn'[c].revision <= revision
          /\ conn'[c].push # 0 => Stepped(<<conn'[c].worker, conn'[c].push>>, conn'[c].revision)
    BY DEF Elsewhere
  <2>2. ReplyShown(c)'
    BY <1>1, <2>1, SameSteps DEF ReplyShown, PushKey, Stepped
  <2>3. AppliedShown(c)' /\ SnappedShown(c)'
    BY <1>1 DEF AppliedShown, SnappedShown, Processing, InPhase
  <2> QED BY <1>1, <1>2, <2>2, <2>3, ShownOne DEF CoreInv
<1>6. OnceInv' /\ Calm
  <2>1. Arriving(c)' =>
           \/ Arriving(c) /\ conn'[c].worker = conn[c].worker /\ conn'[c].push = conn[c].push
           \/ conn'[c].push > windows[conn'[c].worker]
    BY DEF Elsewhere, Arriving
  <2>2. Calm
    BY <1>1, <1>2, <2>1, CalmOne
  <2> QED BY <2>2, OnceCalm DEF CoreInv
<1>7. RoundsWhole'
  BY <1>1, SameSteps, GrownTyped DEF CoreInv
<1> QED BY <1>3, <1>4, <1>5, <1>6, <1>7 DEF CoreInv

\* Nothing happens here: a call is given up, or nothing at all changes.
LEMMA CoreStill ==
  ASSUME Grown, CoreInv, UNCHANGED <<roundVars, conn>>
  PROVE  CoreInv' /\ Calm
<1>1. steps' = steps /\ current' = current /\ batch' = batch /\ conn' = conn
  BY DEF roundVars
<1>2. One(NoConn, NoBatch) /\ NoBatch \notin Batches /\ NoConn \notin Conns
  BY <1>1, RoundAssumption DEF One, Keeps
<1>3. SessionInv'
  <2> SUFFICES ASSUME NEW d \in Conns PROVE conn[d].push <= windows'[conn[d].worker]
    BY <1>1 DEF SessionInv, Processing, CoreInv
  <2>1. conn[d].push <= windows[conn[d].worker] /\ conn[d].worker \in Workers /\ conn[d].push \in Nat
    BY GrownTyped DEF SessionInv, Sessions, CoreInv
  <2> QED BY <2>1, GrownTyped
<1>4. BatchInv'
  <2>1. OneProcessor'
    BY <1>1 DEF CoreInv, BatchInv, OneProcessor
  <2> QED BY <1>2, <2>1, BatchOne DEF CoreInv
<1>5. ShownInv'
  BY <1>1, <1>2, ShownOne DEF CoreInv
<1>6. OnceInv' /\ Calm
  <2>1. Calm
    BY <1>1, <1>2, CalmOne
  <2> QED BY <2>1, OnceCalm DEF CoreInv
<1>7. RoundsWhole'
  BY <1>1, SameSteps, GrownTyped DEF CoreInv
<1> QED BY <1>3, <1>4, <1>5, <1>6, <1>7 DEF CoreInv

LEMMA CoreExpire ==
  ASSUME Grown, CoreInv, NEW b \in Batches, Expire(b)
  PROVE  CoreInv' /\ Calm
<1>1. /\ steps' = steps /\ current' = current /\ windows' = windows
      /\ \A d \in Conns : Keeps(d)
      /\ batch[b].grads # <<>>
      /\ \A a \in Batches \ {b} : batch'[a] = batch[a]
      /\ batch'[b].grads = batch[b].grads /\ batch'[b].claimed = batch[b].claimed
      /\ batch'[b].done = batch[b].done /\ batch'[b].error = batch[b].error
      /\ batch'[b].revision = batch[b].revision
  BY ExpireEffect DEF Grown, workerVars
<1>2. One(NoConn, b) /\ NoBatch \notin Batches /\ NoConn \notin Conns
  BY <1>1, RoundAssumption DEF One
<1>3. SessionInv'
  BY <1>1 DEF CoreInv, SessionInv, Keeps, Processing
<1>4. BatchInv'
  <2>1. OneProcessor'
    <3>1. current' # NoBatch => ~batch'[current'].claimed
      <4>1. \A a \in Batches : batch'[a].claimed = batch[a].claimed
        BY <1>1
      <4>2. current \in Batches \cup {NoBatch}
        BY DEF Grown, Typed, TypeOK
      <4> QED BY <1>1, <4>1, <4>2 DEF CoreInv, BatchInv, OneProcessor
    <3> QED BY <1>2, <3>1, ProcessorOne DEF CoreInv, BatchInv
  <2>2. BatchGood(b) /\ RoundSize' = RoundSize
    BY GrownTyped DEF CoreInv, BatchInv
  <2>3. ~ \A d \in Conns : conn'[d].batch # b
    <3>1. batch[b] # EmptyBatch
      BY <1>1, EmptyTyped
    <3> QED BY <1>1, <2>2, <3>1 DEF BatchGood, Keeps
  <2>4. ASSUME NEW d \in Conns, conn'[d].batch = b
        PROVE  /\ Processing(d)' => ProcessorOf(d, b)'
               /\ \E k \in DOMAIN batch'[b].grads : Key(batch'[b].grads[k]) = PushKey(d)'
    BY <1>1, <2>2, <2>4 DEF BatchGood, Processing, ProcessorOf, Keeps, InPhase, PushKey
  <2>5. BatchGood(b)'
    BY <1>1, <2>2, <2>3, <2>4 DEF BatchGood
  <2> QED BY <1>2, <2>1, <2>5, BatchOne DEF CoreInv
<1>5. ShownInv'
  <2>1. DoneShown(b)'
    BY <1>1, SameSteps DEF CoreInv, DoneShown, Stepped, ShownInv
  <2> QED BY <1>1, <1>2, <2>1, ShownOne DEF CoreInv
<1>6. OnceInv' /\ Calm
  <2>1. \A k \in DOMAIN batch'[b].grads : Pending(b, k)' => Pending(b, k)
    BY <1>1 DEF Pending, Keeps, Processing
  <2>2. Calm
    BY <1>1, <1>2, <2>1, CalmOne
  <2> QED BY <2>2, OnceCalm DEF CoreInv
<1>7. RoundsWhole'
  BY <1>1, SameSteps, GrownTyped DEF CoreInv
<1> QED BY <1>3, <1>4, <1>5, <1>6, <1>7 DEF CoreInv

\* Batches and pushes that leave nothing behind.
LEMMA EmptyGood ==
  ASSUME Grown, NEW b \in Batches, batch'[b] = EmptyBatch, \A d \in Conns : conn'[d].batch # b
  PROVE  BatchGood(b)' /\ DoneShown(b)' /\ DOMAIN batch'[b].grads = {}
<1>1. batch'[b].grads = <<>> /\ DOMAIN batch'[b].grads = {} /\ Len(batch'[b].grads) = 0
      /\ ~batch'[b].claimed /\ ~batch'[b].done
  BY EmptyTyped
<1>2. RoundSize' \in Nat
  BY GrownTyped
<1>3. BatchGood(b)'
  BY <1>1, <1>2 DEF BatchGood
<1> QED BY <1>1, <1>3 DEF DoneShown

LEMMA CoreLook ==
  ASSUME Grown, CoreInv, NEW c \in Conns, Wake(c), ~batch[conn[c].batch].done
  PROVE  CoreInv' /\ Calm
<1>0. PICK b \in Batches : b = conn[c].batch
  BY LookEffect DEF Grown, CoreInv
<1>1. /\ InPhase(c, "waiting") /\ steps' = steps /\ windows' = windows /\ b \in Batches
      /\ \A d \in Conns \ {c} : Keeps(d)
      /\ conn'[c].worker = conn[c].worker /\ conn'[c].push = conn[c].push
      /\ conn'[c].applied = conn[c].applied
      /\ conn'[c].batch = b
      /\ \A a \in Batches \ {b} : batch'[a] = batch[a]
      /\ batch'[b].grads = batch[b].grads /\ ~batch'[b].done
      /\ batch'[b].error = batch[b].error /\ batch'[b].revision = batch[b].revision
      /\ \/ /\ conn'[c].phase = "waiting"
            /\ batch'[b].claimed = batch[b].claimed /\ current' = current
         \/ /\ conn'[c].phase = "applying" /\ ~batch[b].claimed /\ batch'[b].claimed
            /\ RoundSize > 0 => Len(batch[b].grads) >= RoundSize
            /\ current' = NoBatch
  BY <1>0, LookEffect DEF Grown, CoreInv, workerVars
<1>2. One(c, b) /\ b # NoBatch
  BY <1>0, <1>1, RoundAssumption DEF One
<1>3. /\ conn[c].push # 0 /\ conn[c].push <= windows[conn[c].worker] /\ conn[c].applied = 0
      /\ conn[c].batch # NoBatch
  BY <1>1 DEF CoreInv, SessionInv, InPhase, Processing
<1>4. BatchGood(b) /\ RoundSize' = RoundSize /\ RoundSize \in Nat /\ Len(batch[b].grads) \in Nat
  BY <1>1, GrownTyped DEF CoreInv, BatchInv
<1>5. SessionInv'
  BY <1>1, <1>2, <1>3, SessionStep DEF CoreInv
<1>6. ~batch[b].claimed => \A d \in Conns : conn[d].batch = b => ~Processing(d)
  BY <1>4 DEF BatchGood, ProcessorOf
<1>7. BatchInv'
  <2>1. current' # NoBatch => ~batch'[current'].claimed
    <3>1. current \in Batches \cup {NoBatch}
      BY DEF Grown, Typed, TypeOK
    <3>2. \A a \in Batches : current' = current => batch'[a].claimed = batch[a].claimed \/ current' = NoBatch
      BY <1>1
    <3> QED BY <1>1, <3>1, <3>2 DEF CoreInv, BatchInv, OneProcessor
  <2>2. Processing(c)' => \A d \in Conns \ {c} : Processing(d) => conn[d].batch # conn'[c].batch
    BY <1>1, <1>6 DEF Processing
  <2>3. OneProcessor'
    BY <1>2, <2>1, <2>2, ProcessorOne DEF CoreInv, BatchInv
  <2>4. ASSUME NEW d \in Conns, conn'[d].batch = b
        PROVE  /\ Processing(d)' => ProcessorOf(d, b)'
               /\ \E k \in DOMAIN batch'[b].grads : Key(batch'[b].grads[k]) = PushKey(d)'
    <3>1. CASE d = c
      <4>1. Processing(d)' => ProcessorOf(d, b)'
        BY <1>1, <1>3, <1>4, <3>1 DEF Processing, ProcessorOf, InPhase
      <4> QED BY <1>0, <1>1, <1>4, <3>1, <4>1 DEF BatchGood, PushKey
    <3>2. CASE d # c
      <4>1. Keeps(d) /\ conn[d].batch = b
        BY <1>1, <2>4, <3>2 DEF Keeps
      <4>2. Processing(d) => batch[b].claimed
        BY <1>6, <4>1
      <4> QED BY <1>1, <1>4, <4>1, <4>2 DEF BatchGood, Processing, ProcessorOf, Keeps, InPhase, PushKey
    <3> QED BY <3>1, <3>2
  <2>5. BatchGood(b)'
    BY <1>1, <1>4, <2>4 DEF BatchGood
  <2> QED BY <1>2, <2>3, <2>5, BatchOne DEF CoreInv
<1>8. ShownInv'
  <2>1. DoneShown(b)'
    BY <1>1 DEF DoneShown
  <2>2. AppliedShown(c)' /\ SnappedShown(c)' /\ ReplyShown(c)'
    BY <1>1, <1>3 DEF AppliedShown, SnappedShown, ReplyShown, InPhase
  <2> QED BY <1>1, <1>2, <2>1, <2>2, ShownOne DEF CoreInv
<1>9. OnceInv' /\ Calm
  <2>1. ASSUME NEW k \in DOMAIN batch'[b].grads, Pending(b, k)' PROVE Pending(b, k)
    <3> SUFFICES ASSUME NEW d \in Conns, conn[d].batch = b, Processing(d) PROVE k > conn[d].applied
      BY <1>0, <1>1, <1>4, <2>1 DEF Pending
    <3>1. d # c
      BY <1>1 DEF Processing, InPhase
    <3>2. Keeps(d)
      BY <1>1, <3>1
    <3> QED BY <2>1, <3>2 DEF Keeps, Pending, Processing
  <2>2. ~Arriving(c)'
    BY <1>1 DEF Arriving
  <2>3. Calm
    BY <1>1, <1>2, <2>1, <2>2, CalmOne
  <2> QED BY <2>3, OnceCalm DEF CoreInv
<1>10. RoundsWhole'
  BY <1>1, SameSteps, GrownTyped DEF CoreInv
<1> QED BY <1>5, <1>7, <1>8, <1>9, <1>10 DEF CoreInv

LEMMA CoreSnapshot ==
  ASSUME Grown, CoreInv, NEW c \in Conns, TakeSnapshot(c)
  PROVE  CoreInv' /\ Calm
<1>0. PICK b \in Batches : b = conn[c].batch
  BY SnapshotEffect DEF Grown, CoreInv
<1>1. /\ InPhase(c, "applying") /\ steps' = steps /\ current' = current /\ windows' = windows
      /\ b \in Batches /\ conn[c].applied = Len(batch[b].grads)
      /\ ProcessorOf(c, b)
      /\ \A d \in Conns \ {c} : Keeps(d)
      /\ conn'[c].phase = "snapped" /\ conn'[c].worker = conn[c].worker
      /\ conn'[c].push = conn[c].push
      /\ conn'[c].batch = b /\ conn'[c].applied = conn[c].applied /\ conn'[c].revision = revision
      /\ \A a \in Batches \ {b} : batch'[a] = batch[a]
      /\ batch'[b].grads = batch[b].grads /\ batch'[b].claimed = batch[b].claimed
      /\ batch'[b].done = batch[b].done /\ batch'[b].error = batch[b].error
      /\ batch'[b].revision = revision
  BY <1>0, SnapshotEffect DEF Grown, CoreInv, workerVars
<1>2. One(c, b) /\ b # NoBatch
  BY <1>0, <1>1, RoundAssumption DEF One
<1>3. conn[c].push # 0 /\ conn[c].push <= windows[conn[c].worker] /\ conn[c].batch # NoBatch
  BY <1>0, <1>1 DEF CoreInv, SessionInv, InPhase, Processing
<1>4. /\ BatchGood(b) /\ RoundSize' = RoundSize /\ RoundSize \in Nat /\ revision' = revision
      /\ revision \in Nat /\ batch[b].grads \in Seq(Grads)
  BY <1>1, GrownTyped, SameSteps DEF CoreInv, BatchInv, ShownInv
<1>5. \A d \in Conns \ {c} : conn[d].batch = b => ~Processing(d)
  BY <1>0, <1>1 DEF CoreInv, BatchInv, OneProcessor, Processing, InPhase
<1>6. Processing(c) /\ AppliedShown(c)
  BY <1>1 DEF CoreInv, Processing, InPhase, ShownInv
<1>7. \A k \in DOMAIN batch[b].grads : Stepped(Key(batch[b].grads[k]), revision)
  BY <1>0, <1>1, <1>4, <1>6 DEF AppliedShown
<1>8. SessionInv'
  BY <1>1, <1>2, <1>3, SessionStep DEF CoreInv
<1>9. BatchInv'
  <2>1. current' # NoBatch => ~batch'[current'].claimed
    <3>1. current \in Batches \cup {NoBatch}
      BY DEF Grown, Typed, TypeOK
    <3>2. \A a \in Batches : batch'[a].claimed = batch[a].claimed
      BY <1>1
    <3> QED BY <1>1, <3>1, <3>2 DEF CoreInv, BatchInv, OneProcessor
  <2>2. OneProcessor'
    BY <1>1, <1>2, <1>5, <2>1, ProcessorOne DEF CoreInv, BatchInv
  <2>3. ASSUME NEW d \in Conns, conn'[d].batch = b
        PROVE  /\ Processing(d)' => ProcessorOf(d, b)'
               /\ \E k \in DOMAIN batch'[b].grads : Key(batch'[b].grads[k]) = PushKey(d)'
    <3>1. CASE d = c
      <4>1. ProcessorOf(d, b)'
        BY <1>1, <1>4, <3>1 DEF ProcessorOf, InPhase
      <4>2. \E k \in DOMAIN batch[b].grads : Key(batch[b].grads[k]) = PushKey(c)
        BY <1>0, <1>4 DEF BatchGood
      <4>3. PushKey(c)' = PushKey(c) /\ batch'[b].grads = batch[b].grads
        BY <1>1 DEF PushKey
      <4> QED BY <3>1, <4>1, <4>2, <4>3
    <3>2. CASE d # c
      <4>1. Keeps(d) /\ conn[d].batch = b
        BY <1>1, <2>3, <3>2 DEF Keeps
      <4> QED BY <1>1, <1>4, <1>5, <3>2, <4>1 DEF BatchGood, Processing, Keeps, PushKey
    <3> QED BY <3>1, <3>2
  <2>4. BatchGood(b)'
    BY <1>1, <1>4, <2>3 DEF BatchGood
  <2> QED BY <1>2, <2>2, <2>4, BatchOne DEF CoreInv
<1>10. ShownInv'
  <2>1. DoneShown(b)'
    BY <1>1 DEF DoneShown, ProcessorOf
  <2>2. AppliedShown(c)'
    BY <1>0, <1>1, <1>4, <1>6, SameSteps DEF AppliedShown, Stepped
  <2>3. SnappedShown(c)'
    BY <1>1, <1>4, <1>7, SameSteps DEF SnappedShown, Stepped
  <2>4. ReplyShown(c)'
    BY <1>1 DEF ReplyShown
  <2> QED BY <1>1, <1>2, <1>5, <2>1, <2>2, <2>3, <2>4, ShownOne DEF CoreInv
<1>11. OnceInv' /\ Calm
  <2>1. ASSUME NEW k \in DOMAIN batch'[b].grads, Pending(b, k)' PROVE Pending(b, k)
    BY <1>1, <1>5, <2>1 DEF Pending, Processing
  <2>2. ~Arriving(c)'
    BY <1>1 DEF Arriving
  <2>3. Calm
    BY <1>1, <1>2, <2>1, <2>2, CalmOne
  <2> QED BY <2>3, OnceCalm DEF CoreInv
<1>12. RoundsWhole'
  BY <1>1, SameSteps, GrownTyped DEF CoreInv
<1> QED BY <1>8, <1>9, <1>10, <1>11, <1>12 DEF CoreInv

LEMMA CoreLeave ==
  ASSUME Grown, CoreInv, NEW c \in Conns, Wake(c), batch[conn[c].batch].done
  PROVE  CoreInv' /\ Calm
<1>0. PICK b \in Batches : b = conn[c].batch
  BY LeaveEffect DEF Grown, CoreInv
<1>1. /\ InPhase(c, "waiting") /\ steps' = steps /\ current' = current /\ windows' = windows
      /\ \A d \in Conns \ {c} : Keeps(d)
      /\ conn'[c].batch = NoBatch /\ conn'[c].applied = 0
      /\ \/ batch[b].error /\ conn'[c] = Closed(c)
         \/ /\ ~batch[b].error /\ conn'[c].phase = "published"
            /\ conn'[c].worker = conn[c].worker /\ conn'[c].push = conn[c].push
            /\ conn'[c].revision = batch[b].revision
      /\ \A a \in Batches \ {b} : batch'[a] = batch[a]
      /\ (\A d \in Conns : conn'[d].batch # b) => batch'[b] = EmptyBatch
      /\ (\E d \in Conns : conn'[d].batch = b) => batch'[b] = batch[b]
  BY <1>0, LeaveEffect DEF Grown, CoreInv, workerVars
<1>2. One(c, b) /\ b # NoBatch
  BY <1>0, <1>1, RoundAssumption DEF One
<1>3. conn[c].push # 0 /\ conn[c].push <= windows[conn[c].worker]
  BY <1>0, <1>2 DEF CoreInv, SessionInv
<1>4. /\ BatchGood(b) /\ RoundSize' = RoundSize /\ DoneShown(b) /\ revision' = revision
  BY <1>1, GrownTyped, SameSteps DEF CoreInv, BatchInv, ShownInv
<1>5. \A d \in Conns : conn[d].batch = b => ~Processing(d)
  BY <1>0, <1>4 DEF BatchGood, ProcessorOf
<1>6. SessionInv'
  <2>1. conn'[c].phase \in {"published", "closed", "free"} /\ conn'[c].push <= windows'[conn'[c].worker]
    BY <1>1, <1>3, ClosedForm, ClosedPush DEF CoreInv, Grown
  <2> QED BY <1>1, <2>1, SessionStep DEF CoreInv
<1>7. BatchInv'
  <2>1. OneProcessor'
    <3>1. current' # NoBatch => ~batch'[current'].claimed
      <4>1. current \in Batches \cup {NoBatch}
        BY DEF Grown, Typed, TypeOK
      <4>2. \A a \in Batches : batch'[a].claimed => batch[a].claimed
        BY <1>1, EmptyTyped
      <4> QED BY <1>1, <4>1, <4>2 DEF CoreInv, BatchInv, OneProcessor
    <3>2. ~Processing(c)'
      BY <1>1, ClosedForm DEF Processing, Grown
    <3> QED BY <1>2, <3>1, <3>2, ProcessorOne DEF CoreInv, BatchInv
  <2>2. CASE \E d \in Conns : conn'[d].batch = b
    <3>1. batch'[b] = batch[b]
      BY <1>1, <2>2
    <3>2. ASSUME NEW d \in Conns, conn'[d].batch = b
          PROVE  /\ ~Processing(d)'
                 /\ \E k \in DOMAIN batch'[b].grads : Key(batch'[b].grads[k]) = PushKey(d)'
      <4>1. Keeps(d) /\ conn[d].batch = b
        BY <1>1, <1>2, <3>2 DEF Keeps
      <4> QED BY <1>4, <1>5, <3>1, <4>1 DEF BatchGood, Keeps, PushKey, Processing
    <3>3. BatchGood(b)'
      BY <1>4, <2>2, <3>1, <3>2 DEF BatchGood
    <3> QED BY <1>2, <2>1, <3>3, BatchOne DEF CoreInv
  <2>3. CASE \A d \in Conns : conn'[d].batch # b
    BY <1>1, <1>2, <2>1, <2>3, EmptyGood, BatchOne DEF CoreInv
  <2> QED BY <2>2, <2>3
<1>8. ShownInv'
  <2>1. DoneShown(b)'
    <3>1. CASE \E d \in Conns : conn'[d].batch = b
      BY <1>1, <1>4, <3>1, SameSteps DEF DoneShown, Stepped
    <3>2. CASE \A d \in Conns : conn'[d].batch # b
      BY <1>1, <3>2, EmptyGood
    <3> QED BY <3>1, <3>2
  <2>2. conn'[c].phase \in {"published", "closed", "free"}
    BY <1>1, ClosedForm DEF Grown
  <2>3. AppliedShown(c)' /\ SnappedShown(c)'
    BY <2>2 DEF AppliedShown, SnappedShown, Processing, InPhase
  <2>4. ReplyShown(c)'
    <3>1. CASE batch[b].error
      <4>1. conn'[c].phase \in {"closed", "free"}
        BY <1>1, <3>1, ClosedForm DEF Grown
      <4> QED BY <4>1 DEF ReplyShown
    <3>2. CASE ~batch[b].error
      <4>1. PICK k \in DOMAIN batch[b].grads : Key(batch[b].grads[k]) = PushKey(c)
        BY <1>0, <1>4 DEF BatchGood
      <4>2. Stepped(PushKey(c), batch[b].revision) /\ batch[b].revision <= revision
        BY <1>0, <1>4, <3>2, <4>1 DEF DoneShown
      <4>3. /\ conn'[c].worker = conn[c].worker /\ conn'[c].push = conn[c].push
            /\ conn'[c].revision = batch[b].revision
        BY <1>1, <3>2
      <4> QED BY <1>1, <1>4, <4>2, <4>3 DEF ReplyShown, PushKey, Stepped
    <3> QED BY <3>1, <3>2
  <2> QED BY <1>1, <1>2, <1>5, <2>1, <2>3, <2>4, ShownOne DEF CoreInv
<1>9. OnceInv' /\ Calm
  <2>1. ASSUME NEW k \in DOMAIN batch'[b].grads
        PROVE  /\ k \in DOMAIN batch[b].grads /\ batch'[b].grads[k] = batch[b].grads[k]
               /\ ~Pending(b, k)'
    <3>1. batch'[b] = batch[b]
      BY <1>1, <2>1, EmptyGood
    <3> QED BY <1>0, <2>1, <3>1 DEF Pending
  <2>2. ~Arriving(c)'
    BY <1>1, ClosedForm DEF Arriving, Grown
  <2>3. Calm
    BY <1>1, <1>2, <2>1, <2>2, CalmOne
  <2> QED BY <2>3, OnceCalm DEF CoreInv
<1>10. RoundsWhole'
  BY <1>1, SameSteps, GrownTyped DEF CoreInv
<1> QED BY <1>6, <1>7, <1>8, <1>9, <1>10 DEF CoreInv

LEMMA CorePublish ==
  ASSUME Grown, CoreInv, NEW c \in Conns, PublishStep(c)
  PROVE  CoreInv' /\ Calm
<1>s. PICK s \in Sessions, error \in BOOLEAN :
    /\ s.batch = NoBatch /\ s.applied = 0 /\ PublishAs(c, s, error) /\ Processing(c)
    /\ s.phase \in {"published", "closed", "free"}
    /\ s.push <= windows[s.worker]
    /\ s.phase = "free" => ~Waiting(c)
    /\ s.phase # "free" => s.worker = conn[c].worker /\ s.push = conn[c].push
    /\ ~error => InPhase(c, "snapped")
    /\ s.phase = "published" =>
         InPhase(c, "snapped") /\ ~error /\ s.revision = conn[c].revision
  BY DEF PublishStep
<1>p. conn[c].phase \in {"applying", "snapped"}
  BY <1>s DEF Processing
<1>0. PICK b \in Batches : b = conn[c].batch
  BY <1>s, <1>p, PublishEffect DEF Grown, CoreInv
<1>1. /\ steps' = steps /\ current' = current /\ windows' = windows /\ ProcessorOf(c, b)
      /\ \A d \in Conns \ {c} : Keeps(d)
      /\ conn'[c].phase = s.phase /\ conn'[c].worker = s.worker /\ conn'[c].push = s.push
      /\ conn'[c].batch = NoBatch /\ conn'[c].applied = 0 /\ conn'[c].revision = s.revision
      /\ \A a \in Batches \ {b} : batch'[a] = batch[a]
      /\ \/ /\ batch'[b] = EmptyBatch /\ \A d \in Conns : conn'[d].batch # b
         \/ /\ batch'[b].grads = batch[b].grads /\ batch'[b].claimed = batch[b].claimed
            /\ batch'[b].done /\ batch'[b].error = error /\ batch'[b].revision = batch[b].revision
            /\ \E d \in Conns : conn'[d].batch = b
  BY <1>0, <1>s, <1>p, PublishEffect DEF Grown, CoreInv, workerVars
<1>2. One(c, b) /\ b # NoBatch
  BY <1>0, <1>1, RoundAssumption DEF One
<1>4. /\ BatchGood(b) /\ RoundSize' = RoundSize /\ revision' = revision /\ SnappedShown(c)
      /\ Processing(c)
  BY <1>1, <1>s, GrownTyped, SameSteps DEF CoreInv, BatchInv, ShownInv
<1>5. \A d \in Conns \ {c} : conn[d].batch = b => ~Processing(d)
  BY <1>0, <1>4 DEF CoreInv, BatchInv, OneProcessor, Processing
<1>6. SessionInv'
  BY <1>1, <1>s, SessionStep DEF CoreInv
<1>7. BatchInv'
  <2>1. OneProcessor'
    <3>1. current' # NoBatch => ~batch'[current'].claimed
      <4>1. current \in Batches \cup {NoBatch}
        BY DEF Grown, Typed, TypeOK
      <4>2. \A a \in Batches : batch'[a].claimed => batch[a].claimed
        BY <1>1, EmptyTyped
      <4> QED BY <1>1, <4>1, <4>2 DEF CoreInv, BatchInv, OneProcessor
    <3>2. ~Processing(c)'
      BY <1>1, <1>s DEF Processing
    <3> QED BY <1>2, <3>1, <3>2, ProcessorOne DEF CoreInv, BatchInv
  <2>2. CASE batch'[b] = EmptyBatch /\ \A d \in Conns : conn'[d].batch # b
    BY <1>2, <2>1, <2>2, EmptyGood, BatchOne DEF CoreInv, One
  <2>3. CASE /\ batch'[b].grads = batch[b].grads /\ batch'[b].claimed = batch[b].claimed
             /\ batch'[b].done /\ \E d \in Conns : conn'[d].batch = b
    <3>1. ASSUME NEW d \in Conns, conn'[d].batch = b
          PROVE  /\ ~Processing(d)'
                 /\ \E k \in DOMAIN batch'[b].grads : Key(batch'[b].grads[k]) = PushKey(d)'
      <4>1. Keeps(d) /\ conn[d].batch = b /\ d # c
        BY <1>1, <1>2, <3>1 DEF Keeps
      <4> QED BY <1>4, <1>5, <2>3, <4>1 DEF BatchGood, Keeps, PushKey, Processing
    <3>2. batch'[b].claimed
      BY <1>1, <2>3 DEF ProcessorOf
    <3>3. BatchGood(b)'
      BY <1>4, <2>3, <3>1, <3>2 DEF BatchGood
    <3> QED BY <1>2, <2>1, <3>3, BatchOne DEF CoreInv
  <2> QED BY <1>1, <2>2, <2>3
<1>8. ShownInv'
  <2>1. DoneShown(b)'
    <3>1. CASE batch'[b] = EmptyBatch /\ \A d \in Conns : conn'[d].batch # b
      BY <3>1, EmptyGood
    <3>2. CASE /\ batch'[b].grads = batch[b].grads /\ batch'[b].error = error
               /\ batch'[b].revision = batch[b].revision
      <4>1. CASE error
        BY <3>2, <4>1 DEF DoneShown
      <4>2. CASE ~error
        <5>1. /\ batch[b].revision <= revision
              /\ \A k \in DOMAIN batch[b].grads : Stepped(Key(batch[b].grads[k]), batch[b].revision)
          BY <1>0, <1>4, <1>s, <4>2 DEF SnappedShown
        <5> QED BY <1>1, <1>4, <3>2, <5>1 DEF DoneShown, Stepped
      <4> QED BY <4>1, <4>2
    <3> QED BY <1>1, <3>1, <3>2
  <2>2. AppliedShown(c)' /\ SnappedShown(c)'
    BY <1>1, <1>s DEF AppliedShown, SnappedShown, Processing, InPhase
  <2>3. ReplyShown(c)'
    <3>1. CASE s.phase # "published"
      BY <1>1, <1>s, <3>1 DEF ReplyShown
    <3>2. CASE s.phase = "published"
      <4>1. /\ InPhase(c, "snapped") /\ conn'[c].worker = conn[c].worker
            /\ conn'[c].push = conn[c].push /\ conn'[c].revision = conn[c].revision
        BY <1>1, <1>s, <3>2
      <4>2. PICK k \in DOMAIN batch[b].grads : Key(batch[b].grads[k]) = PushKey(c)
        BY <1>0, <1>4 DEF BatchGood
      <4>3. Stepped(PushKey(c), conn[c].revision) /\ conn[c].revision <= revision
        BY <1>0, <1>4, <4>1, <4>2 DEF SnappedShown
      <4> QED BY <1>1, <1>4, <4>1, <4>3 DEF ReplyShown, PushKey, Stepped
    <3> QED BY <3>1, <3>2
  <2> QED BY <1>1, <1>2, <1>5, <2>1, <2>2, <2>3, ShownOne DEF CoreInv
<1>9. OnceInv' /\ Calm
  <2>1. ASSUME NEW k \in DOMAIN batch'[b].grads
        PROVE  /\ k \in DOMAIN batch[b].grads /\ batch'[b].grads[k] = batch[b].grads[k]
               /\ ~Pending(b, k)'
    <3>1. batch'[b].grads = batch[b].grads /\ batch'[b].done
      BY <1>1, <2>1, EmptyGood
    <3> QED BY <2>1, <3>1 DEF Pending
  <2>2. ~Arriving(c)'
    BY <1>1, <1>s DEF Arriving
  <2>3. Calm
    BY <1>1, <1>2, <2>1, <2>2, CalmOne
  <2> QED BY <2>3, OnceCalm DEF CoreInv
<1>10. RoundsWhole'
  BY <1>1, SameSteps, GrownTyped DEF CoreInv
<1> QED BY <1>6, <1>7, <1>8, <1>9, <1>10 DEF CoreInv

LEMMA CoreEnter ==
  ASSUME Grown, CoreInv, NEW c \in Conns, EnterBatch(c)
  PROVE  CoreInv'
<1> DEFINE g == [worker |-> conn[c].worker, n |-> conn[c].push, basis |-> conn[c].basis]
<1>0. PICK b \in Batches :
        /\ ~batch[b].claimed /\ ~batch[b].done /\ \A d \in Conns : conn[d].batch = b => ~Processing(d)
        /\ conn'[c].batch = b
        /\ \A a \in Batches \ {b} : batch'[a] = batch[a]
        /\ g \in Grads /\ batch'[b].grads = Append(batch[b].grads, g)
        /\ ~batch'[b].done
        /\ conn'[c].phase = IF batch'[b].claimed THEN "applying" ELSE "waiting"
        /\ RoundSize > 0 => (batch'[b].claimed <=> Len(batch[b].grads) + 1 >= RoundSize)
        /\ current' = IF batch'[b].claimed THEN NoBatch ELSE b
  BY EnterEffect DEF Grown, CoreInv
<1>1. /\ InPhase(c, "admitted") /\ conn[c].push # 0 /\ steps' = steps /\ windows' = windows
      /\ \A d \in Conns \ {c} : Keeps(d)
      /\ conn'[c].worker = conn[c].worker /\ conn'[c].push = conn[c].push
      /\ conn'[c].applied = conn[c].applied
  BY EnterEffect DEF Grown, CoreInv, workerVars
<1>2. conn[c].batch = NoBatch /\ conn[c].applied = 0 /\ conn[c].push <= windows[conn[c].worker]
  BY <1>1 DEF CoreInv, SessionInv, InPhase, Processing
<1>3. One(c, b) /\ b # NoBatch
  BY <1>0, <1>1, <1>2, RoundAssumption DEF One
<1>4. /\ BatchGood(b) /\ RoundSize' = RoundSize /\ RoundSize \in Nat /\ batch[b].grads \in Seq(Grads)
      /\ revision' = revision
  BY <1>1, GrownTyped, SameSteps DEF CoreInv, BatchInv
<1>g. g.worker = conn[c].worker /\ g.n = conn[c].push /\ Key(g) = PushKey(c) /\ g \in Grads
  BY <1>0 DEF Key, PushKey
<1>k. PICK h \in Grads : h = g
  BY <1>g
<1> HIDE DEF g
<1>5. PICK n \in Nat : n = Len(batch[b].grads) + 1
  BY <1>4
<1>6. /\ Len(batch'[b].grads) = n /\ DOMAIN batch'[b].grads = 1..n /\ DOMAIN batch[b].grads = 1..(n - 1)
      /\ batch'[b].grads[n] = h /\ n > 0
      /\ \A k \in DOMAIN batch[b].grads : batch'[b].grads[k] = batch[b].grads[k]
      /\ DOMAIN batch'[b].grads = DOMAIN batch[b].grads \cup {n} /\ n \notin DOMAIN batch[b].grads
  <2>1. batch'[b].grads = Append(batch[b].grads, h)
    BY <1>0, <1>k
  <2> QED BY <1>4, <1>5, <2>1
<1>7. SessionInv'
  <2>1. conn'[c].phase \in {"waiting", "applying"}
    BY <1>0
  <2> QED BY <1>0, <1>1, <1>2, <1>3, <2>1, SessionStep DEF CoreInv
<1>8. BatchInv'
  <2>1. current' # NoBatch => ~batch'[current'].claimed
    BY <1>0
  <2>2. Processing(c)' => \A d \in Conns \ {c} : Processing(d) => conn[d].batch # conn'[c].batch
    BY <1>0
  <2>3. OneProcessor'
    BY <1>3, <2>1, <2>2, ProcessorOne DEF CoreInv, BatchInv
  <2>4. RoundSize > 0 => IF batch'[b].claimed THEN Len(batch'[b].grads) = RoundSize
                                              ELSE Len(batch'[b].grads) < RoundSize
    BY <1>0, <1>4, <1>5, <1>6 DEF BatchGood
  <2>5. ASSUME NEW d \in Conns, conn'[d].batch = b
        PROVE  /\ Processing(d)' => ProcessorOf(d, b)'
               /\ \E k \in DOMAIN batch'[b].grads : Key(batch'[b].grads[k]) = PushKey(d)'
    <3>1. CASE d = c
      <4>1. Key(batch'[b].grads[n]) = PushKey(d)' /\ n \in DOMAIN batch'[b].grads
        BY <1>1, <1>6, <1>g, <1>k, <3>1 DEF PushKey
      <4>2. Processing(d)' => ProcessorOf(d, b)'
        BY <1>0, <1>1, <1>2, <1>6, <3>1 DEF Processing, ProcessorOf, InPhase
      <4> QED BY <4>1, <4>2
    <3>2. CASE d # c
      <4>1. Keeps(d) /\ conn[d].batch = b
        BY <1>1, <2>5, <3>2 DEF Keeps
      <4>2. PICK k \in DOMAIN batch[b].grads : Key(batch[b].grads[k]) = PushKey(d)
        BY <1>4, <4>1 DEF BatchGood
      <4> QED BY <1>0, <1>6, <4>1, <4>2 DEF Keeps, Processing, PushKey
    <3> QED BY <3>1, <3>2
  <2>6. BatchGood(b)'
    BY <1>0, <1>4, <2>4, <2>5 DEF BatchGood
  <2> QED BY <1>3, <2>3, <2>6, BatchOne DEF CoreInv
<1>9. ShownInv'
  <2>1. DoneShown(b)'
    BY <1>0 DEF DoneShown
  <2>2. AppliedShown(c)' /\ SnappedShown(c)' /\ ReplyShown(c)'
    BY <1>0, <1>1, <1>2 DEF AppliedShown, SnappedShown, ReplyShown, InPhase
  <2> QED BY <1>0, <1>1, <1>3, <2>1, <2>2, ShownOne DEF CoreInv
<1>10. OnceInv'
  <2>0. Arriving(c) /\ OnceInv
    BY <1>1 DEF Arriving, InPhase, CoreInv
  <2>1. ASSUME NEW a \in Batches, NEW k \in DOMAIN batch'[a].grads
        PROVE  \/ /\ k \in DOMAIN batch[a].grads /\ batch'[a].grads[k] = batch[a].grads[k]
                  /\ Pending(a, k)' => Pending(a, k)
               \/ a = b /\ k = n /\ batch'[a].grads[k] = h
    <3>1. CASE a = b /\ k = n
      BY <1>6, <3>1
    <3>2. CASE ~ (a = b /\ k = n)
      <4>1. k \in DOMAIN batch[a].grads /\ batch'[a].grads[k] = batch[a].grads[k]
            /\ (~batch'[a].done => ~batch[a].done)
        BY <1>0, <1>6, <2>1, <3>2
      <4>2. Pending(a, k)' => Pending(a, k)
        <5> SUFFICES ASSUME Pending(a, k)', NEW d \in Conns, conn[d].batch = a, Processing(d)
                     PROVE  k > conn[d].applied
          BY <4>1 DEF Pending
        <5>1. d # c
          BY <1>1 DEF Processing, InPhase
        <5>2. Keeps(d)
          BY <1>1, <5>1
        <5> QED BY <5>2 DEF Keeps, Pending, Processing
      <4> QED BY <4>1, <4>2
    <3> QED BY <3>1, <3>2
  <2>2. ASSUME NEW d \in Conns, Arriving(d)'
        PROVE  /\ d # c /\ Arriving(d) /\ PushKey(d)' = PushKey(d)
    <3>1. d # c
      BY <1>0, <2>2 DEF Arriving
    <3>2. Keeps(d)
      BY <1>1, <3>1
    <3> QED BY <2>2, <3>1, <3>2 DEF Keeps, Arriving, PushKey
  <2>3. AppliedOnce'
    BY <1>1, <2>0 DEF OnceInv, AppliedOnce
  <2>4. \A i \in DOMAIN steps' : \A k \in DOMAIN steps'[i] :
          steps'[i][k].n <= windows'[steps'[i][k].worker]
    BY <1>1, <2>0 DEF OnceInv
  <2>5. ASSUME NEW a \in Batches, NEW k \in DOMAIN batch'[a].grads
        PROVE  /\ batch'[a].grads[k].n <= windows[batch'[a].grads[k].worker]
               /\ Pending(a, k)' => ~Stepped(Key(batch'[a].grads[k]), revision)
    <3>1. CASE a = b /\ k = n /\ batch'[a].grads[k] = h
      BY <1>2, <1>g, <1>k, <2>0, <3>1 DEF OnceInv
    <3>2. CASE /\ k \in DOMAIN batch[a].grads /\ batch'[a].grads[k] = batch[a].grads[k]
               /\ Pending(a, k)' => Pending(a, k)
      BY <2>0, <3>2 DEF OnceInv
    <3> QED BY <2>1, <3>1, <3>2
  <2>6. ASSUME NEW a \in Batches, NEW e \in Batches, NEW k \in DOMAIN batch'[a].grads,
               NEW l \in DOMAIN batch'[e].grads, Pending(a, k)', Pending(e, l)',
               Key(batch'[a].grads[k]) = Key(batch'[e].grads[l])
        PROVE  a = e /\ k = l
    <3>1. \/ k \in DOMAIN batch[a].grads /\ batch'[a].grads[k] = batch[a].grads[k] /\ Pending(a, k)
          \/ a = b /\ k = n /\ Key(batch'[a].grads[k]) = PushKey(c)
      BY <2>1, <2>6, <1>g, <1>k
    <3>2. \/ l \in DOMAIN batch[e].grads /\ batch'[e].grads[l] = batch[e].grads[l] /\ Pending(e, l)
          \/ e = b /\ l = n /\ Key(batch'[e].grads[l]) = PushKey(c)
      BY <2>1, <2>6, <1>g, <1>k
    <3>3. \A f \in Batches : \A j \in DOMAIN batch[f].grads :
            Pending(f, j) => Key(batch[f].grads[j]) # PushKey(c)
      BY <2>0 DEF OnceInv
    <3> QED BY <2>0, <2>6, <3>1, <3>2, <3>3 DEF OnceInv
  <2>7. ASSUME NEW d \in Conns, Arriving(d)'
        PROVE  /\ ~Stepped(PushKey(d), revision)
               /\ \A a \in Batches : \A k \in DOMAIN batch'[a].grads :
                    Pending(a, k)' => Key(batch'[a].grads[k]) # PushKey(d)
               /\ \A e \in Conns : Arriving(e)' /\ PushKey(d) = PushKey(e) => d = e
    <3>1. d # c /\ Arriving(d) /\ PushKey(d) # PushKey(c)
      BY <2>0, <2>2, <2>7 DEF OnceInv
    <3>2. ASSUME NEW a \in Batches, NEW k \in DOMAIN batch'[a].grads, Pending(a, k)'
          PROVE  Key(batch'[a].grads[k]) # PushKey(d)
      <4>1. CASE a = b /\ k = n /\ batch'[a].grads[k] = h
        BY <1>g, <1>k, <3>1, <4>1
      <4>2. CASE k \in DOMAIN batch[a].grads /\ batch'[a].grads[k] = batch[a].grads[k] /\ Pending(a, k)
        BY <2>0, <3>1, <4>2 DEF OnceInv
      <4> QED BY <2>1, <3>2, <4>1, <4>2
    <3>3. \A e \in Conns : Arriving(e)' /\ PushKey(d) = PushKey(e) => d = e
      BY <2>0, <2>2, <3>1 DEF OnceInv
    <3> QED BY <2>0, <3>1, <3>2, <3>3 DEF OnceInv
  <2>s. \A key : Within(steps', key, revision') <=> Stepped(key, revision)
    BY <1>1, <1>4 DEF Stepped
  <2>8. (\A a \in Batches : \A k \in DOMAIN batch[a].grads :
           LET x == batch[a].grads[k] IN
             /\ x.n <= windows[x.worker]
             /\ Pending(a, k) => ~Stepped(Key(x), revision))'
    BY <1>1, <2>5, <2>s DEF Stepped
  <2>9. \A d \in Conns : Arriving(d)' =>
          /\ ~Stepped(PushKey(d), revision)'
          /\ \A a \in Batches : \A k \in DOMAIN batch'[a].grads :
               Pending(a, k)' => Key(batch'[a].grads[k]) # PushKey(d)'
          /\ \A e \in Conns : Arriving(e)' /\ PushKey(d)' = PushKey(e)' => d = e
    <3> SUFFICES ASSUME NEW d \in Conns, Arriving(d)'
                 PROVE  /\ ~Stepped(PushKey(d), revision)'
                        /\ \A a \in Batches : \A k \in DOMAIN batch'[a].grads :
                             Pending(a, k)' => Key(batch'[a].grads[k]) # PushKey(d)'
                        /\ \A e \in Conns : Arriving(e)' /\ PushKey(d)' = PushKey(e)' => d = e
      OBVIOUS
    <3>1. PushKey(d)' = PushKey(d)
      BY <2>2
    <3>2. \A e \in Conns : Arriving(e)' /\ PushKey(d)' = PushKey(e)' => d = e
      BY <2>2, <2>7, <3>1
    <3>3. ~Stepped(PushKey(d), revision)'
      BY <2>7, <2>s, <3>1 DEF Stepped
    <3> QED BY <2>7, <3>1, <3>2, <3>3
  <2> QED BY <2>3, <2>4, <2>6, <2>8, <2>9 DEF OnceInv
<1>11. RoundsWhole'
  BY <1>1, SameSteps, GrownTyped DEF CoreInv
<1> QED BY <1>7, <1>8, <1>9, <1>10, <1>11 DEF CoreInv

\* The next outer step is of the pushes n+1..m of the batch, in one place so far.
LEMMA ApplyForm ==
  ASSUME Grown, CoreInv, NEW c \in Conns, ApplyNext(c)
  PROVE  \E b \in Batches, n \in Nat, m \in Nat, e \in Seq(Grads) :
           /\ b = conn[c].batch /\ n = conn[c].applied /\ m = conn'[c].applied
           /\ n < m /\ m <= Len(batch[b].grads)
           /\ steps' = Append(steps, e) /\ Len(e) = m - n
           /\ \A j \in 1..(m - n) : e[j] = batch[b].grads[n + j]
           /\ RoundSize > 0 => n = 0 /\ m = Len(batch[b].grads) /\ m = RoundSize
<1>0. PICK b \in Batches : b = conn[c].batch
  BY ApplyEffect DEF Grown, CoreInv
<1>1. PICK n \in Nat : n = conn[c].applied
  BY ApplyEffect DEF Grown, CoreInv
<1>2. PICK sums \in Seq(Grads) : sums = batch[b].grads
  BY <1>0, GrownTyped
<1>3. /\ n < Len(sums) /\ ProcessorOf(c, b)
      /\ RoundSize > 0 => n = 0 /\ conn'[c].applied = Len(sums) /\ steps' = Append(steps, sums)
      /\ ~(RoundSize > 0) => conn'[c].applied = n + 1 /\ steps' = Append(steps, <<sums[n + 1]>>)
  BY <1>0, <1>1, <1>2, ApplyEffect DEF Grown, CoreInv
<1>4. CASE RoundSize > 0
  <2>1. Len(sums) = RoundSize
    BY <1>2, <1>3, <1>4 DEF CoreInv, BatchGood, ProcessorOf, BatchInv
  <2>2. PICK m \in Nat : m = Len(sums)
    BY <1>2
  <2> WITNESS b \in Batches, n \in Nat, m \in Nat, sums \in Seq(Grads)
  <2> QED BY <1>0, <1>1, <1>2, <1>3, <1>4, <2>1, <2>2
<1>5. CASE ~(RoundSize > 0)
  <2>1. PICK m \in Nat : m = n + 1
    OBVIOUS
  <2>2. sums[n + 1] \in Grads
    BY <1>2, <1>3
  <2>3. PICK e \in Seq(Grads) : e = <<sums[n + 1]>>
    <3>1. PICK g \in Grads : g = sums[n + 1]
      BY <2>2
    <3>2. <<g>> \in Seq(Grads)
      OBVIOUS
    <3> QED BY <3>1, <3>2
  <2>4. Len(e) = 1 /\ e[1] = sums[n + 1]
    BY <2>3
  <2>5. \A j \in 1..(m - n) : e[j] = sums[n + j]
    BY <2>1, <2>4
  <2>6. steps' = Append(steps, e) /\ m = conn'[c].applied
    BY <1>3, <1>5, <2>1, <2>3
  <2>7. n < m /\ m <= Len(batch[b].grads) /\ Len(e) = m - n
    BY <1>2, <1>3, <2>1, <2>4
  <2>8. \A j \in 1..(m - n) : e[j] = batch[b].grads[n + j]
    BY <1>2, <2>5
  <2> QED BY <1>0, <1>1, <1>5, <2>6, <2>7, <2>8
<1> QED BY <1>4, <1>5

LEMMA StepsGrow ==
  ASSUME steps \in Seq(Seq(Grads)), NEW e \in Seq(Grads), steps' = Append(steps, e)
  PROVE  /\ revision \in Nat /\ revision' = revision + 1 /\ DOMAIN steps = 1..revision
         /\ DOMAIN steps' = 1..(revision + 1) /\ steps'[revision + 1] = e
         /\ \A i \in 1..revision : steps'[i] = steps[i]
         /\ \A key : \A r \in Nat : r <= revision => (Within(steps', key, r) <=> Stepped(key, r))
         /\ \A key : Within(steps', key, revision')
                       <=> Stepped(key, revision) \/ \E k \in DOMAIN e : Key(e[k]) = key
<1>1. /\ revision \in Nat /\ revision' = revision + 1 /\ DOMAIN steps = 1..revision
      /\ DOMAIN steps' = 1..(revision + 1) /\ steps'[revision + 1] = e
      /\ \A i \in 1..revision : steps'[i] = steps[i]
  BY DEF revision
<1>2. ASSUME NEW key, NEW r \in Nat, r <= revision
      PROVE  Within(steps', key, r) <=> Stepped(key, r)
  <2>1. \A i \in 1..r : steps'[i] = steps[i]
    BY <1>1, <1>2
  <2> QED BY <2>1 DEF Within, Stepped
<1>3. ASSUME NEW key
      PROVE  Within(steps', key, revision')
               <=> Stepped(key, revision) \/ \E k \in DOMAIN e : Key(e[k]) = key
  <2>1. 1..revision' = 1..revision \cup {revision + 1}
    BY <1>1
  <2> QED BY <1>1, <2>1 DEF Within, Stepped
<1> QED BY <1>1, <1>2, <1>3

LEMMA CoreApply ==
  ASSUME Grown, CoreInv, NEW c \in Conns, ApplyNext(c)
  PROVE  CoreInv'
<1>0. PICK b \in Batches, n \in Nat, m \in Nat, e \in Seq(Grads) :
        /\ b = conn[c].batch /\ n = conn[c].applied /\ m = conn'[c].applied
        /\ n < m /\ m <= Len(batch[b].grads)
        /\ steps' = Append(steps, e) /\ Len(e) = m - n
        /\ \A j \in 1..(m - n) : e[j] = batch[b].grads[n + j]
        /\ RoundSize > 0 => n = 0 /\ m = Len(batch[b].grads) /\ m = RoundSize
  BY ApplyForm
<1>1. /\ InPhase(c, "applying") /\ current' = current /\ batch' = batch /\ windows' = windows
      /\ ProcessorOf(c, b)
      /\ \A d \in Conns \ {c} : Keeps(d)
      /\ conn'[c].phase = "applying" /\ conn'[c].worker = conn[c].worker
      /\ conn'[c].push = conn[c].push /\ conn'[c].batch = b
  BY <1>0, ApplyEffect DEF Grown, CoreInv, workerVars
<1>2. One(c, b) /\ b # NoBatch
  BY <1>0, <1>1, RoundAssumption DEF One
<1>3. conn[c].push # 0 /\ conn[c].push <= windows[conn[c].worker] /\ conn[c].batch # NoBatch
  BY <1>0, <1>2 DEF CoreInv, SessionInv
<1>4. /\ BatchGood(b) /\ RoundSize' = RoundSize /\ RoundSize \in Nat /\ batch[b].grads \in Seq(Grads)
      /\ steps \in Seq(Seq(Grads)) /\ Processing(c)
  BY <1>1, GrownTyped DEF CoreInv, Processing, InPhase, BatchInv
<1>5. \A d \in Conns \ {c} : conn[d].batch = b => ~Processing(d)
  BY <1>0, <1>4 DEF CoreInv, BatchInv, OneProcessor, Processing
<1>s. /\ revision \in Nat /\ revision' = revision + 1 /\ DOMAIN steps = 1..revision
      /\ DOMAIN steps' = 1..(revision + 1) /\ steps'[revision + 1] = e
      /\ \A i \in 1..revision : steps'[i] = steps[i]
      /\ \A key : \A r \in Nat : r <= revision => (Within(steps', key, r) <=> Stepped(key, r))
      /\ \A key : Within(steps', key, revision')
                    <=> Stepped(key, revision) \/ \E k \in DOMAIN e : Key(e[k]) = key
  BY <1>0, <1>4, StepsGrow
<1>e. DOMAIN e = 1..(m - n) /\ \A k \in DOMAIN e : n + k \in DOMAIN batch[b].grads
                                     /\ n + k > n /\ n + k <= m /\ e[k] = batch[b].grads[n + k]
  <2>1. DOMAIN e = 1..(m - n)
    BY <1>0
  <2>2. DOMAIN batch[b].grads = 1..Len(batch[b].grads) /\ Len(batch[b].grads) \in Nat
    BY <1>4
  <2>3. \A k \in 1..(m - n) : n + k > n /\ n + k <= m /\ n + k \in 1..Len(batch[b].grads)
    <3>1. PICK len \in Nat : len = Len(batch[b].grads)
      BY <2>2
    <3>2. n < m /\ m <= len
      BY <1>0, <3>1
    <3>3. \A k \in 1..(m - n) : n + k > n /\ n + k <= m /\ n + k \in 1..len
      BY <3>2
    <3> QED BY <3>1, <3>3
  <2> QED BY <1>0, <2>1, <2>2, <2>3
<1>6. SessionInv'
  BY <1>1, <1>2, <1>3, SessionStep DEF CoreInv
<1>7. BatchInv'
  <2>1. current' # NoBatch => ~batch'[current'].claimed
    BY <1>1 DEF CoreInv, BatchInv, OneProcessor
  <2>2. OneProcessor'
    BY <1>1, <1>2, <1>5, <2>1, ProcessorOne DEF CoreInv, BatchInv
  <2>3. ASSUME NEW d \in Conns, conn'[d].batch = b
        PROVE  /\ Processing(d)' => ProcessorOf(d, b)'
               /\ \E k \in DOMAIN batch'[b].grads : Key(batch'[b].grads[k]) = PushKey(d)'
    <3>1. CASE d = c
      <4>1. ProcessorOf(d, b)'
        BY <1>0, <1>1, <1>4, <3>1 DEF ProcessorOf, InPhase
      <4> QED BY <1>0, <1>1, <1>4, <3>1, <4>1 DEF BatchGood, PushKey
    <3>2. CASE d # c
      <4>1. Keeps(d) /\ conn[d].batch = b
        BY <1>1, <2>3, <3>2 DEF Keeps
      <4> QED BY <1>1, <1>4, <1>5, <3>2, <4>1 DEF BatchGood, Processing, Keeps, PushKey
    <3> QED BY <3>1, <3>2
  <2>4. BatchGood(b)'
    BY <1>1, <1>4, <2>3 DEF BatchGood
  <2> QED BY <1>2, <2>2, <2>4, BatchOne DEF CoreInv
<1>8. ShownInv'
  <2>1. ASSUME NEW a \in Batches PROVE DoneShown(a)'
    <3>1. DoneShown(a) /\ batch'[a] = batch[a] /\ batch[a].revision \in Nat
      BY <1>1, GrownTyped DEF CoreInv, ShownInv
    <3> QED BY <1>s, <3>1 DEF DoneShown, Stepped
  <2>2. ASSUME NEW d \in Conns, d # c PROVE AppliedShown(d)' /\ SnappedShown(d)' /\ ReplyShown(d)'
    <3>1. /\ Keeps(d) /\ AppliedShown(d) /\ SnappedShown(d) /\ ReplyShown(d) /\ batch' = batch
          /\ conn[d].revision \in Nat
      BY <1>1, <2>2, GrownTyped DEF CoreInv, Sessions, ShownInv
    <3>2. AppliedShown(d)'
      BY <1>s, <3>1 DEF AppliedShown, Keeps, Processing, Stepped
    <3>3. SnappedShown(d)'
      BY <1>s, <3>1 DEF SnappedShown, Keeps, InPhase, Stepped
    <3>4. ReplyShown(d)'
      BY <1>s, <3>1 DEF ReplyShown, Keeps, PushKey, Stepped
    <3> QED BY <3>2, <3>3, <3>4
  <2>3. AppliedShown(c)'
    <3> SUFFICES ASSUME NEW k \in 1..m PROVE Within(steps', Key(batch[b].grads[k]), revision')
      BY <1>0, <1>1 DEF AppliedShown, Stepped
    <3>1. CASE k <= n
      <4>1. Stepped(Key(batch[b].grads[k]), revision)
        BY <1>0, <1>4, <3>1 DEF CoreInv, AppliedShown, ShownInv
      <4> QED BY <1>s, <4>1
    <3>2. CASE k > n
      <4>1. PICK j \in DOMAIN e : j = k - n
        BY <1>e, <3>2
      <4>2. e[j] = batch[b].grads[k]
        BY <1>e, <4>1
      <4> QED BY <1>s, <4>2
    <3> QED BY <3>1, <3>2
  <2>4. SnappedShown(c)' /\ ReplyShown(c)'
    BY <1>1 DEF SnappedShown, ReplyShown, InPhase
  <2> QED BY <2>1, <2>2, <2>3, <2>4 DEF ShownInv
<1>9. OnceInv'
  <2>0. OnceInv
    BY DEF CoreInv
  <2>1. \A j \in 1..(m - n) : Pending(b, n + j)
    BY <1>0, <1>1, <1>5, <1>e DEF Pending, ProcessorOf
  <2>2. ASSUME NEW a \in Batches, NEW k \in DOMAIN batch'[a].grads, Pending(a, k)'
        PROVE  Pending(a, k) /\ (a = b => k > m)
    <3>1. a = b => k > m
      BY <1>0, <1>1, <2>2 DEF Pending, Processing
    <3>2. ASSUME NEW d \in Conns, conn[d].batch = a, Processing(d) PROVE k > conn[d].applied
      <4>1. CASE d = c
        <5>1. k \in Nat /\ a = b
          BY <1>0, <1>1, <1>4, <3>2, <4>1
        <5> QED BY <1>0, <3>1, <4>1, <5>1
      <4>2. CASE d # c
        <5>1. Keeps(d)
          BY <1>1, <4>2
        <5> QED BY <2>2, <3>2, <5>1 DEF Keeps, Pending, Processing
      <4> QED BY <4>1, <4>2
    <3> QED BY <1>1, <2>2, <3>1, <3>2 DEF Pending
  <2>3. ASSUME NEW a \in Batches, NEW k \in DOMAIN batch[a].grads, Pending(a, k)'
        PROVE  \A j \in DOMAIN e : Key(e[j]) # Key(batch[a].grads[k])
    <3> SUFFICES ASSUME NEW j \in DOMAIN e, Key(e[j]) = Key(batch[a].grads[k]) PROVE FALSE
      OBVIOUS
    <3>1. Pending(a, k) /\ (a = b => k > m)
      BY <1>1, <2>2, <2>3
    <3>2. PICK i \in Nat : i = n + j
      BY <1>e
    <3>3. /\ Pending(b, i) /\ i \in DOMAIN batch[b].grads /\ i <= m
          /\ Key(batch[b].grads[i]) = Key(batch[a].grads[k])
      BY <1>e, <2>1, <3>2
    <3>4. a = b /\ k = i
      BY <2>0, <3>1, <3>3 DEF OnceInv
    <3> QED BY <1>0, <3>1, <3>2, <3>3, <3>4
  <2>4. ASSUME NEW d \in Conns, Arriving(d)'
        PROVE  d # c /\ Arriving(d) /\ PushKey(d)' = PushKey(d)
    <3>1. d # c
      BY <1>1, <2>4 DEF Arriving
    <3>2. Keeps(d)
      BY <1>1, <3>1
    <3> QED BY <2>4, <3>1, <3>2 DEF Keeps, Arriving, PushKey
  <2>5. AppliedOnce'
    <3> SUFFICES ASSUME NEW i \in DOMAIN steps', NEW j \in DOMAIN steps',
                        NEW k \in DOMAIN steps'[i], NEW l \in DOMAIN steps'[j],
                        Key(steps'[i][k]) = Key(steps'[j][l])
                 PROVE  i = j /\ k = l
      BY DEF AppliedOnce, Key
    <3>1. ASSUME NEW r \in 1..revision, NEW o \in DOMAIN steps[r], NEW q \in DOMAIN e,
                 Key(steps[r][o]) = Key(e[q])
          PROVE  FALSE
      <4>1. Stepped(Key(e[q]), revision)
        BY <3>1 DEF Stepped, Within
      <4>2. Pending(b, n + q) /\ n + q \in DOMAIN batch[b].grads /\ e[q] = batch[b].grads[n + q]
        BY <1>e, <2>1
      <4> QED BY <2>0, <4>1, <4>2 DEF OnceInv
    <3>2. i \in 1..revision \/ i = revision + 1
      BY <1>s
    <3>3. j \in 1..revision \/ j = revision + 1
      BY <1>s
    <3>4. CASE i \in 1..revision /\ j \in 1..revision
      <4>1. /\ steps[i][k].worker = steps[j][l].worker /\ steps[i][k].n = steps[j][l].n
            /\ i \in DOMAIN steps /\ j \in DOMAIN steps /\ k \in DOMAIN steps[i] /\ l \in DOMAIN steps[j]
        BY <1>s, <3>4 DEF Key
      <4> QED BY <2>0, <4>1 DEF OnceInv, AppliedOnce
    <3>5. CASE i \in 1..revision /\ j = revision + 1
      BY <1>s, <3>1, <3>5
    <3>6. CASE i = revision + 1 /\ j \in 1..revision
      BY <1>s, <3>1, <3>6
    <3>7. CASE i = revision + 1 /\ j = revision + 1
      <4>1. k \in DOMAIN e /\ l \in DOMAIN e /\ Key(e[k]) = Key(e[l])
        BY <1>s, <3>7
      <4>2. PICK p \in Nat, q \in Nat : p = n + k /\ q = n + l
        BY <1>e, <4>1
      <4>3. /\ Pending(b, p) /\ Pending(b, q) /\ p \in DOMAIN batch[b].grads /\ q \in DOMAIN batch[b].grads
            /\ Key(batch[b].grads[p]) = Key(batch[b].grads[q])
        BY <1>e, <2>1, <4>1, <4>2
      <4>4. p = q
        BY <2>0, <4>3 DEF OnceInv
      <4> QED BY <1>e, <3>7, <4>1, <4>2, <4>4
    <3> QED BY <3>2, <3>3, <3>4, <3>5, <3>6, <3>7
  <2>6. ASSUME NEW i \in DOMAIN steps', NEW k \in DOMAIN steps'[i]
        PROVE  steps'[i][k].n <= windows'[steps'[i][k].worker]
    <3>1. CASE i \in 1..revision
      BY <1>1, <1>s, <2>0, <3>1 DEF OnceInv
    <3>2. CASE i = revision + 1
      <4>1. k \in DOMAIN e /\ steps'[i][k] = e[k]
        BY <1>s, <3>2
      <4> QED BY <1>1, <1>e, <2>0, <4>1 DEF OnceInv
    <3> QED BY <1>s, <3>1, <3>2
  <2>7. (\A a \in Batches : \A k \in DOMAIN batch[a].grads :
           LET x == batch[a].grads[k] IN
             /\ x.n <= windows[x.worker]
             /\ Pending(a, k) => ~Stepped(Key(x), revision))'
    <3> SUFFICES ASSUME NEW a \in Batches, NEW k \in DOMAIN batch[a].grads
                 PROVE  /\ batch[a].grads[k].n <= windows[batch[a].grads[k].worker]
                        /\ Pending(a, k)' => ~Within(steps', Key(batch[a].grads[k]), revision')
      BY <1>1 DEF Stepped
    <3>1. Pending(a, k)' => ~Within(steps', Key(batch[a].grads[k]), revision')
      <4> SUFFICES ASSUME Pending(a, k)', Within(steps', Key(batch[a].grads[k]), revision')
                   PROVE  FALSE
        OBVIOUS
      <4>1. ~Stepped(Key(batch[a].grads[k]), revision)
        BY <1>1, <2>0, <2>2 DEF OnceInv
      <4> QED BY <1>s, <2>3, <4>1
    <3> QED BY <2>0, <3>1 DEF OnceInv
  <2>8. ASSUME NEW a \in Batches, NEW f \in Batches, NEW k \in DOMAIN batch'[a].grads,
               NEW l \in DOMAIN batch'[f].grads, Pending(a, k)', Pending(f, l)',
               Key(batch'[a].grads[k]) = Key(batch'[f].grads[l])
        PROVE  a = f /\ k = l
    BY <1>1, <2>0, <2>2, <2>8 DEF OnceInv
  <2>9. ASSUME NEW d \in Conns, Arriving(d)'
        PROVE  /\ ~Stepped(PushKey(d), revision)'
               /\ \A a \in Batches : \A k \in DOMAIN batch'[a].grads :
                    Pending(a, k)' => Key(batch'[a].grads[k]) # PushKey(d)'
               /\ \A f \in Conns : Arriving(f)' /\ PushKey(d)' = PushKey(f)' => d = f
    <3>1. Arriving(d) /\ PushKey(d)' = PushKey(d)
      BY <2>4, <2>9
    <3>2. ~Within(steps', PushKey(d), revision')
      <4>1. ~Stepped(PushKey(d), revision)
        BY <2>0, <3>1 DEF OnceInv
      <4>2. ASSUME NEW j \in DOMAIN e PROVE Key(e[j]) # PushKey(d)
        <5>1. PICK i \in Nat : i = n + j
          BY <1>e
        <5>2. Pending(b, i) /\ i \in DOMAIN batch[b].grads /\ e[j] = batch[b].grads[i]
          BY <1>e, <2>1, <5>1
        <5> QED BY <2>0, <3>1, <5>2 DEF OnceInv
      <4> QED BY <1>s, <4>1, <4>2
    <3>3. \A a \in Batches : \A k \in DOMAIN batch'[a].grads :
            Pending(a, k)' => Key(batch'[a].grads[k]) # PushKey(d)
      BY <1>1, <2>0, <2>2, <3>1 DEF OnceInv
    <3>4. \A f \in Conns : Arriving(f)' /\ PushKey(d)' = PushKey(f)' => d = f
      BY <2>0, <2>4, <3>1 DEF OnceInv
    <3> QED BY <3>1, <3>2, <3>3, <3>4 DEF Stepped
  <2> QED BY <2>5, <2>6, <2>7, <2>8, <2>9 DEF OnceInv
<1>10. RoundsWhole'
  <2> SUFFICES ASSUME RoundSize > 0, NEW i \in DOMAIN steps' PROVE Len(steps'[i]) = RoundSize
    BY <1>4 DEF RoundsWhole
  <2>1. CASE i \in 1..revision
    BY <1>s, <2>1 DEF CoreInv, RoundsWhole
  <2>2. CASE i = revision + 1
    BY <1>0, <1>s, <2>2
  <2> QED BY <1>s, <2>1, <2>2
<1> QED BY <1>6, <1>7, <1>8, <1>9, <1>10 DEF CoreInv

-----------------------------------------------------------------------------
(* The invariant that needs no hypothesis. *)

LEMMA GrownStep ==
  ASSUME Typed, steps' \in Seq(Seq(Grads)), current' \in Batches \cup {NoBatch},
         batch' \in [Batches -> BatchObjects], conn' \in [Conns -> Sessions],
         baseline' \in [Workers -> Int], resync' \in [Workers -> BOOLEAN],
         call' \in [Workers -> Conns \cup {NoConn}], DOMAIN windows' = Workers,
         \A u \in Workers : windows'[u] \in 0..scenario.windows[u] /\ windows'[u] >= windows[u],
         \/ UNCHANGED scenario
         \/ scenario.call > 0 /\ scenario' = [scenario EXCEPT !.call = @ - 1, !.abandoned = TRUE]
         \/ scenario.step > 0 /\ scenario' = [scenario EXCEPT !.step = @ - 1]
  PROVE  Grown
<1>1. /\ scenario \in [round: Nat, sessions: Nat, windows: [Workers -> Nat], call: Nat, step: Nat,
                       abandoned: BOOLEAN]
      /\ \E s \in Scenarios : s.round = scenario.round /\ s.windows = scenario.windows
  BY DEF Typed, ScenarioInv
<1>2. /\ scenario' \in [round: Nat, sessions: Nat, windows: [Workers -> Nat], call: Nat, step: Nat,
                        abandoned: BOOLEAN]
      /\ scenario'.round = scenario.round /\ scenario'.windows = scenario.windows
  <2>1. CASE UNCHANGED scenario
    BY <1>1, <2>1
  <2>2. CASE scenario.call > 0 /\ scenario' = [scenario EXCEPT !.call = @ - 1, !.abandoned = TRUE]
    <3>1. PICK n \in Nat : n = scenario.call - 1
      BY <1>1, <2>2
    <3>2. scenario' = [scenario EXCEPT !.call = n, !.abandoned = TRUE]
      BY <2>2, <3>1
    <3> QED BY <1>1, <3>2
  <2>3. CASE scenario.step > 0 /\ scenario' = [scenario EXCEPT !.step = @ - 1]
    <3>1. PICK n \in Nat : n = scenario.step - 1
      BY <1>1, <2>3
    <3>2. scenario' = [scenario EXCEPT !.step = n]
      BY <2>3, <3>1
    <3> QED BY <1>1, <3>2
  <2> QED BY <2>1, <2>2, <2>3
<1>3. TypeOK'
  BY <1>2 DEF TypeOK
<1>4. ScenarioInv'
  BY <1>1, <1>2 DEF ScenarioInv
<1> QED BY <1>2, <1>3, <1>4 DEF Grown, Typed

LEMMA GrownServer ==
  ASSUME Typed, steps' \in Seq(Seq(Grads)), current' \in Batches \cup {NoBatch},
         batch' \in [Batches -> BatchObjects], conn' \in [Conns -> Sessions], UNCHANGED workerVars,
         \/ UNCHANGED scenario
         \/ scenario.step > 0 /\ scenario' = [scenario EXCEPT !.step = @ - 1]
  PROVE  Grown
<1>1. /\ baseline' = baseline /\ resync' = resync /\ call' = call /\ windows' = windows
  BY DEF workerVars
<1>2. /\ baseline \in [Workers -> Int] /\ resync \in [Workers -> BOOLEAN]
      /\ call \in [Workers -> Conns \cup {NoConn}] /\ DOMAIN windows = Workers
      /\ scenario.windows \in [Workers -> Nat]
      /\ \A u \in Workers : windows[u] \in 0..scenario.windows[u]
  BY DEF Typed, TypeOK, ScenarioInv
<1>3. \A u \in Workers : windows'[u] \in 0..scenario.windows[u] /\ windows'[u] >= windows[u]
  BY <1>1, <1>2
<1> QED BY <1>1, <1>2, <1>3, GrownStep

LEMMA CoreInit ==
  ASSUME Init PROVE Typed /\ CoreInv
<1>1. /\ steps = <<>> /\ current = NoBatch /\ batch = [b \in Batches |-> EmptyBatch]
      /\ conn = [c \in Conns |-> FreeSession] /\ baseline = [w \in Workers |-> -1]
      /\ resync = [w \in Workers |-> FALSE] /\ call = [w \in Workers |-> NoConn]
      /\ windows = [w \in Workers |-> 0] /\ scenario \in Scenarios
  BY DEF Init
<1>2. /\ scenario \in [round: Nat, sessions: Nat, windows: [Workers -> Nat], call: Nat, step: Nat,
                       abandoned: BOOLEAN]
      /\ scenario.windows \in [Workers -> Nat] /\ scenario.round \in Nat
  BY <1>1, RoundAssumption
<1>3. TypeOK
  <2>1. <<>> \in Seq(Seq(Grads)) /\ current \in Batches \cup {NoBatch}
    BY <1>1
  <2>2. batch \in [Batches -> BatchObjects] /\ conn \in [Conns -> Sessions]
    BY <1>1, FreeTyped, EmptyTyped
  <2>3. \A w \in Workers : windows[w] \in 0..scenario.windows[w]
    BY <1>1, <1>2
  <2> QED BY <1>1, <2>1, <2>2, <2>3 DEF TypeOK
<1>4. ScenarioInv
  BY <1>1, <1>2 DEF ScenarioInv
<1>5. \A c \in Conns : conn[c] = FreeSession /\ ~Processing(c) /\ ~Arriving(c)
                       /\ conn[c].phase = "free" /\ conn[c].batch = NoBatch
  BY <1>1, FreeTyped DEF Processing, Arriving
<1>6. SessionInv
  BY <1>3, <1>4, <1>5, FreeTyped, FreePush DEF SessionInv, Typed
<1>7. \A b \in Batches : batch[b] = EmptyBatch /\ batch[b].grads = <<>>
                         /\ DOMAIN batch[b].grads = {} /\ Len(batch[b].grads) = 0
                         /\ ~batch[b].claimed /\ ~batch[b].done
  BY <1>1, EmptyTyped
<1>8. BatchInv
  <2>1. OneProcessor
    BY <1>1, <1>5 DEF OneProcessor, Processing
  <2>2. RoundSize \in Nat /\ NoBatch \notin Batches
    BY <1>2, RoundAssumption DEF RoundSize
  <2>3. \A b \in Batches : BatchGood(b)
    BY <1>5, <1>7, <2>2 DEF BatchGood
  <2> QED BY <2>1, <2>3 DEF BatchInv
<1>9. ShownInv
  <2>1. \A b \in Batches : DoneShown(b)
    BY <1>7 DEF DoneShown
  <2>2. \A c \in Conns : AppliedShown(c) /\ SnappedShown(c) /\ ReplyShown(c)
    BY <1>5 DEF AppliedShown, SnappedShown, ReplyShown, InPhase
  <2> QED BY <2>1, <2>2 DEF ShownInv
<1>10. OnceInv
  <2>1. DOMAIN steps = {}
    BY <1>1
  <2> QED BY <1>5, <1>7, <2>1 DEF OnceInv, AppliedOnce
<1>11. RoundsWhole
  BY <1>1 DEF RoundsWhole
<1> QED BY <1>3, <1>4, <1>6, <1>8, <1>9, <1>10, <1>11 DEF Typed, CoreInv

LEMMA PublishSteps ==
  ASSUME Typed, SessionInv, NEW c \in Conns, Publish(c) \/ FailProcessing(c)
  PROVE  /\ PublishStep(c)
         /\ \/ scenario' = scenario
            \/ scenario.step > 0 /\ scenario' = [scenario EXCEPT !.step = @ - 1]
<1>t. conn[c] \in Sessions /\ conn[c].push <= windows[conn[c].worker]
  BY DEF Typed, TypeOK, SessionInv
<1>1. CASE Publish(c)
  <2> DEFINE s == [conn[c] EXCEPT !.phase = "published", !.batch = NoBatch, !.applied = 0]
  <2>1. InPhase(c, "snapped") /\ scenario' = scenario
    BY <1>1 DEF Publish
  <2>2. /\ s \in Sessions /\ s.phase = "published" /\ s.batch = NoBatch /\ s.applied = 0
        /\ s.worker = conn[c].worker /\ s.push = conn[c].push /\ s.revision = conn[c].revision
    BY <1>t DEF Sessions, Phases
  <2>3. PublishAs(c, s, FALSE)
    BY <1>1 DEF Publish
  <2> HIDE DEF s
  <2> QED BY <1>t, <2>1, <2>2, <2>3 DEF PublishStep, Processing, InPhase
<1>2. CASE FailProcessing(c)
  <2>1. PICK s \in Sessions : s = Closed(c)
    BY ClosedForm
  <2>2. /\ s.phase \in {"closed", "free"} /\ s.batch = NoBatch /\ s.applied = 0
        /\ s.push <= windows[s.worker]
        /\ s.phase = "free" => ~Waiting(c)
        /\ s.phase # "free" => s.worker = conn[c].worker /\ s.push = conn[c].push
    BY <2>1, ClosedForm, ClosedPush, FreeTyped
  <2>3. /\ PublishAs(c, s, TRUE) /\ InPhase(c, "applying") /\ scenario.step > 0
        /\ scenario' = [scenario EXCEPT !.step = @ - 1]
    BY <1>2, <2>1 DEF FailProcessing
  <2>4. PublishStep(c)
    BY <2>2, <2>3 DEF PublishStep, Processing, InPhase
  <2> QED BY <2>3, <2>4
<1> QED BY <1>1, <1>2

LEMMA CoreNext ==
  ASSUME Typed, CoreInv, [Next]_vars
  PROVE  Grown /\ CoreInv'
<1>t. /\ steps \in Seq(Seq(Grads)) /\ current \in Batches \cup {NoBatch}
      /\ batch \in [Batches -> BatchObjects] /\ conn \in [Conns -> Sessions]
      /\ baseline \in [Workers -> Int] /\ resync \in [Workers -> BOOLEAN]
      /\ call \in [Workers -> Conns \cup {NoConn}] /\ DOMAIN windows = Workers
      /\ scenario.windows \in [Workers -> Nat]
      /\ \A u \in Workers : windows[u] \in 0..scenario.windows[u]
  BY DEF Typed, TypeOK, ScenarioInv
<1>i. SessionInv /\ BatchInv /\ ReplyShowsPush
  BY ReplyForm DEF CoreInv, ShownInv
<1>1. ASSUME NEW w \in Workers, NEW c \in Conns,
             \/ StartCall(w, c) \/ Adopt(w) \/ CallFails(w)
             \/ Admit(c) \/ RefuseBusy(c) \/ HandlePull(c) \/ SendReply(c)
      PROVE  Grown /\ CoreInv'
  <2>1. /\ \E d \in Conns : Elsewhere(d)
        /\ \A u \in Workers : windows'[u] \in 0..scenario.windows[u] /\ windows'[u] >= windows[u]
        /\ DOMAIN windows' = Workers /\ UNCHANGED <<roundVars, scenario>>
        /\ baseline' \in [Workers -> Int] /\ resync' \in [Workers -> BOOLEAN]
        /\ call' \in [Workers -> Conns \cup {NoConn}]
    BY <1>1, <1>i, ElsewhereSteps
  <2>2. conn' \in [Conns -> Sessions] /\ steps' = steps /\ current' = current /\ batch' = batch
    BY <2>1 DEF Elsewhere, Outside, roundVars
  <2>3. Grown
    BY <1>t, <2>1, <2>2, GrownStep
  <2> QED BY <2>1, <2>3, CoreElsewhere
<1>2. ASSUME NEW w \in Workers, CallTimesOut(w) PROVE Grown /\ CoreInv'
  <2>1. /\ UNCHANGED <<roundVars, baseline, windows>>
        /\ scenario' = [scenario EXCEPT !.call = @ - 1, !.abandoned = TRUE] /\ scenario.call > 0
        /\ resync' = [resync EXCEPT ![w] = HasBaseline(w)] /\ call' = [call EXCEPT ![w] = NoConn]
        /\ \/ UNCHANGED conn
           \/ \E c \in Conns : Outside(c) /\ conn'[c] = FreeSession
    BY <1>2, <1>i, TimeoutEffect
  <2>2. steps' = steps /\ current' = current /\ batch' = batch /\ windows' = windows
        /\ baseline' = baseline
    BY <2>1 DEF roundVars
  <2>3. conn' \in [Conns -> Sessions]
    BY <1>t, <2>1 DEF Outside
  <2>4. HasBaseline(w) \in BOOLEAN
    BY DEF HasBaseline
  <2>5. resync' \in [Workers -> BOOLEAN] /\ call' \in [Workers -> Conns \cup {NoConn}]
    BY <1>t, <2>1, <2>4
  <2>6. \A u \in Workers : windows'[u] \in 0..scenario.windows[u] /\ windows'[u] >= windows[u]
    BY <1>t, <2>2
  <2>7. Grown
    BY <1>t, <2>1, <2>2, <2>3, <2>5, <2>6, GrownStep
  <2>8. CASE UNCHANGED conn
    BY <2>1, <2>7, <2>8, CoreStill DEF roundVars
  <2>9. CASE \E c \in Conns : Outside(c) /\ conn'[c] = FreeSession
    <3>1. PICK c \in Conns : Outside(c) /\ conn'[c] = FreeSession
      BY <2>9
    <3>2. Elsewhere(c)
      BY <2>2, <3>1, FreeTyped, FreePush DEF Elsewhere
    <3> QED BY <2>7, <3>2, CoreElsewhere
  <2> QED BY <2>1, <2>8, <2>9
<1>3. ASSUME NEW c \in Conns, EnterBatch(c) PROVE Grown /\ CoreInv'
  <2>1. /\ steps' = steps /\ UNCHANGED <<workerVars, scenario>>
        /\ conn' \in [Conns -> Sessions] /\ batch' \in [Batches -> BatchObjects]
        /\ current' \in Batches \cup {NoBatch}
    BY <1>3, <1>i, EnterEffect
  <2>2. Grown
    BY <1>t, <2>1, GrownServer
  <2> QED BY <1>3, <2>2, CoreEnter
<1>4. ASSUME NEW c \in Conns, Wake(c) PROVE Grown /\ CoreInv'
  <2>1. CASE batch[conn[c].batch].done
    <3>1. /\ steps' = steps /\ current' = current /\ UNCHANGED <<workerVars, scenario>>
          /\ conn' \in [Conns -> Sessions] /\ batch' \in [Batches -> BatchObjects]
      BY <1>4, <1>i, <2>1, LeaveEffect
    <3>2. Grown
      BY <1>t, <3>1, GrownServer
    <3> QED BY <1>4, <2>1, <3>2, CoreLeave
  <2>2. CASE ~batch[conn[c].batch].done
    <3>1. /\ steps' = steps /\ current' \in {current, NoBatch} /\ UNCHANGED <<workerVars, scenario>>
          /\ conn' \in [Conns -> Sessions] /\ batch' \in [Batches -> BatchObjects]
      BY <1>4, <1>i, <2>2, LookEffect
    <3>2. current' \in Batches \cup {NoBatch}
      BY <1>t, <3>1
    <3>3. Grown
      BY <1>t, <3>1, <3>2, GrownServer
    <3> QED BY <1>4, <2>2, <3>3, CoreLook
  <2> QED BY <2>1, <2>2
<1>5. ASSUME NEW c \in Conns, ApplyNext(c) PROVE Grown /\ CoreInv'
  <2>1. /\ UNCHANGED <<current, batch, workerVars, scenario>> /\ conn' \in [Conns -> Sessions]
    BY <1>5, <1>i, ApplyEffect
  <2>2. steps' \in Seq(Seq(Grads))
    <3>1. PICK b \in Batches : b = conn[c].batch
      BY <1>5, <1>i, ApplyEffect
    <3>2. PICK n \in Nat : n = conn[c].applied
      BY <1>5, <1>i, ApplyEffect
    <3>3. PICK sums \in Seq(Grads) : sums = batch[b].grads
      BY <1>5, <1>i, <3>1, ApplyEffect
    <3>4. /\ n < Len(sums)
          /\ steps' = Append(steps, sums) \/ steps' = Append(steps, <<sums[n + 1]>>)
      BY <1>5, <1>i, <3>1, <3>2, <3>3, ApplyEffect
    <3>5. PICK g \in Grads : g = sums[n + 1]
      BY <3>2, <3>3, <3>4
    <3>6. <<g>> \in Seq(Grads)
      OBVIOUS
    <3>7. PICK e \in Seq(Grads) : steps' = Append(steps, e)
      BY <3>3, <3>4, <3>5, <3>6
    <3> HIDE DEF Grads
    <3> QED BY <1>t, <3>7
  <2>3. Grown
    BY <1>t, <2>1, <2>2, GrownServer
  <2> QED BY <1>5, <2>3, CoreApply
<1>6. ASSUME NEW c \in Conns, TakeSnapshot(c) PROVE Grown /\ CoreInv'
  <2>1. /\ steps' = steps /\ current' = current /\ UNCHANGED <<workerVars, scenario>>
        /\ conn' \in [Conns -> Sessions] /\ batch' \in [Batches -> BatchObjects]
    BY <1>6, <1>i, SnapshotEffect
  <2>2. Grown
    BY <1>t, <2>1, GrownServer
  <2> QED BY <1>6, <2>2, CoreSnapshot
<1>7. ASSUME NEW c \in Conns, PublishStep(c),
             \/ scenario' = scenario
             \/ scenario.step > 0 /\ scenario' = [scenario EXCEPT !.step = @ - 1]
      PROVE  Grown /\ CoreInv'
  <2>1. PICK s \in Sessions, error \in BOOLEAN :
          s.batch = NoBatch /\ PublishAs(c, s, error) /\ conn[c].phase \in {"applying", "snapped"}
    BY <1>7 DEF PublishStep, Processing
  <2>2. /\ steps' = steps /\ current' = current /\ UNCHANGED workerVars
        /\ conn' \in [Conns -> Sessions] /\ batch' \in [Batches -> BatchObjects]
    BY <1>i, <2>1, PublishEffect
  <2>3. Grown
    BY <1>t, <1>7, <2>2, GrownServer
  <2> QED BY <1>7, <2>3, CorePublish
<1>8. ASSUME NEW c \in Conns, Publish(c) \/ FailProcessing(c) PROVE Grown /\ CoreInv'
  BY <1>7, <1>8, <1>i, PublishSteps
<1>10. ASSUME NEW b \in Batches, Expire(b) PROVE Grown /\ CoreInv'
  <2>1. /\ steps' = steps /\ current' = current /\ UNCHANGED <<workerVars, scenario>>
        /\ conn' \in [Conns -> Sessions] /\ batch' \in [Batches -> BatchObjects]
    BY <1>10, ExpireEffect
  <2>2. Grown
    BY <1>t, <2>1, GrownServer
  <2> QED BY <1>10, <2>2, CoreExpire
<1>11. CASE UNCHANGED vars
  <2>1. UNCHANGED <<roundVars, conn, workerVars, scenario>>
    BY <1>11 DEF vars
  <2>2. Grown
    BY <1>t, <2>1, GrownServer DEF roundVars
  <2> QED BY <2>1, <2>2, CoreStill
<1>12. CASE Next
  <2>1. CASE \E w \in Workers, c \in Conns : StartCall(w, c)
    BY <1>1, <2>1
  <2>2. CASE \E w \in Workers : WorkerStep(w) \/ CallTimesOut(w)
    <3>1. PICK w \in Workers : Adopt(w) \/ CallFails(w) \/ CallTimesOut(w)
      BY <2>2 DEF WorkerStep
    <3>2. CASE CallTimesOut(w)
      BY <1>2, <3>2
    <3>3. CASE Adopt(w) \/ CallFails(w)
      <4>1. call[w] \in Conns
        BY <3>3, CallTyped DEF Adopt, CallFails
      <4> QED BY <1>1, <3>3, <4>1
    <3> QED BY <3>1, <3>2, <3>3
  <2>3. CASE \E c \in Conns : ServerStep(c) \/ FailProcessing(c)
    <3>1. PICK c \in Conns : ServerStep(c) \/ FailProcessing(c)
      BY <2>3
    <3>2. CASE Admit(c) \/ RefuseBusy(c) \/ HandlePull(c) \/ SendReply(c)
      <4>1. PICK w \in Workers : w = CHOOSE u \in Workers : TRUE
        BY SomeWorker
      <4> QED BY <1>1, <3>2, <4>1
    <3>3. CASE EnterBatch(c) \/ Wake(c) \/ ApplyNext(c) \/ TakeSnapshot(c) \/ Publish(c)
      BY <1>3, <1>4, <1>5, <1>6, <1>8, <3>3
    <3>4. CASE FailProcessing(c)
      BY <1>8, <3>4
    <3> QED BY <3>1, <3>2, <3>3, <3>4 DEF ServerStep
  <2>4. CASE \E b \in Batches : Expire(b)
    BY <1>10, <2>4
  <2> QED BY <1>12, <2>1, <2>2, <2>3, <2>4 DEF Next
<1> QED BY <1>11, <1>12

\* For any workers, handler threads and settings: a round is one outer step
\* over all its pushes and nothing else, whoever is late, leaves or fails; no
\* push is applied twice; a batch has one processor; and every member that is
\* told "applied" is told of steps that contain its push.
THEOREM RoundsAreWhole ==
  Spec => [](TypeOK /\ RoundsWhole /\ OneProcessor /\ AppliedOnce /\ ReplyShowsPush)
<1>1. Init => Typed /\ CoreInv
  BY CoreInit
<1>2. Typed /\ CoreInv /\ [Next]_vars => Typed' /\ CoreInv'
  BY CoreNext DEF Grown
<1>3. Typed /\ CoreInv => TypeOK /\ RoundsWhole /\ OneProcessor /\ AppliedOnce /\ ReplyShowsPush
  BY ReplyForm DEF Typed, CoreInv, BatchInv, OnceInv, ShownInv
<1> QED BY <1>1, <1>2, <1>3, PTL DEF Spec

-----------------------------------------------------------------------------
(* A round that needs all workers averages pushes of one model. *)

\* The batches, and the members that stay in them.
LEMMA ModelBatches ==
  ASSUME NEW c, NEW b, One(c, b), CoreInv, OneModel, UNCHANGED steps,
         scenario'.abandoned = scenario.abandoned,
         b \in Batches =>
           /\ \A k \in DOMAIN batch'[b].grads : EntryAt(b, k)'
           /\ \A d \in Conns \ {c} : conn[d].batch = b => MemberAt(d)',
         c \in Conns => MemberAt(c)'
  PROVE  /\ OneModelPerRound' /\ \A d \in Conns : MemberAt(d)'
         /\ \A a \in Batches : \A k \in DOMAIN batch'[a].grads : EntryAt(a, k)'
<1>1. /\ revision' = revision /\ RoundSize' = RoundSize /\ NoBatch \notin Batches /\ NoConn \notin Conns
      /\ conn \in [Conns -> Sessions]
  BY SameSteps, GrownTyped, RoundAssumption DEF One
<1>2. OneModelPerRound'
  BY <1>1 DEF OneModel, OneModelPerRound
<1>3. ASSUME NEW d \in Conns, d # c PROVE MemberAt(d)'
  <2>1. Keeps(d) /\ MemberAt(d) /\ conn[d].batch \in Batches \cup {NoBatch}
    BY <1>1, <1>3 DEF One, OneModel, Sessions
  <2>2. CASE conn[d].batch = NoBatch
    BY <2>1, <2>2 DEF MemberAt, Keeps
  <2>3. CASE conn[d].batch = b
    BY <1>1, <1>3, <2>1, <2>2, <2>3
  <2>4. CASE conn[d].batch \in Batches /\ conn[d].batch # b
    <3>1. PICK a \in Batches : a = conn[d].batch
      BY <2>4
    <3>2. batch'[a] = batch[a] /\ \A k : Pending(a, k)' => Pending(a, k)
      BY <2>4, <3>1, PendingOther DEF One
    <3> QED BY <1>1, <2>1, <3>1, <3>2 DEF MemberAt, Keeps
  <2> QED BY <2>1, <2>2, <2>3, <2>4
<1>4. ASSUME NEW a \in Batches, a # b, NEW k \in DOMAIN batch'[a].grads PROVE EntryAt(a, k)'
  <2>1. batch'[a] = batch[a] /\ EntryAt(a, k)
    BY <1>4 DEF One, OneModel
  <2>2. SUFFICES ASSUME ~batch[a].done
                 PROVE  \E d \in Conns : /\ conn'[d].batch = a /\ PushKey(d)' = Key(batch[a].grads[k])
                                         /\ conn'[d].basis = batch[a].grads[k].basis
    BY <2>1 DEF EntryAt
  <2>3. PICK d \in Conns : /\ conn[d].batch = a /\ PushKey(d) = Key(batch[a].grads[k])
                           /\ conn[d].basis = batch[a].grads[k].basis
    BY <2>1, <2>2 DEF EntryAt
  <2>4. Keeps(d)
    BY <1>1, <1>4, <2>3 DEF One
  <2> QED BY <2>3, <2>4 DEF Keeps, PushKey
<1> QED BY <1>2, <1>3, <1>4

\* The sessions of a step of the server: it calls nobody.
LEMMA ModelSessions ==
  ASSUME NEW c \in Conns, NEW b, One(c, b), OneModel, UNCHANGED <<steps, baseline, resync, call>>,
         ~InPhase(c, "free"),
         \/ conn'[c].phase = "free" /\ ~Waiting(c)
         \/ /\ conn'[c].phase # "free" /\ conn'[c].worker = conn[c].worker
            /\ conn'[c].push = conn[c].push,
         conn'[c].phase \in {"sent", "admitted"} => (Arriving(c) /\ conn'[c].basis = conn[c].basis)
                                                     \/ conn'[c].push = 0,
         conn'[c].phase \in {"published", "answered", "snapped"} => conn'[c].revision = revision
  PROVE  (\A w \in Workers : WorkerAt(w)') /\ \A d \in Conns : SessionAt(d)'
<1>1. /\ revision' = revision /\ NoConn \notin Conns /\ conn \in [Conns -> Sessions]
      /\ conn' \in [Conns -> Sessions]
      /\ baseline' = baseline /\ resync' = resync /\ call' = call
      /\ call \in [Workers -> Conns \cup {NoConn}]
  BY SameSteps, GrownTyped, RoundAssumption DEF One, Grown, Typed, TypeOK
<1>2. Partners' = Partners
  BY DEF One, Grown, Partners
<1>3. \A w : HasBaseline(w)' <=> HasBaseline(w)
  BY <1>1 DEF HasBaseline
<1>4. ASSUME NEW w \in Workers PROVE WorkerAt(w)'
  <2>1. WorkerAt(w)
    BY DEF OneModel
  <2>2. ASSUME call[w] # NoConn
        PROVE  conn'[call[w]].worker = w /\ conn'[call[w]].phase # "free"
    <3>1. call[w] \in Conns
      BY <1>1, <2>2
    <3>2. CASE call[w] = c
      BY <2>1, <2>2, <3>2 DEF WorkerAt, Waiting
    <3>3. CASE call[w] # c
      <4>1. Keeps(call[w])
        BY <3>1, <3>3 DEF One
      <4> QED BY <2>1, <2>2, <4>1 DEF WorkerAt, Keeps, InPhase
    <3> QED BY <3>2, <3>3
  <2> QED BY <1>1, <1>2, <1>3, <2>1, <2>2 DEF WorkerAt, InPhase
<1>5. ASSUME NEW d \in Conns PROVE SessionAt(d)'
  <2>1. SessionAt(d)
    BY DEF OneModel
  <2>2. CASE d = c
    BY <1>1, <1>2, <1>3, <2>1, <2>2 DEF SessionAt, InPhase, Arriving
  <2>3. CASE d # c
    <3>1. Keeps(d)
      BY <2>3 DEF One
    <3> QED BY <1>1, <1>2, <1>3, <2>1, <3>1 DEF SessionAt, InPhase, Arriving, Keeps
  <2> QED BY <2>2, <2>3
<1> QED BY <1>4, <1>5

LEMMA ModelWhole ==
  ASSUME (\A w \in Workers : WorkerAt(w)') /\ (\A d \in Conns : SessionAt(d)'),
         OneModelPerRound' /\ \A d \in Conns : MemberAt(d)',
         \A a \in Batches : \A k \in DOMAIN batch'[a].grads : EntryAt(a, k)'
  PROVE  OneModel'
  BY DEF OneModel

LEMMA ModelAnswer ==
  ASSUME Grown, CoreInv, OneModel, NEW c \in Conns,
         Admit(c) \/ RefuseBusy(c) \/ HandlePull(c) \/ SendReply(c)
  PROVE  OneModel'
<1>i. SessionInv /\ Typed /\ conn[c] \in Sessions
  BY GrownTyped DEF CoreInv, Grown
<1>a. SessionAt(c)
  BY DEF OneModel
<1>1. ASSUME Outside(c), UNCHANGED <<workerVars, scenario>>, conn[c].phase \in {"sent", "admitted", "published"},
             \/ conn'[c].phase = "free" /\ ~Waiting(c)
             \/ /\ conn'[c].phase # "free" /\ conn'[c].worker = conn[c].worker
                /\ conn'[c].push = conn[c].push,
             conn'[c].phase \in {"sent", "admitted"} =>
               conn[c].phase = "sent" /\ conn'[c].basis = conn[c].basis,
             conn'[c].phase \in {"published", "answered", "snapped"} => conn'[c].revision = revision
      PROVE  OneModel'
  <2>1. One(c, NoBatch) /\ NoBatch \notin Batches
    BY <1>1, RoundAssumption DEF One, Outside, Keeps, roundVars
  <2>2. UNCHANGED <<steps, baseline, resync, call>> /\ scenario' = scenario
    BY <1>1 DEF Outside, roundVars, workerVars
  <2>3. MemberAt(c)'
    BY <1>1 DEF MemberAt, Outside
  <2>4. /\ OneModelPerRound' /\ \A d \in Conns : MemberAt(d)'
        /\ \A a \in Batches : \A k \in DOMAIN batch'[a].grads : EntryAt(a, k)'
    BY <2>1, <2>2, <2>3, ModelBatches
  <2>5. conn'[c].phase \in {"sent", "admitted"} => (Arriving(c) /\ conn'[c].basis = conn[c].basis)
                                                    \/ conn'[c].push = 0
    BY <1>1 DEF Arriving
  <2>6. (\A w \in Workers : WorkerAt(w)') /\ \A d \in Conns : SessionAt(d)'
    BY <1>1, <2>1, <2>2, <2>5, ModelSessions DEF InPhase
  <2> QED BY <2>4, <2>6, ModelWhole
<1>2. CASE Admit(c)
  <2>1. /\ Outside(c) /\ InPhase(c, "sent") /\ UNCHANGED <<workerVars, scenario>>
        /\ conn'[c] = [conn[c] EXCEPT !.phase = "admitted"]
    BY <1>2, <1>i, AdmitEffect
  <2>2. conn'[c].phase = "admitted" /\ conn'[c].worker = conn[c].worker /\ conn'[c].push = conn[c].push
        /\ conn'[c].basis = conn[c].basis
    BY <1>i, <2>1 DEF Sessions
  <2> QED BY <1>1, <2>1, <2>2 DEF InPhase
<1>3. CASE RefuseBusy(c)
  <2>1. Outside(c) /\ InPhase(c, "sent") /\ UNCHANGED <<workerVars, scenario>> /\ conn'[c] = Closed(c)
    BY <1>3, <1>i, RefuseEffect
  <2>2. /\ conn'[c].phase \in {"closed", "free"}
        /\ \/ conn'[c].phase = "free" /\ ~Waiting(c)
           \/ /\ conn'[c].phase = "closed" /\ conn'[c].worker = conn[c].worker
              /\ conn'[c].push = conn[c].push
    BY <1>i, <2>1, ClosedForm, FreeTyped
  <2> QED BY <1>1, <2>1, <2>2 DEF InPhase
<1>4. CASE HandlePull(c)
  <2>1. /\ Outside(c) /\ InPhase(c, "admitted") /\ UNCHANGED <<workerVars, scenario>>
        /\ conn'[c] = [conn[c] EXCEPT !.phase = "published", !.revision = revision]
    BY <1>4, <1>i, PullEffect
  <2>2. conn'[c].phase = "published" /\ conn'[c].worker = conn[c].worker /\ conn'[c].push = conn[c].push
        /\ conn'[c].revision = revision
    BY <1>i, <2>1 DEF Sessions
  <2> QED BY <1>1, <2>1, <2>2 DEF InPhase
<1>5. CASE SendReply(c)
  <2>1. /\ Outside(c) /\ InPhase(c, "published") /\ UNCHANGED <<workerVars, scenario>>
        /\ \/ conn'[c] = FreeSession /\ ~Waiting(c)
           \/ conn'[c] = [conn[c] EXCEPT !.phase = "answered"]
    BY <1>5, <1>i, ReplyEffect
  <2>2. CASE conn'[c] = FreeSession /\ ~Waiting(c)
    <3>1. conn'[c].phase = "free"
      BY <2>2, FreeTyped
    <3> QED BY <1>1, <2>1, <2>2, <3>1 DEF InPhase
  <2>3. CASE conn'[c] = [conn[c] EXCEPT !.phase = "answered"]
    <3>1. conn'[c].phase = "answered" /\ conn'[c].worker = conn[c].worker
          /\ conn'[c].push = conn[c].push /\ conn'[c].revision = conn[c].revision
      BY <1>i, <2>3 DEF Sessions
    <3>2. conn[c].revision = revision
      BY <1>a, <2>1 DEF SessionAt, InPhase
    <3> QED BY <1>1, <2>1, <3>1, <3>2 DEF InPhase
  <2> QED BY <2>1, <2>2, <2>3
<1> QED BY <1>2, <1>3, <1>4, <1>5


\* A member looks, or takes the snapshot: the batch keeps its entries.
LEMMA ModelLook ==
  ASSUME Grown, CoreInv, OneModel, NEW c \in Conns,
         (Wake(c) /\ ~batch[conn[c].batch].done) \/ TakeSnapshot(c)
  PROVE  OneModel'
<1>i. SessionInv /\ BatchInv /\ Typed
  BY DEF CoreInv, Grown
<1>0. PICK b \in Batches : b = conn[c].batch
  BY <1>i, LookEffect, SnapshotEffect
<1>1. /\ conn[c].phase \in {"waiting", "applying"} /\ conn'[c].phase \in {"waiting", "applying", "snapped"}
      /\ UNCHANGED <<steps, workerVars, scenario>>
      /\ \A d \in Conns \ {c} : Keeps(d)
      /\ conn'[c].worker = conn[c].worker /\ conn'[c].push = conn[c].push
      /\ conn'[c].basis = conn[c].basis /\ conn'[c].batch = b
      /\ conn'[c].phase = "snapped" => conn'[c].revision = revision
      /\ \A a \in Batches \ {b} : batch'[a] = batch[a]
      /\ batch'[b].grads = batch[b].grads /\ ~batch[b].done /\ ~batch'[b].done
  <2>1. CASE Wake(c) /\ ~batch[conn[c].batch].done
    BY <1>i, <1>0, <2>1, LookEffect DEF InPhase
  <2>2. CASE TakeSnapshot(c)
    BY <1>i, <1>0, <2>2, SnapshotEffect DEF InPhase, ProcessorOf
  <2> QED BY <2>1, <2>2
<1>2. One(c, b) /\ UNCHANGED <<steps, baseline, resync, call>> /\ scenario' = scenario
      /\ b # NoBatch /\ revision' = revision
  BY <1>0, <1>1, SameSteps, RoundAssumption DEF One, workerVars
<1>3. \A k \in DOMAIN batch'[b].grads : Pending(b, k)' => Pending(b, k)
  <2>1. Calm
    BY CoreLook, CoreSnapshot
  <2> QED BY <2>1 DEF Calm
<1>4. ASSUME NEW d \in Conns, conn[d].batch = b PROVE MemberAt(d)'
  <2>1. MemberAt(d) /\ conn'[d].batch = b /\ conn'[d].basis = conn[d].basis
    BY <1>0, <1>1, <1>4 DEF OneModel, Keeps
  <2>2. (\A k \in DOMAIN batch'[b].grads : Pending(b, k)') => conn[d].basis = revision
    BY <1>1, <1>2, <1>3, <1>4, <2>1 DEF MemberAt
  <2> QED BY <1>1, <1>2, <2>1, <2>2 DEF MemberAt
<1>5. ASSUME NEW k \in DOMAIN batch'[b].grads PROVE EntryAt(b, k)'
  <2>1. PICK d \in Conns : /\ conn[d].batch = b /\ PushKey(d) = Key(batch[b].grads[k])
                           /\ conn[d].basis = batch[b].grads[k].basis
    BY <1>1, <1>5 DEF OneModel, EntryAt
  <2>2. conn'[d].batch = b /\ PushKey(d)' = PushKey(d) /\ conn'[d].basis = conn[d].basis
    BY <1>0, <1>1, <2>1 DEF Keeps, PushKey
  <2> QED BY <1>1, <2>1, <2>2 DEF EntryAt
<1>6. /\ OneModelPerRound' /\ \A d \in Conns : MemberAt(d)'
      /\ \A a \in Batches : \A k \in DOMAIN batch'[a].grads : EntryAt(a, k)'
  BY <1>0, <1>2, <1>4, <1>5, ModelBatches
<1>7. (\A w \in Workers : WorkerAt(w)') /\ \A d \in Conns : SessionAt(d)'
  BY <1>1, <1>2, ModelSessions DEF InPhase
<1> QED BY <1>6, <1>7, ModelWhole

\* A member leaves its batch with the outcome, which the processor decides.
LEMMA ModelLeave ==
  ASSUME Grown, CoreInv, OneModel, NEW c \in Conns, scenario'.abandoned = scenario.abandoned,
         (Wake(c) /\ batch[conn[c].batch].done) \/ PublishStep(c)
  PROVE  OneModel'
<1>i. SessionInv /\ BatchInv /\ Typed /\ ShownInv
  BY DEF CoreInv, Grown
<1>0. PICK b \in Batches : b = conn[c].batch
  <2>1. CASE Wake(c) /\ batch[conn[c].batch].done
    BY <1>i, <2>1, LeaveEffect
  <2>2. CASE PublishStep(c)
    BY <1>i, <2>2, MemberBatch DEF PublishStep, Processing
  <2> QED BY <2>1, <2>2
<1>1. /\ conn[c].phase \in {"waiting", "applying", "snapped"}
      /\ UNCHANGED <<steps, workerVars>>
      /\ \A d \in Conns \ {c} : Keeps(d)
      /\ conn'[c].batch = NoBatch
      /\ conn'[c].phase \in {"published", "closed", "free"}
      /\ \/ conn'[c].phase = "free" /\ ~Waiting(c)
         \/ /\ conn'[c].phase # "free" /\ conn'[c].worker = conn[c].worker
            /\ conn'[c].push = conn[c].push
      /\ conn'[c].phase = "published" => conn'[c].revision = revision
      /\ \A a \in Batches \ {b} : batch'[a] = batch[a]
      /\ \/ DOMAIN batch'[b].grads = {} /\ \A d \in Conns : conn'[d].batch # b
         \/ batch'[b].done
      /\ \A d \in Conns \ {c} : conn[d].batch = b =>
           batch'[b].done /\ (batch'[b].error \/ batch'[b].revision = revision)
  <2>1. CASE Wake(c) /\ batch[conn[c].batch].done
    <3>1. /\ InPhase(c, "waiting") /\ UNCHANGED <<steps, workerVars, scenario>>
          /\ \A d \in Conns \ {c} : Keeps(d)
          /\ conn'[c].batch = NoBatch
          /\ \/ batch[b].error /\ conn'[c] = Closed(c)
             \/ /\ ~batch[b].error /\ conn'[c].phase = "published"
                /\ conn'[c].worker = conn[c].worker /\ conn'[c].push = conn[c].push
                /\ conn'[c].revision = batch[b].revision
          /\ \A a \in Batches \ {b} : batch'[a] = batch[a]
          /\ (\A d \in Conns : conn'[d].batch # b) => batch'[b] = EmptyBatch
          /\ (\E d \in Conns : conn'[d].batch = b) => batch'[b] = batch[b]
      BY <1>i, <1>0, <2>1, LeaveEffect
    <3>2. \A d \in Conns : conn[d].batch = b => batch[b].error \/ batch[b].revision = revision
      BY <1>0, <2>1, RoundAssumption DEF OneModel, MemberAt
    <3>3. \/ conn'[c].phase = "free" /\ ~Waiting(c)
          \/ /\ conn'[c].phase \in {"closed", "published"} /\ conn'[c].worker = conn[c].worker
             /\ conn'[c].push = conn[c].push
      BY <1>i, <3>1, ClosedForm, FreeTyped
    <3>4. conn'[c].phase = "published" => conn'[c].revision = revision
      BY <1>i, <1>0, <3>1, <3>2, ClosedForm
    <3>5. \/ DOMAIN batch'[b].grads = {} /\ \A d \in Conns : conn'[d].batch # b
          \/ batch'[b].done
      BY <1>0, <2>1, <3>1, EmptyTyped
    <3>6. ASSUME NEW d \in Conns \ {c}, conn[d].batch = b
          PROVE  batch'[b].done /\ (batch'[b].error \/ batch'[b].revision = revision)
      <4>1. conn'[d].batch = b
        BY <3>1, <3>6 DEF Keeps
      <4> QED BY <1>0, <2>1, <3>1, <3>2, <3>6, <4>1
    <3> QED BY <3>1, <3>3, <3>4, <3>5, <3>6 DEF InPhase
  <2>2. CASE PublishStep(c)
    <3>s. PICK s \in Sessions, error \in BOOLEAN :
            /\ s.batch = NoBatch /\ s.applied = 0 /\ PublishAs(c, s, error) /\ Processing(c)
            /\ s.phase \in {"published", "closed", "free"}
            /\ s.push <= windows[s.worker]
            /\ s.phase = "free" => ~Waiting(c)
            /\ s.phase # "free" => s.worker = conn[c].worker /\ s.push = conn[c].push
            /\ ~error => InPhase(c, "snapped")
            /\ s.phase = "published" =>
                 InPhase(c, "snapped") /\ ~error /\ s.revision = conn[c].revision
      BY <2>2 DEF PublishStep
    <3>1. /\ UNCHANGED <<steps, current, workerVars>>
          /\ \A d \in Conns \ {c} : Keeps(d)
          /\ conn'[c].phase = s.phase /\ conn'[c].worker = s.worker /\ conn'[c].push = s.push
          /\ conn'[c].batch = NoBatch /\ conn'[c].revision = s.revision
          /\ \A a \in Batches \ {b} : batch'[a] = batch[a]
          /\ \/ /\ batch'[b] = EmptyBatch /\ \A d \in Conns : conn'[d].batch # b
             \/ /\ batch'[b].done /\ batch'[b].error = error /\ batch'[b].revision = batch[b].revision
      BY <1>i, <1>0, <3>s, PublishEffect DEF Processing
    <3>2. InPhase(c, "snapped") => conn[c].revision = revision /\ batch[b].revision = revision
      BY <1>i, <1>0 DEF OneModel, SessionAt, ShownInv, SnappedShown, InPhase
    <3>3. \/ DOMAIN batch'[b].grads = {} /\ \A d \in Conns : conn'[d].batch # b
          \/ batch'[b].done
      BY <3>1, EmptyTyped
    <3>4. ASSUME NEW d \in Conns \ {c}, conn[d].batch = b
          PROVE  batch'[b].done /\ (batch'[b].error \/ batch'[b].revision = revision)
      <4>1. conn'[d].batch = b
        BY <3>1, <3>4 DEF Keeps
      <4> QED BY <3>s, <3>1, <3>2, <4>1
    <3>5. conn'[c].phase = "published" => conn'[c].revision = revision
      BY <3>s, <3>1, <3>2
    <3>6. conn[c].phase \in {"waiting", "applying", "snapped"}
      BY <3>s DEF Processing
    <3> QED BY <3>s, <3>1, <3>3, <3>4, <3>5, <3>6
  <2> QED BY <2>1, <2>2
<1>2. One(c, b) /\ UNCHANGED <<steps, baseline, resync, call>> /\ b # NoBatch /\ revision' = revision
  BY <1>0, <1>1, SameSteps, RoundAssumption DEF One, workerVars
<1>3. ASSUME NEW d \in Conns \ {c}, conn[d].batch = b PROVE MemberAt(d)'
  <2>1. conn'[d].batch = b
    BY <1>1, <1>3 DEF Keeps
  <2> QED BY <1>1, <1>2, <1>3, <2>1 DEF MemberAt
<1>4. MemberAt(c)'
  BY <1>1 DEF MemberAt
<1>5. ASSUME NEW k \in DOMAIN batch'[b].grads PROVE EntryAt(b, k)'
  BY <1>1, <1>5 DEF EntryAt
<1>6. /\ OneModelPerRound' /\ \A d \in Conns : MemberAt(d)'
      /\ \A a \in Batches : \A k \in DOMAIN batch'[a].grads : EntryAt(a, k)'
  BY <1>2, <1>3, <1>4, <1>5, ModelBatches
<1>7. (\A w \in Workers : WorkerAt(w)') /\ \A d \in Conns : SessionAt(d)'
  BY <1>1, <1>2, ModelSessions DEF InPhase
<1> QED BY <1>6, <1>7, ModelWhole

LEMMA ModelEnter ==
  ASSUME Grown, CoreInv, OneModel, NEW c \in Conns, EnterBatch(c)
  PROVE  OneModel'
<1> DEFINE g == [worker |-> conn[c].worker, n |-> conn[c].push, basis |-> conn[c].basis]
<1>0. PICK b \in Batches :
        /\ ~batch[b].done /\ conn'[c].batch = b /\ (\A d \in Conns : conn[d].batch = b => ~Processing(d))
        /\ \A a \in Batches \ {b} : batch'[a] = batch[a]
        /\ g \in Grads /\ batch'[b].grads = Append(batch[b].grads, g)
        /\ ~batch'[b].done
        /\ conn'[c].phase = IF batch'[b].claimed THEN "applying" ELSE "waiting"
  BY EnterEffect DEF Grown, CoreInv
<1>1. /\ InPhase(c, "admitted") /\ conn[c].push # 0 /\ UNCHANGED <<steps, workerVars, scenario>>
      /\ \A d \in Conns \ {c} : Keeps(d)
      /\ conn'[c].worker = conn[c].worker /\ conn'[c].push = conn[c].push
      /\ conn'[c].basis = conn[c].basis
  BY EnterEffect DEF Grown, CoreInv
<1>2. conn[c].batch = NoBatch
  BY <1>1 DEF CoreInv, SessionInv, InPhase
<1>3. One(c, b) /\ b # NoBatch /\ UNCHANGED <<steps, baseline, resync, call>> /\ scenario' = scenario
      /\ revision' = revision /\ conn'[c].phase \in {"waiting", "applying"}
  BY <1>0, <1>1, <1>2, SameSteps, RoundAssumption DEF One, workerVars
<1>g. g.worker = conn[c].worker /\ g.n = conn[c].push /\ Key(g) = PushKey(c) /\ g \in Grads
      /\ g.basis = conn[c].basis
  BY <1>0 DEF Key, PushKey
<1>k. PICK h \in Grads : h = g
  BY <1>g
<1> HIDE DEF g
<1>4. PICK n \in Nat : n = Len(batch[b].grads) + 1
  BY GrownTyped
<1>5. /\ batch'[b].grads[n] = h /\ DOMAIN batch'[b].grads = DOMAIN batch[b].grads \cup {n}
      /\ \A k \in DOMAIN batch[b].grads : batch'[b].grads[k] = batch[b].grads[k]
  <2>1. batch'[b].grads = Append(batch[b].grads, h) /\ batch[b].grads \in Seq(Grads)
    BY <1>0, <1>k, GrownTyped
  <2> QED BY <1>4, <2>1
<1>6. conn[c].basis = revision
  BY <1>1 DEF OneModel, SessionAt, Arriving, InPhase
<1>7. MemberAt(c)'
  BY <1>0, <1>1, <1>3, <1>6 DEF MemberAt
<1>8. ASSUME NEW d \in Conns \ {c}, conn[d].batch = b PROVE MemberAt(d)'
  <2>1. Keeps(d) /\ MemberAt(d) /\ conn'[d].batch = b /\ conn'[d].basis = conn[d].basis
    BY <1>1, <1>8 DEF OneModel, Keeps
  <2>2. (\A k \in DOMAIN batch[b].grads : Pending(b, k)) => conn[d].basis = revision
    BY <1>0, <1>3, <1>8, <2>1 DEF MemberAt
  <2>3. \A k \in DOMAIN batch[b].grads : Pending(b, k)
    BY <1>0 DEF Pending
  <2> QED BY <1>0, <1>3, <2>1, <2>2, <2>3 DEF MemberAt
<1>9. ASSUME NEW k \in DOMAIN batch'[b].grads PROVE EntryAt(b, k)'
  <2>1. CASE k = n
    <3>1. PushKey(c)' = Key(batch'[b].grads[k]) /\ conn'[c].basis = batch'[b].grads[k].basis
      BY <1>1, <1>5, <1>g, <1>k, <2>1 DEF PushKey
    <3> QED BY <1>0, <3>1 DEF EntryAt
  <2>2. CASE k \in DOMAIN batch[b].grads
    <3>1. PICK d \in Conns : /\ conn[d].batch = b /\ PushKey(d) = Key(batch[b].grads[k])
                             /\ conn[d].basis = batch[b].grads[k].basis
      BY <1>0, <2>2 DEF OneModel, EntryAt
    <3>2. Keeps(d)
      BY <1>1, <1>2, <1>3, <3>1
    <3>3. conn'[d].batch = b /\ PushKey(d)' = PushKey(d) /\ conn'[d].basis = conn[d].basis
      BY <3>1, <3>2 DEF Keeps, PushKey
    <3> QED BY <1>5, <2>2, <3>1, <3>3 DEF EntryAt
  <2> QED BY <1>5, <1>9, <2>1, <2>2
<1>10. /\ OneModelPerRound' /\ \A d \in Conns : MemberAt(d)'
       /\ \A a \in Batches : \A k \in DOMAIN batch'[a].grads : EntryAt(a, k)'
  BY <1>3, <1>7, <1>8, <1>9, ModelBatches
<1>11. (\A w \in Workers : WorkerAt(w)') /\ \A d \in Conns : SessionAt(d)'
  BY <1>1, <1>3, ModelSessions DEF InPhase
<1> QED BY <1>10, <1>11, ModelWhole


\* A worker calls, adopts the answer, or sees the call fail.
LEMMA ModelCall ==
  ASSUME Grown, CoreInv, OneModel, NEW w \in Workers, NEW e \in Conns,
         StartCall(w, e) \/ Adopt(w) \/ CallFails(w)
  PROVE  OneModel'
<1>i. SessionInv /\ Typed /\ NoConn \notin Conns /\ NoBatch \notin Batches
  BY RoundAssumption DEF CoreInv, Grown
<1>t. /\ conn \in [Conns -> Sessions] /\ call \in [Workers -> Conns \cup {NoConn}]
      /\ baseline \in [Workers -> Int] /\ resync \in [Workers -> BOOLEAN] /\ revision \in Nat
  BY GrownTyped DEF Grown, Typed, TypeOK
<1>p. \A u : u \in Partners <=> u \in Workers /\ scenario.windows[u] > 0
  BY DEF Partners
<1>q. Partners' = Partners
  BY DEF Grown, Partners
<1>1. ASSUME NEW c \in Conns, Outside(c), UNCHANGED scenario,
             (\A u \in Workers : WorkerAt(u)'), (\A d \in Conns : SessionAt(d)')
      PROVE  OneModel'
  <2>1. One(c, NoBatch) /\ UNCHANGED steps
    BY <1>1, <1>i DEF One, Outside, Keeps, roundVars
  <2>2. MemberAt(c)'
    BY <1>1 DEF MemberAt, Outside
  <2>3. /\ OneModelPerRound' /\ \A d \in Conns : MemberAt(d)'
        /\ \A a \in Batches : \A k \in DOMAIN batch'[a].grads : EntryAt(a, k)'
    BY <1>1, <1>i, <2>1, <2>2, ModelBatches
  <2> QED BY <1>1, <2>3, ModelWhole
<1>2. CASE StartCall(w, e)
  <2>1. /\ Outside(e) /\ InPhase(e, "free") /\ call[w] = NoConn
        /\ call' = [call EXCEPT ![w] = e] /\ UNCHANGED <<baseline, resync, scenario>>
        /\ conn'[e].phase = "sent" /\ conn'[e].worker = w
        /\ scenario.windows[w] > 0
        /\ conn'[e].push # 0 => HasBaseline(w) /\ ~resync[w] /\ conn'[e].basis = baseline[w]
    BY <1>2, <1>i, StartEffect
  <2>2. /\ call'[w] = e /\ (\A u \in Workers \ {w} : call'[u] = call[u]) /\ revision' = revision
        /\ \A d \in Conns \ {e} : conn'[d] = conn[d]
    BY <1>t, <2>1, SameSteps DEF Outside, roundVars
  <2>3. ASSUME NEW u \in Workers PROVE WorkerAt(u)'
    <3>1. WorkerAt(u)
      BY DEF OneModel
    <3>2. CASE u = w
      BY <1>i, <1>q, <2>1, <2>2, <3>1, <3>2 DEF WorkerAt, HasBaseline, InPhase
    <3>3. CASE u # w
      <4>1. call[u] # NoConn => call[u] \in Conns \ {e}
        BY <1>t, <2>1, <3>1 DEF WorkerAt
      <4>2. call'[u] # NoConn => conn'[call'[u]].worker = u /\ conn'[call'[u]].phase # "free"
        BY <2>2, <3>1, <3>3, <4>1 DEF WorkerAt, InPhase
      <4> QED BY <1>q, <2>1, <2>2, <3>1, <3>3, <4>2 DEF WorkerAt, HasBaseline, InPhase
    <3> QED BY <3>2, <3>3
  <2>4. ASSUME NEW d \in Conns PROVE SessionAt(d)'
    <3>1. CASE d = e
      <4>1. conn'[e].push # 0 => conn'[e].basis = revision
        BY <2>1 DEF OneModel, WorkerAt
      <4>2. w \in Partners
        BY <1>p, <2>1
      <4> QED BY <1>q, <2>1, <2>2, <3>1, <4>1, <4>2 DEF SessionAt, InPhase, Arriving, HasBaseline
    <3>2. CASE d # e
      <4>1. SessionAt(d) /\ conn'[d] = conn[d] /\ conn[d].worker \in Workers
        BY <1>t, <2>2, <3>2 DEF OneModel, Sessions
      <4>2. ~InPhase(d, "free") => conn[d].worker # w
        BY <1>i, <2>1, <4>1 DEF SessionAt
      <4>3. ~InPhase(d, "free") => call'[conn[d].worker] = d
        BY <2>2, <4>1, <4>2 DEF SessionAt
      <4> QED BY <1>q, <2>1, <2>2, <4>1, <4>3 DEF SessionAt, InPhase, Arriving, HasBaseline
    <3> QED BY <3>1, <3>2
  <2> QED BY <1>1, <2>1, <2>3, <2>4
<1>3. ASSUME NEW c \in Conns, c = call[w], Outside(c), conn'[c] = FreeSession,
             call' = [call EXCEPT ![w] = NoConn], UNCHANGED scenario,
             \A u \in Workers \ {w} : baseline'[u] = baseline[u] /\ resync'[u] = resync[u],
             baseline'[w] \in {baseline[w], revision}, w \in Partners,
             baseline'[w] >= 0 /\ ~resync'[w] => baseline'[w] = revision
      PROVE  OneModel'
  <2>1. /\ call'[w] = NoConn /\ (\A u \in Workers \ {w} : call'[u] = call[u]) /\ revision' = revision
        /\ \A d \in Conns \ {c} : conn'[d] = conn[d]
    BY <1>t, <1>3, SameSteps DEF Outside, roundVars
  <2>2. conn[c].worker = w
    BY <1>i, <1>3 DEF OneModel, WorkerAt
  <2>3. conn'[c].phase = "free" /\ conn'[c].push = 0
    BY <1>3, FreeTyped
  <2>4. ASSUME NEW u \in Workers PROVE WorkerAt(u)'
    <3>1. WorkerAt(u)
      BY DEF OneModel
    <3>2. CASE u = w
      BY <1>q, <1>3, <2>1, <3>2 DEF WorkerAt, HasBaseline
    <3>3. CASE u # w
      <4>1. call[u] # NoConn => call[u] \in Conns \ {c}
        BY <1>t, <2>2, <3>1, <3>3 DEF WorkerAt
      <4>2. call'[u] # NoConn => conn'[call'[u]].worker = u /\ conn'[call'[u]].phase # "free"
        BY <2>1, <3>1, <3>3, <4>1 DEF WorkerAt, InPhase
      <4> QED BY <1>q, <1>3, <2>1, <3>1, <3>3, <4>2 DEF WorkerAt, HasBaseline, InPhase
    <3> QED BY <3>2, <3>3
  <2>5. ASSUME NEW d \in Conns PROVE SessionAt(d)'
    <3>1. CASE d = c
      BY <2>3, <3>1 DEF SessionAt, InPhase, Arriving
    <3>2. CASE d # c
      <4>1. SessionAt(d) /\ conn'[d] = conn[d] /\ conn[d].worker \in Workers
        BY <1>t, <2>1, <3>2 DEF OneModel, Sessions
      <4>2. ~InPhase(d, "free") => conn[d].worker # w
        BY <1>3, <3>2, <4>1 DEF SessionAt
      <4>3. ~InPhase(d, "free") => call'[conn[d].worker] = d
                                   /\ baseline'[conn[d].worker] = baseline[conn[d].worker]
        BY <1>3, <2>1, <4>1, <4>2 DEF SessionAt
      <4> QED BY <1>q, <2>1, <4>1, <4>3 DEF SessionAt, InPhase, Arriving, HasBaseline
    <3> QED BY <3>1, <3>2
  <2> QED BY <1>1, <1>3, <2>4, <2>5
<1>w. call[w] # NoConn => w \in Partners
  <2>1. call[w] # NoConn => /\ call[w] \in Conns /\ conn[call[w]].worker = w
                            /\ ~InPhase(call[w], "free")
    BY <1>t DEF OneModel, WorkerAt
  <2> QED BY <2>1 DEF OneModel, SessionAt
<1>4. CASE Adopt(w)
  <2>1. /\ call[w] \in Conns /\ Outside(call[w]) /\ InPhase(call[w], "answered")
        /\ conn'[call[w]] = FreeSession
        /\ baseline' = [baseline EXCEPT ![w] = conn[call[w]].revision]
        /\ resync' = [resync EXCEPT ![w] = FALSE] /\ call' = [call EXCEPT ![w] = NoConn]
        /\ UNCHANGED <<windows, scenario>>
    BY <1>4, <1>i, AdoptEffect
  <2>2. PICK c \in Conns : c = call[w]
    BY <2>1
  <2>3. conn[c].revision = revision
    BY <2>1, <2>2 DEF OneModel, SessionAt, InPhase
  <2>4. /\ baseline'[w] = revision
        /\ \A u \in Workers \ {w} : baseline'[u] = baseline[u] /\ resync'[u] = resync[u]
    BY <1>t, <2>1, <2>2, <2>3
  <2> QED BY <1>3, <1>i, <1>w, <2>1, <2>2, <2>4
<1>5. CASE CallFails(w)
  <2>1. /\ call[w] \in Conns /\ Outside(call[w]) /\ conn'[call[w]] = FreeSession
        /\ resync' = [resync EXCEPT ![w] = HasBaseline(w)] /\ call' = [call EXCEPT ![w] = NoConn]
        /\ UNCHANGED <<baseline, windows, scenario>>
    BY <1>5, <1>i, CallFailsEffect
  <2>2. PICK c \in Conns : c = call[w]
    BY <2>1
  <2>3. /\ resync'[w] = HasBaseline(w) /\ baseline'[w] = baseline[w]
        /\ \A u \in Workers \ {w} : baseline'[u] = baseline[u] /\ resync'[u] = resync[u]
    BY <1>t, <2>1
  <2>4. baseline'[w] >= 0 => resync'[w]
    BY <2>3 DEF HasBaseline
  <2> QED BY <1>3, <1>i, <1>w, <2>1, <2>2, <2>3, <2>4
<1> QED BY <1>2, <1>4, <1>5

\* A claimed round has a push of every partner, whose session is in it.
LEMMA EveryoneIsIn ==
  ASSUME EveryoneNeeded, Grown, CoreInv, OneModel, NEW c \in Conns, NEW b \in Batches,
         conn[c].batch = b, InPhase(c, "applying"), RoundSize > 0, conn[c].applied = 0
  PROVE  /\ \A k \in DOMAIN batch[b].grads : Pending(b, k)
         /\ \A w \in Partners : \E d \in Conns : conn[d].batch = b /\ call[w] = d
         /\ \A d \in Conns : ~InPhase(d, "free") => conn[d].batch = b
<1>1. /\ ProcessorOf(c, b) /\ batch[b].grads \in Seq(Grads) /\ RoundSize \in Nat
      /\ conn \in [Conns -> Sessions] /\ call \in [Workers -> Conns \cup {NoConn}]
  BY GrownTyped DEF CoreInv, BatchInv, BatchGood, Processing, InPhase, Grown, Typed, TypeOK
<1>2. DOMAIN batch[b].grads = 1..RoundSize
  BY <1>1 DEF CoreInv, BatchInv, BatchGood, ProcessorOf
<1>3. \A d \in Conns : conn[d].batch = b /\ Processing(d) => conn[d].applied = 0
  BY DEF CoreInv, BatchInv, OneProcessor, Processing, InPhase
<1>4. \A k \in 1..RoundSize : Pending(b, k)
  BY <1>1, <1>2, <1>3 DEF Pending, ProcessorOf
<1>5. \A k \in 1..RoundSize : \E d \in Conns :
        /\ conn[d].batch = b /\ PushKey(d) = Key(batch[b].grads[k])
        /\ conn[d].worker = batch[b].grads[k].worker
        /\ call[conn[d].worker] = d /\ conn[d].worker \in Partners
  <2> SUFFICES ASSUME NEW k \in 1..RoundSize
               PROVE  \E d \in Conns :
                        /\ conn[d].batch = b /\ PushKey(d) = Key(batch[b].grads[k])
                        /\ conn[d].worker = batch[b].grads[k].worker
                        /\ call[conn[d].worker] = d /\ conn[d].worker \in Partners
    OBVIOUS
  <2>1. PICK d \in Conns : conn[d].batch = b /\ PushKey(d) = Key(batch[b].grads[k])
    BY <1>1, <1>2 DEF OneModel, EntryAt, ProcessorOf
  <2>2. conn[d].worker = batch[b].grads[k].worker
    BY <2>1 DEF PushKey, Key
  <2>3. ~InPhase(d, "free")
    BY <2>1, RoundAssumption DEF CoreInv, SessionInv, InPhase
  <2> QED BY <2>1, <2>2, <2>3 DEF OneModel, SessionAt
<1> DEFINE P == {batch[b].grads[k].worker : k \in 1..RoundSize}
<1>6. ASSUME NEW w \in Partners, w \notin P PROVE FALSE
  <2> DEFINE T == Partners \ {w}
             f == [k \in 1..RoundSize |-> batch[b].grads[k].worker]
  <2>1. IsFiniteSet(Partners) /\ Cardinality(Partners) \in Nat
    <3>1. Partners \subseteq Workers
      BY DEF Partners
    <3> QED BY <3>1, RoundAssumption, FS_Subset, FS_CardinalityType
  <2>2. Cardinality(Partners) <= RoundSize
    <3>1. PICK s \in Scenarios : s.round = scenario.round /\ s.windows = scenario.windows
      BY DEF Grown, Typed, ScenarioInv
    <3>2. Partners = {u \in Workers : s.windows[u] > 0}
      BY <3>1 DEF Partners
    <3> QED BY <3>1, <3>2 DEF EveryoneNeeded, RoundSize
  <2>3. IsFiniteSet(T) /\ Cardinality(T) = Cardinality(Partners) - 1
    BY <2>1, FS_RemoveElement
  <2>4. IsFiniteSet(1..RoundSize) /\ Cardinality(1..RoundSize) = RoundSize
    BY <1>1, FS_Interval
  <2>5. f \in [1..RoundSize -> T]
    BY <1>5, <1>6
  <2>6. Cardinality(T) < Cardinality(1..RoundSize)
    BY <1>1, <2>1, <2>2, <2>3, <2>4
  <2> HIDE DEF T
  <2>7. PICK x, y \in 1..RoundSize : x # y /\ f[x] = f[y]
    <3> HIDE DEF f
    <3> QED BY <2>3, <2>4, <2>5, <2>6, FS_PigeonHole, ZenonT(60)
  <2>8. batch[b].grads[x].worker = batch[b].grads[y].worker
    BY <2>7
  <2>9. Key(batch[b].grads[x]) = Key(batch[b].grads[y])
    BY <1>5, <2>8
  <2> QED BY <1>2, <1>4, <2>7, <2>9 DEF CoreInv, OnceInv
<1>7. ASSUME NEW w \in Partners PROVE \E d \in Conns : conn[d].batch = b /\ call[w] = d
  <2>1. PICK k \in 1..RoundSize : w = batch[b].grads[k].worker
    BY <1>6
  <2> QED BY <1>5, <2>1
<1>8. ASSUME NEW d \in Conns, ~InPhase(d, "free") PROVE conn[d].batch = b
  BY <1>7, <1>8 DEF OneModel, SessionAt
<1> QED BY <1>2, <1>4, <1>7, <1>8

\* The round is applied: all partners are in it, with pushes of one model, and
\* nobody else is at work.
LEMMA ModelApply ==
  ASSUME EveryoneNeeded, Grown, CoreInv, OneModel, RoundSize > 0, NEW c \in Conns, ApplyNext(c)
  PROVE  OneModel'
<1>0. PICK b \in Batches, n \in Nat, m \in Nat, e \in Seq(Grads) :
        /\ b = conn[c].batch /\ n = conn[c].applied /\ m = conn'[c].applied
        /\ n < m /\ m <= Len(batch[b].grads)
        /\ steps' = Append(steps, e) /\ Len(e) = m - n
        /\ \A j \in 1..(m - n) : e[j] = batch[b].grads[n + j]
        /\ RoundSize > 0 => n = 0 /\ m = Len(batch[b].grads) /\ m = RoundSize
  BY ApplyForm
<1>1. /\ InPhase(c, "applying") /\ UNCHANGED <<batch, workerVars, scenario>> /\ ProcessorOf(c, b)
      /\ \A d \in Conns \ {c} : Keeps(d)
      /\ conn'[c].phase = "applying" /\ conn'[c].worker = conn[c].worker
      /\ conn'[c].push = conn[c].push /\ conn'[c].basis = conn[c].basis /\ conn'[c].batch = b
  BY <1>0, ApplyEffect DEF Grown, CoreInv
<1>2. n = 0 /\ m > 0 /\ b # NoBatch /\ NoConn \notin Conns /\ Processing(c)
  BY <1>0, <1>1, RoundAssumption DEF Processing, InPhase
<1>t. /\ conn \in [Conns -> Sessions] /\ call \in [Workers -> Conns \cup {NoConn}]
      /\ batch[b].grads \in Seq(Grads)
      /\ baseline' = baseline /\ resync' = resync /\ call' = call /\ batch' = batch
      /\ Partners' = Partners
  BY <1>1, GrownTyped DEF Grown, Typed, TypeOK, Partners, workerVars
<1>d. DOMAIN batch[b].grads = 1..m /\ DOMAIN e = 1..m
  BY <1>0, <1>2, <1>t
<1>3. /\ \A k \in DOMAIN batch[b].grads : Pending(b, k)
      /\ \A w \in Partners : \E d \in Conns : conn[d].batch = b /\ call[w] = d
      /\ \A d \in Conns : ~InPhase(d, "free") => conn[d].batch = b
  BY <1>0, <1>1, <1>2, EveryoneIsIn
<1>4. \A d \in Conns : /\ conn'[d].phase = conn[d].phase /\ conn'[d].worker = conn[d].worker
                       /\ conn'[d].push = conn[d].push /\ conn'[d].basis = conn[d].basis
                       /\ conn'[d].batch = conn[d].batch
  BY <1>0, <1>1 DEF Keeps, InPhase
<1>5. \A d \in Conns : conn[d].phase \in {"free", "waiting", "applying"}
  <2> SUFFICES ASSUME NEW d \in Conns, conn[d].phase # "free"
               PROVE  conn[d].phase \in {"waiting", "applying"}
    OBVIOUS
  <2>1. conn[d].batch = b
    BY <1>3 DEF InPhase
  <2>2. conn[d].phase \in {"waiting", "applying", "snapped"}
    BY <1>2, <2>1 DEF CoreInv, SessionInv
  <2>3. conn[d].phase = "snapped" => d = c
    BY <1>0, <1>2, <2>1 DEF CoreInv, BatchInv, OneProcessor, Processing
  <2> QED BY <1>1, <2>2, <2>3 DEF InPhase
<1>6. \A k \in 1..m : batch[b].grads[k].basis = revision
  <2> SUFFICES ASSUME NEW k \in 1..m PROVE batch[b].grads[k].basis = revision
    OBVIOUS
  <2>1. PICK d \in Conns : conn[d].batch = b /\ conn[d].basis = batch[b].grads[k].basis
    BY <1>1, <1>d DEF OneModel, EntryAt, ProcessorOf
  <2>2. MemberAt(d)
    BY DEF OneModel
  <2>3. conn[d].basis = revision
    BY <1>1, <1>2, <1>3, <2>1, <2>2 DEF MemberAt, ProcessorOf
  <2> QED BY <2>1, <2>3
<1>7. OneModelPerRound'
  <2>1. /\ DOMAIN steps = 1..revision /\ DOMAIN steps' = 1..(revision + 1) /\ revision \in Nat
        /\ steps'[revision + 1] = e /\ \A i \in 1..revision : steps'[i] = steps[i]
    BY <1>0, GrownTyped, StepsGrow
  <2>2. \A k \in DOMAIN e : e[k].basis = revision
    <3>1. \A j \in 1..m : e[j] = batch[b].grads[j]
      BY <1>0, <1>2
    <3> QED BY <1>6, <1>d, <3>1
  <2>3. ASSUME RoundSize' > 0 /\ ~scenario'.abandoned, NEW i \in DOMAIN steps',
               NEW k \in DOMAIN steps'[i], NEW l \in DOMAIN steps'[i]
        PROVE  steps'[i][k].basis = steps'[i][l].basis
    <3>1. CASE i = revision + 1
      BY <2>1, <2>2, <3>1
    <3>2. CASE i \in 1..revision
      <4>1. RoundSize > 0 /\ ~scenario.abandoned
        BY <1>1, <2>3
      <4> QED BY <2>1, <3>2, <4>1 DEF OneModel, OneModelPerRound
    <3> QED BY <2>1, <3>1, <3>2
  <2> QED BY <2>3 DEF OneModelPerRound
<1>8. ASSUME NEW w \in Workers PROVE WorkerAt(w)'
  <2>1. WorkerAt(w)
    BY DEF OneModel
  <2>2. HasBaseline(w) => call[w] # NoConn
    BY <1>2, <1>3, <2>1 DEF WorkerAt
  <2>3. call[w] # NoConn => conn'[call[w]].worker = w /\ conn'[call[w]].phase # "free"
    BY <1>4, <1>t, <2>1 DEF WorkerAt, InPhase
  <2> QED BY <1>t, <2>1, <2>2, <2>3 DEF WorkerAt, HasBaseline, InPhase
<1>9. ASSUME NEW d \in Conns PROVE SessionAt(d)'
  <2>1. SessionAt(d) /\ conn'[d].phase \in {"free", "waiting", "applying"}
    BY <1>4, <1>5 DEF OneModel
  <2> QED BY <1>4, <1>t, <2>1 DEF SessionAt, InPhase, Arriving, HasBaseline
<1>10. ASSUME NEW d \in Conns PROVE MemberAt(d)'
  <2>1. CASE conn[d].batch = NoBatch
    BY <1>4, <2>1 DEF MemberAt
  <2>2. CASE conn[d].batch # NoBatch
    <3>1. conn'[d].batch = b
      BY <1>3, <1>4, <2>2 DEF CoreInv, SessionInv, InPhase
    <3>2. ~Pending(b, 1)'
      BY <1>0, <1>1, <1>2 DEF Pending, Processing
    <3>3. 1 \in DOMAIN batch'[b].grads /\ ~batch'[b].done
      BY <1>1, <1>2, <1>d, <1>t DEF ProcessorOf
    <3> QED BY <3>1, <3>2, <3>3 DEF MemberAt
  <2> QED BY <2>1, <2>2
<1>11. ASSUME NEW a \in Batches, NEW k \in DOMAIN batch'[a].grads PROVE EntryAt(a, k)'
  <2>1. EntryAt(a, k)
    BY <1>11, <1>t DEF OneModel
  <2>2. \A d \in Conns : PushKey(d)' = PushKey(d)
    BY <1>4 DEF PushKey
  <2> QED BY <1>4, <1>t, <2>1, <2>2 DEF EntryAt
<1> QED BY <1>7, <1>8, <1>9, <1>10, <1>11, ModelWhole

LEMMA ModelInit ==
  ASSUME Init PROVE ModelInv
<1>1. /\ steps = <<>> /\ batch = [b \in Batches |-> EmptyBatch]
      /\ conn = [c \in Conns |-> FreeSession] /\ baseline = [w \in Workers |-> -1]
      /\ call = [w \in Workers |-> NoConn]
  BY DEF Init
<1>2. \A w \in Workers : ~HasBaseline(w) /\ call[w] = NoConn
  BY <1>1 DEF HasBaseline
<1>3. \A c \in Conns : conn[c].phase = "free" /\ conn[c].batch = NoBatch
  BY <1>1, FreeTyped
<1>4. \A w \in Workers : WorkerAt(w)
  BY <1>2 DEF WorkerAt
<1>5. \A c \in Conns : SessionAt(c) /\ MemberAt(c)
  BY <1>3 DEF SessionAt, MemberAt, InPhase, Arriving
<1>6. \A b \in Batches : DOMAIN batch[b].grads = {}
  BY <1>1, EmptyTyped
<1>7. OneModelPerRound
  BY <1>1 DEF OneModelPerRound
<1> QED BY <1>4, <1>5, <1>6, <1>7 DEF ModelInv, OneModel

LEMMA ModelNext ==
  ASSUME EveryoneNeeded, Typed, CoreInv, ModelInv, [Next]_vars
  PROVE  ModelInv'
<1> SUFFICES ASSUME RoundSize' > 0, ~scenario'.abandoned
             PROVE  OneModel'
  BY DEF ModelInv
<1>g. Grown /\ RoundSize > 0
  BY CoreNext, GrownTyped
<1>i. SessionInv /\ scenario \in [round: Nat, sessions: Nat, windows: [Workers -> Nat], call: Nat,
                                  step: Nat, abandoned: BOOLEAN]
  BY DEF CoreInv, Typed, ScenarioInv
<1>1. ASSUME scenario'.abandoned = scenario.abandoned PROVE OneModel
  BY <1>1, <1>g DEF ModelInv
<1>2. ASSUME NEW w \in Workers, CallTimesOut(w) PROVE FALSE
  <2>1. scenario.call > 0 /\ scenario' = [scenario EXCEPT !.call = @ - 1, !.abandoned = TRUE]
    BY <1>2, <1>i, TimeoutEffect
  <2>2. PICK n \in Nat : n = scenario.call - 1
    BY <1>i, <2>1
  <2>3. scenario' = [scenario EXCEPT !.call = n, !.abandoned = TRUE]
    BY <2>1, <2>2
  <2> QED BY <1>i, <2>3
<1>3. ASSUME NEW w \in Workers, NEW c \in Conns, StartCall(w, c) \/ Adopt(w) \/ CallFails(w)
      PROVE  OneModel'
  <2>1. scenario' = scenario
    BY <1>3, <1>i, StartEffect, AdoptEffect, CallFailsEffect
  <2> QED BY <1>1, <1>3, <1>g, <2>1, ModelCall
<1>4. ASSUME NEW c \in Conns, Admit(c) \/ RefuseBusy(c) \/ HandlePull(c) \/ SendReply(c)
      PROVE  OneModel'
  <2>1. scenario' = scenario
    BY <1>4 DEF Admit, RefuseBusy, HandlePull, SendReply
  <2> QED BY <1>1, <1>4, <1>g, <2>1, ModelAnswer
<1>5. ASSUME NEW c \in Conns, EnterBatch(c) PROVE OneModel'
  <2>1. scenario' = scenario
    BY <1>5 DEF EnterBatch
  <2> QED BY <1>1, <1>5, <1>g, <2>1, ModelEnter
<1>6. ASSUME NEW c \in Conns, Wake(c) \/ TakeSnapshot(c) PROVE OneModel'
  <2>1. scenario' = scenario
    BY <1>6 DEF Wake, TakeSnapshot
  <2> QED BY <1>1, <1>6, <1>g, <2>1, ModelLook, ModelLeave
<1>7. ASSUME NEW c \in Conns, ApplyNext(c) PROVE OneModel'
  <2>1. scenario' = scenario
    BY <1>7 DEF ApplyNext
  <2> QED BY <1>1, <1>7, <1>g, <2>1, ModelApply
<1>8. ASSUME NEW c \in Conns, Publish(c) \/ FailProcessing(c) PROVE OneModel'
  <2>1. /\ PublishStep(c)
        /\ \/ scenario' = scenario
           \/ scenario.step > 0 /\ scenario' = [scenario EXCEPT !.step = @ - 1]
    BY <1>8, <1>i, PublishSteps
  <2>2. ASSUME scenario.step > 0, scenario' = [scenario EXCEPT !.step = @ - 1]
        PROVE  scenario'.abandoned = scenario.abandoned
    <3>1. PICK n \in Nat : n = scenario.step - 1
      BY <1>i, <2>2
    <3>2. scenario' = [scenario EXCEPT !.step = n]
      BY <2>2, <3>1
    <3> QED BY <1>i, <3>2
  <2>3. scenario'.abandoned = scenario.abandoned
    BY <2>1, <2>2
  <2> QED BY <1>1, <1>g, <2>1, <2>3, ModelLeave
<1>9. ASSUME NEW b \in Batches, Expire(b) PROVE FALSE
  BY <1>9, <1>g DEF Expire
<1>10. CASE UNCHANGED vars
  <2>1. /\ UNCHANGED <<roundVars, conn, workerVars, scenario>>
    BY <1>10 DEF vars
  <2>2. /\ steps' = steps /\ batch' = batch /\ conn' = conn /\ baseline' = baseline
        /\ resync' = resync /\ call' = call /\ scenario' = scenario
    BY <2>1 DEF roundVars, workerVars
  <2>3. OneModel
    BY <1>1, <2>2
  <2> QED BY <2>2, <2>3 DEF OneModel, OneModelPerRound, RoundSize, WorkerAt, SessionAt, MemberAt, EntryAt,
             HasBaseline, Partners, InPhase, Arriving, Pending, Processing, PushKey, revision
<1>11. CASE Next
  <2>1. CASE \E w \in Workers, c \in Conns : StartCall(w, c)
    BY <1>3, <2>1
  <2>2. CASE \E w \in Workers : WorkerStep(w) \/ CallTimesOut(w)
    <3>1. PICK w \in Workers : Adopt(w) \/ CallFails(w)
      BY <1>2, <2>2 DEF WorkerStep
    <3>2. call[w] \in Conns
      BY <3>1, CallTyped DEF Adopt, CallFails
    <3> QED BY <1>3, <3>1, <3>2
  <2>3. CASE \E c \in Conns : ServerStep(c) \/ FailProcessing(c)
    BY <1>4, <1>5, <1>6, <1>7, <1>8, <2>3 DEF ServerStep
  <2>4. CASE \E b \in Batches : Expire(b)
    BY <1>9, <2>4
  <2> QED BY <1>11, <2>1, <2>2, <2>3, <2>4 DEF Next
<1> QED BY <1>10, <1>11

\* For any workers, handler threads and settings, when a round needs every
\* worker that takes part (run_heloco starts the server with --sync_workers set
\* to the number of islands): besides RoundsAreWhole, a round averages pushes
\* computed against one model, as long as no worker has given up a call.
THEOREM RoundsAreSound ==
  ASSUME EveryoneNeeded
  PROVE  Spec => []RoundsSound
<1>1. Init => Typed /\ CoreInv /\ ModelInv
  BY CoreInit, ModelInit
<1>2. Typed /\ CoreInv /\ ModelInv /\ [Next]_vars => Typed' /\ CoreInv' /\ ModelInv'
  BY CoreNext, ModelNext DEF Grown
<1>3. Typed /\ CoreInv /\ ModelInv => RoundsSound
  <2> SUFFICES ASSUME Typed, CoreInv, ModelInv PROVE RoundsSound
    OBVIOUS
  <2>1. TypeOK /\ RoundsWhole /\ OneProcessor /\ AppliedOnce /\ ReplyShowsPush
    BY ReplyForm DEF Typed, CoreInv, BatchInv, OnceInv, ShownInv
  <2>2. OneModelPerRound
    BY DEF ModelInv, OneModel, OneModelPerRound
  <2> QED BY <2>1, <2>2 DEF RoundsSound
<1> QED BY <1>1, <1>2, <1>3, PTL DEF Spec

-----------------------------------------------------------------------------
(***************************************************************************)
(* The prototype, for any paces.                                           *)
(***************************************************************************)
(* Numbers. *)

LEMMA LeastOf ==
  ASSUME NEW T \in SUBSET Nat, T # {}
  PROVE  \E n \in T : \A k \in T : n <= k
<1>. DEFINE R == OpToRel(<, Nat)
<1>1. IsWellFoundedOn(R, Nat)
  BY NatLessThanWellFounded
<1>2. PICK n \in T : \A k \in T : <<k, n>> \notin R
  <2>. HIDE DEF R
  <2> QED BY <1>1, WFMin
<1>3. \A k \in T : <<k, n>> \in R <=> k < n
  BY DEF OpToRel
<1>4. \A k \in T : ~(k < n)
  <2>. HIDE DEF R
  <2> QED BY <1>2, <1>3
<1>5. \A k \in T : n \in Int /\ k \in Int
  OBVIOUS
<1> QED BY <1>4, <1>5

\* What holds at 0, and at n + 1 if it does at n, holds everywhere.
LEMMA SetInduction ==
  ASSUME NEW S, 0 \in S, \A n \in Nat : n \in S => n + 1 \in S
  PROVE  \A n \in Nat : n \in S
<1>1. SUFFICES ASSUME Nat \ S # {} PROVE FALSE OBVIOUS
<1>2. PICK n \in Nat \ S : \A k \in Nat \ S : n <= k
  BY <1>1, LeastOf
<1>3. n - 1 \in Nat /\ n - 1 < n BY <1>2
<1> QED BY <1>2, <1>3

\* Multiplying by a positive number.
LEMMA Times ==
  ASSUME NEW d \in Nat \ {0}, NEW a \in Int, NEW b \in Int
  PROVE  /\ d * a \in Int /\ (a \in Nat => d * a \in Nat)
         /\ d * a < d * b <=> a < b
         /\ d * a = d * b <=> a = b
         /\ a < b => d * a + d <= d * b
         /\ d * (a + 1) = d * a + d
  OBVIOUS

LEMMA WholeMultiple ==
  ASSUME NEW n \in Nat \ {0}, NEW d \in Int
  PROVE  /\ n * d \in Int
         /\ d >= 1 => n * d >= n
         /\ d <= -1 => n * d <= - n
         /\ d = 0 => n * d = 0
<1>1. CASE d >= 1
  <2>1. PICK e \in Nat : d = e + 1
    BY <1>1
  <2>2. n * d = n * e + n /\ n * e \in Nat
    BY <2>1
  <2> QED BY <1>1, <2>2
<1>2. CASE d <= -1
  <2>1. PICK e \in Nat : d = - (e + 1)
    BY <1>2
  <2>2. n * d = - (n * e + n) /\ n * e \in Nat
    BY <2>1
  <2> QED BY <1>2, <2>2
<1>3. CASE d = 0
  BY <1>3
<1> QED BY <1>1, <1>2, <1>3

LEMMA Dividing ==
  ASSUME NEW c \in Nat, NEW n \in Nat \ {0}
  PROVE  /\ c = n * (c \div n) + (c % n) /\ (c % n) \in 0..(n - 1) /\ (c \div n) \in Nat
OBVIOUS

\* The maximum of two.
LEMMA Larger ==
  ASSUME NEW a \in Nat, NEW b \in Nat
  PROVE  Max({a, b}) = IF a >= b THEN a ELSE b
<1>1. \E x \in {a, b} : \A y \in {a, b} : x >= y
  OBVIOUS
<1>2. Max({a, b}) \in {a, b} /\ \A y \in {a, b} : Max({a, b}) >= y
  BY <1>1 DEF Max
<1> QED BY <1>2

LEMMA Smaller ==
  ASSUME NEW a \in Nat, NEW b \in Nat
  PROVE  Min({a, b}) = IF a <= b THEN a ELSE b
<1>1. \E x \in {a, b} : \A y \in {a, b} : x <= y
  OBVIOUS
<1>2. Min({a, b}) \in {a, b} /\ \A y \in {a, b} : Min({a, b}) <= y
  BY <1>1 DEF Min
<1> QED BY <1>2

LEMMA Alone ==
  ASSUME NEW a \in Nat
  PROVE  Max({a}) = a
<1>1. Max({a}) \in {a}
  BY DEF Max
<1> QED BY <1>1

\* The values of a function on 1..n, and one more, have a maximum.
LEMMA Greatest ==
  ASSUME NEW a \in Nat, NEW n \in Nat, NEW f \in [1..n -> Nat]
  PROVE  LET S == {a} \cup {f[i] : i \in 1..n} IN Max(S) \in Nat /\ \A x \in S : x <= Max(S)
<1>. DEFINE S(k) == {a} \cup {f[i] : i \in 1..k}
            Good == {k \in Nat : k <= n => \E x \in S(k) : \A y \in S(k) : x >= y}
<1>1. 0 \in Good
  <2>1. S(0) = {a}
    OBVIOUS
  <2> QED BY <2>1
<1>2. ASSUME NEW k \in Nat, k \in Good PROVE k + 1 \in Good
  <2>1. SUFFICES ASSUME k + 1 <= n PROVE \E x \in S(k + 1) : \A y \in S(k + 1) : x >= y
    OBVIOUS
  <2>2. PICK x \in S(k) : \A y \in S(k) : x >= y
    BY <1>2, <2>1
  <2>3. S(k + 1) = S(k) \cup {f[k + 1]} /\ S(k) \subseteq Nat /\ f[k + 1] \in Nat
    <3>1. 1..(k + 1) = (1..k) \cup {k + 1} /\ k + 1 \in 1..n /\ 1..k \subseteq 1..n
      BY <2>1
    <3> QED BY <3>1
  <2>. HIDE DEF S
  <2> QED BY <2>2, <2>3
<1>3. n \in Good
  <2>. HIDE DEF Good
  <2> QED BY <1>1, <1>2, SetInduction
<1>4. S(n) \subseteq Nat /\ \E x \in S(n) : \A y \in S(n) : x >= y
  BY <1>3
<1>. HIDE DEF S, Good
<1>5. Max(S(n)) \in S(n) /\ \A y \in S(n) : Max(S(n)) >= y
  BY <1>4 DEF Max
<1>6. Max(S(n)) \in Nat /\ \A y \in S(n) : y <= Max(S(n))
  BY <1>4, <1>5
<1> QED BY <1>6 DEF S

-----------------------------------------------------------------------------
(* Settings of the prototype. *)

\* How many times a run takes its updates in all, and between two evaluations.
InAll == IF setting.sync THEN setting.phases ELSE NumWorkers * setting.phases
Between == IF setting.sync THEN setting.every ELSE NumWorkers * setting.every

LEMMA SimSettings ==
  ASSUME setting \in Experiments
  PROVE  /\ {setting.sync, setting.fixed, setting.delayed} \subseteq BOOLEAN
         /\ NumWorkers \in Nat \ {0} /\ Islands = 1..NumWorkers /\ Shards = Islands
         /\ {setting.inner, setting.phases, setting.every} \subseteq Nat \ {0} /\ setting.wait \in Nat
         /\ \A w \in Islands : setting.paces[w] \in Nat \ {0} /\ setting.inner * setting.paces[w] \in Nat \ {0}
         /\ {Pulse, Parts, InAll, Between, MaxUpdates, EvalInterval} \subseteq Nat \ {0}
         /\ MaxUpdates = Pulse * InAll /\ EvalInterval = Pulse * Between
<1>1. /\ {setting.sync, setting.fixed, setting.delayed} \subseteq BOOLEAN
      /\ setting.paces \in Seq(Nat \ {0}) /\ Len(setting.paces) > 0
      /\ {setting.inner, setting.phases, setting.every} \subseteq Nat \ {0} /\ setting.wait \in Nat
  BY SimulatorAssumption
<1>2. NumWorkers \in Nat \ {0} /\ Islands = 1..NumWorkers /\ Shards = Islands
  BY <1>1 DEF NumWorkers, Islands, Shards
<1>3. \A w \in Islands : setting.paces[w] \in Nat \ {0}
  BY <1>1 DEF Islands
<1>4. \A a, b \in Nat \ {0} : a * b \in Nat \ {0}
  OBVIOUS
<1>5. \A w \in Islands : setting.inner * setting.paces[w] \in Nat \ {0}
  BY <1>1, <1>3, <1>4
<1>6. PICK n \in Nat \ {0} : n = NumWorkers
  BY <1>2
<1>7. PICK i \in Nat \ {0} : i = setting.inner
  BY <1>1
<1>8. PICK m \in Nat \ {0} : m = setting.phases
  BY <1>1
<1>9. PICK e \in Nat \ {0} : e = setting.every
  BY <1>1
<1>10. /\ {Pulse, Parts, InAll, Between} \subseteq Nat \ {0}
       /\ MaxUpdates = i * n * m /\ EvalInterval = i * n * e
       /\ Pulse = IF setting.sync THEN i * n ELSE i
       /\ InAll = IF setting.sync THEN m ELSE n * m
       /\ Between = IF setting.sync THEN e ELSE n * e
  <2>1. n * m \in Nat \ {0} /\ n * e \in Nat \ {0} /\ i * n \in Nat \ {0}
    BY <1>4
  <2>2. /\ Pulse = IF setting.sync THEN i * n ELSE i
        /\ InAll = IF setting.sync THEN m ELSE n * m
        /\ Between = IF setting.sync THEN e ELSE n * e
        /\ Parts \in {n, 1}
    BY <1>6, <1>7, <1>8, <1>9 DEF Pulse, Parts, InAll, Between
  <2>3. MaxUpdates = i * n * m /\ EvalInterval = i * n * e
    BY <1>6, <1>7, <1>8, <1>9 DEF MaxUpdates, EvalInterval
  <2> QED BY <2>1, <2>2, <2>3
<1>11. MaxUpdates = Pulse * InAll /\ EvalInterval = Pulse * Between
  BY <1>10
<1>12. {MaxUpdates, EvalInterval} \subseteq Nat \ {0}
  BY <1>4, <1>10, <1>11
<1> QED BY <1>1, <1>2, <1>3, <1>5, <1>10, <1>11, <1>12

\* What a setting gives stays as it is with it.
LEMMA SameSetting ==
  ASSUME setting' = setting
  PROVE  /\ NumWorkers' = NumWorkers /\ Islands' = Islands /\ Shards' = Shards
         /\ MaxUpdates' = MaxUpdates /\ EvalInterval' = EvalInterval
         /\ Pulse' = Pulse /\ Parts' = Parts
         /\ InAll' = InAll /\ Between' = Between
         /\ \A w \in Islands : Most(w)' = Most(w) /\ \A v \in Islands : Ends(w, v)' = Ends(w, v)
  BY DEF NumWorkers, Islands, Shards, MaxUpdates, EvalInterval, Pulse, Parts, InAll, Between, Most, Ends

-----------------------------------------------------------------------------
(* A loop over the workers that get shards. *)

LEMMA BeforeSteps ==
  ASSUME NEW p, IsFiniteSet(DOMAIN p), DOMAIN p \subseteq Nat \ {0}, NEW s, NEW w \in Nat
  PROVE  /\ Before(p, w, s) \in Nat /\ Before(p, 1, s) = 0
         /\ Before(p, w + 1, s) = IF w \in DOMAIN p /\ p[w] = s THEN Before(p, w, s) + 1 ELSE Before(p, w, s)
         /\ \A v \in Nat : v <= w => Before(p, v, s) <= Before(p, w, s)
<1>. DEFINE ws == DOMAIN p
            T(x) == {v \in ws : v < x /\ p[v] = s}
<1>1. \A x : Before(p, x, s) = Cardinality(T(x))
  BY DEF Before
<1>2. \A x : IsFiniteSet(T(x)) /\ Cardinality(T(x)) \in Nat
  <2>1. \A x : T(x) \in SUBSET (DOMAIN p)
    OBVIOUS
  <2>. HIDE DEF T
  <2> QED BY <2>1, FS_Subset, FS_CardinalityType
<1>3. T(1) = {} /\ T(w + 1) = (IF w \in ws /\ p[w] = s THEN T(w) \cup {w} ELSE T(w)) /\ w \notin T(w)
  <2>1. \A v \in ws : v \in Nat /\ ~(v < 1) /\ (v < w + 1 <=> v < w \/ v = w)
    OBVIOUS
  <2>2. T(1) = {} /\ w \notin T(w)
    <3>1. \A v \in ws : ~(v < 1)
      BY <2>1
    <3>2. ~(w < w)
      OBVIOUS
    <3> QED BY <3>1, <3>2
  <2>3. T(w + 1) = {v \in ws : (v < w \/ v = w) /\ p[v] = s}
    BY <2>1
  <2>4. T(w + 1) = IF w \in ws /\ p[w] = s THEN T(w) \cup {w} ELSE T(w)
    BY <2>3
  <2> QED BY <2>2, <2>4
<1>4. \A v \in Nat : v <= w => T(v) \in SUBSET T(w)
  <2>1. \A v \in Nat : v <= w => \A u \in ws : u < v => u < w
    OBVIOUS
  <2> QED BY <2>1
<1>. HIDE DEF T
<1>5. Cardinality(T(1)) = 0
  BY <1>3, FS_EmptySet
<1>6. Cardinality(T(w) \cup {w}) = Cardinality(T(w)) + 1
  BY <1>2, <1>3, FS_AddElement
<1>7. \A v \in Nat : v <= w => Cardinality(T(v)) <= Cardinality(T(w))
  BY <1>2, <1>4, FS_Subset
<1> QED BY <1>1, <1>2, <1>3, <1>5, <1>6, <1>7

\* Each of the shard's new tasks has a number of its own.
LEMMA BeforeNumbers ==
  ASSUME NEW n \in Nat, NEW p, DOMAIN p \in SUBSET (1..n), NEW s
  PROVE  /\ \A w \in DOMAIN p : p[w] = s => Before(p, w, s) + 1 \in 1..Before(p, n + 1, s)
         /\ \A v, w \in DOMAIN p : p[v] = s /\ p[w] = s /\ Before(p, v, s) = Before(p, w, s) => v = w
         /\ \A k \in 1..Before(p, n + 1, s) : \E w \in DOMAIN p : p[w] = s /\ Before(p, w, s) + 1 = k
<1>. DEFINE ws == DOMAIN p
            b(w) == Before(p, w, s)
<1>1. /\ b(1) = 0
      /\ \A w \in Nat : /\ b(w) \in Nat
                        /\ b(w + 1) = IF w \in ws /\ p[w] = s THEN b(w) + 1 ELSE b(w)
                        /\ \A v \in Nat : v <= w => b(v) <= b(w)
  <2>0. IsFiniteSet(DOMAIN p) /\ DOMAIN p \subseteq Nat \ {0}
    <3>1. IsFiniteSet(1..n) /\ 1..n \subseteq Nat \ {0}
      BY FS_Interval
    <3> QED BY <3>1, FS_Subset
  <2>1. Before(p, 1, s) = 0
    BY <2>0, BeforeSteps
  <2>2. ASSUME NEW w \in Nat
        PROVE  /\ Before(p, w, s) \in Nat
               /\ Before(p, w + 1, s) = IF w \in ws /\ p[w] = s THEN Before(p, w, s) + 1 ELSE Before(p, w, s)
               /\ \A v \in Nat : v <= w => Before(p, v, s) <= Before(p, w, s)
    BY <2>0, BeforeSteps
  <2> QED BY <2>1, <2>2
<1>. HIDE DEF b
<1>2. ASSUME NEW v \in ws, NEW w \in Nat, p[v] = s, v < w PROVE b(v) < b(w)
  <2>1. v + 1 \in Nat /\ v + 1 <= w /\ v \in Nat
    BY <1>2
  <2>2. b(v + 1) = b(v) + 1 /\ b(v + 1) <= b(w) /\ b(v) \in Nat /\ b(w) \in Nat
    BY <1>1, <1>2, <2>1
  <2> QED BY <2>2
<1>3. ASSUME NEW w \in ws, p[w] = s PROVE b(w) + 1 \in 1..b(n + 1)
  <2>1. w \in Nat /\ w < n + 1 /\ n + 1 \in Nat
    OBVIOUS
  <2>2. b(w) < b(n + 1) /\ b(w) \in Nat /\ b(n + 1) \in Nat
    BY <1>1, <1>2, <1>3, <2>1
  <2> QED BY <2>2
<1>4. ASSUME NEW v \in ws, NEW w \in ws, p[v] = s, p[w] = s, b(v) = b(w) PROVE v = w
  <2>1. v \in Nat /\ w \in Nat
    OBVIOUS
  <2>2. ~(v < w) /\ ~(w < v)
    BY <1>1, <1>2, <1>4, <2>1
  <2> QED BY <2>1, <2>2
<1>5. \A k \in 1..b(n + 1) : \E w \in ws : p[w] = s /\ b(w) + 1 = k
  <2>. DEFINE Good == {x \in Nat : \A k \in 1..b(x + 1) : \E w \in ws : p[w] = s /\ b(w) + 1 = k}
  <2>1. 0 \in Good
    BY <1>1
  <2>2. ASSUME NEW x \in Nat, x \in Good PROVE x + 1 \in Good
    <3>1. SUFFICES ASSUME NEW k \in 1..b(x + 2) PROVE \E w \in ws : p[w] = s /\ b(w) + 1 = k
      <4>1. x + 1 + 1 = x + 2
        OBVIOUS
      <4> QED BY <4>1
    <3>2. /\ b(x + 1) \in Nat /\ x + 1 \in Nat /\ x + 1 + 1 = x + 2
          /\ b(x + 1 + 1) = IF x + 1 \in ws /\ p[x + 1] = s THEN b(x + 1) + 1 ELSE b(x + 1)
      BY <1>1
    <3>3. CASE k \in 1..b(x + 1)
      BY <2>2, <3>3
    <3>4. CASE k \notin 1..b(x + 1)
      <4>1. x + 1 \in ws /\ p[x + 1] = s /\ k = b(x + 1) + 1
        BY <3>1, <3>2, <3>4
      <4> QED BY <4>1
    <3> QED BY <3>3, <3>4
  <2>3. n \in Good
    <3>. HIDE DEF Good
    <3> QED BY <2>1, <2>2, SetInduction
  <2> QED BY <2>3
<1>6. /\ \A w \in ws : p[w] = s => b(w) + 1 \in 1..b(n + 1)
      /\ \A v, w \in ws : p[v] = s /\ p[w] = s /\ b(v) = b(w) => v = w
  BY <1>3, <1>4
<1> QED BY <1>5, <1>6 DEF b

-----------------------------------------------------------------------------
(* Who gets which shard. *)

Books ==
  /\ setting \in Experiments /\ visits \in [Shards -> Nat] /\ updates \in [Shards -> Nat]
  /\ ModelId \in Nat

LEMMA PicksTyped ==
  ASSUME Books, NEW ws \in SUBSET Islands, NEW p \in Picks(ws)
  PROVE  /\ p \in [ws -> Shards] /\ DOMAIN p = ws
         /\ IsFiniteSet(ws) /\ ws \subseteq Nat \ {0} /\ ws \in SUBSET (1..NumWorkers)
         /\ ~setting.fixed => \A w \in ws : LeastVisited(p, w)
<1>1. Islands = 1..NumWorkers /\ Shards = Islands /\ NumWorkers \in Nat
  BY SimSettings DEF Books
<1>2. IsFiniteSet(1..NumWorkers) /\ 1..NumWorkers \subseteq Nat \ {0}
  BY <1>1, FS_Interval
<1>3. IsFiniteSet(ws) /\ ws \subseteq Nat \ {0}
  BY <1>1, <1>2, FS_Subset
<1>4. p \in [ws -> Shards] /\ (~setting.fixed => \A w \in ws : LeastVisited(p, w))
  <2>1. CASE setting.fixed
    <3>1. p = [w \in ws |-> w]
      BY <2>1 DEF Picks
    <3> QED BY <1>1, <2>1, <3>1
  <2>2. CASE ~setting.fixed
    BY <2>2 DEF Picks
  <2> QED BY <2>1, <2>2
<1> QED BY <1>1, <1>3, <1>4

LEMMA BeforeTyped ==
  ASSUME Books, NEW ws \in SUBSET Islands, NEW p \in Picks(ws), NEW s, NEW w \in Nat
  PROVE  Before(p, w, s) \in Nat
BY PicksTyped, BeforeSteps

LEMMA AssignEffect ==
  ASSUME Books, NEW ws \in SUBSET Islands, NEW p \in Picks(ws), Assign(p)
  PROVE  /\ visits' \in [Shards -> Nat] /\ updates' \in [Shards -> Nat]
         /\ \A s \in Shards : /\ Before(p, NumWorkers + 1, s) \in Nat
                              /\ visits'[s] = visits[s] + Before(p, NumWorkers + 1, s)
                              /\ updates'[s] = updates[s] + setting.inner * Before(p, NumWorkers + 1, s)
<1>1. NumWorkers + 1 \in Nat /\ setting.inner \in Nat
  BY SimSettings DEF Books
<1>2. \A s \in Shards : /\ Before(p, NumWorkers + 1, s) \in Nat
                        /\ setting.inner * Before(p, NumWorkers + 1, s) \in Nat
  <2>1. \A s \in Shards : Before(p, NumWorkers + 1, s) \in Nat
    BY <1>1, BeforeTyped
  <2>2. \A a, b \in Nat : a * b \in Nat
    OBVIOUS
  <2> QED BY <1>1, <2>1, <2>2
<1>3. /\ visits' = [s \in Shards |-> visits[s] + Before(p, NumWorkers + 1, s)]
      /\ updates' = [s \in Shards |-> updates[s] + setting.inner * Before(p, NumWorkers + 1, s)]
  BY DEF Assign
<1>4. \A s \in Shards : visits[s] \in Nat /\ updates[s] \in Nat
  BY DEF Books
<1> QED BY <1>2, <1>3, <1>4

LEMMA TaskTyped ==
  ASSUME Books, NEW ws \in SUBSET Islands, NEW p \in Picks(ws), NEW w \in ws
  PROVE  /\ Task(p, w) \in TasksOf(setting) /\ Task(p, w).island = w
         /\ Task(p, w).shard = p[w] /\ p[w] \in Shards /\ Task(p, w).model = ModelId
         /\ Before(p, w, p[w]) \in Nat
         /\ Task(p, w).upto = updates[p[w]] + setting.inner * (Before(p, w, p[w]) + 1)
<1>1. p[w] \in Shards /\ w \in Nat /\ setting.inner \in Nat
  <2>1. p \in [ws -> Shards] /\ ws \subseteq Nat \ {0}
    BY PicksTyped
  <2>2. setting.inner \in Nat
    BY SimSettings DEF Books
  <2> QED BY <2>1, <2>2
<1>2. Before(p, w, p[w]) \in Nat
  BY <1>1, BeforeTyped
<1>3. updates[p[w]] \in Nat /\ setting.inner * (Before(p, w, p[w]) + 1) \in Nat
  <2>1. \A a, b \in Nat : a * b \in Nat
    OBVIOUS
  <2> QED BY <1>1, <1>2, <2>1 DEF Books
<1>4. UpdatesFor(p, w) \in Nat
  BY <1>3 DEF UpdatesFor
<1>5. Shards = DOMAIN setting.paces /\ ModelId \in Nat
  BY DEF Shards, Islands, Books
<1> QED BY <1>1, <1>2, <1>4, <1>5 DEF Task, TasksOf, UpdatesFor

\* Shards are visited about as often when each task is of the least visited.
LEMMA Balanced ==
  ASSUME Books, NEW ws \in SUBSET Islands, NEW p \in Picks(ws), Assign(p), ~setting.fixed,
         \A s, o \in Shards : visits[s] <= visits[o] + 1
  PROVE  \A s, o \in Shards : visits'[s] <= visits'[o] + 1
<1>. DEFINE b(x, s) == visits[s] + Before(p, x, s)
            Good == {x \in Nat : \A s, o \in Shards : b(x + 1, s) <= b(x + 1, o) + 1}
<1>0. /\ p \in [ws -> Shards] /\ DOMAIN p = ws /\ IsFiniteSet(ws) /\ ws \subseteq Nat \ {0}
      /\ \A w \in ws : LeastVisited(p, w)
  BY PicksTyped
<1>1. ASSUME NEW s \in Shards
      PROVE  /\ b(1, s) = visits[s]
             /\ \A x \in Nat : /\ b(x, s) \in Nat
                               /\ b(x + 1, s) = IF x \in ws /\ p[x] = s THEN b(x, s) + 1 ELSE b(x, s)
  <2>1. visits[s] \in Nat
    BY DEF Books
  <2>2. Before(p, 1, s) = 0
    BY <1>0, BeforeSteps
  <2>3. ASSUME NEW x \in Nat
        PROVE  /\ Before(p, x, s) \in Nat
               /\ Before(p, x + 1, s) = IF x \in ws /\ p[x] = s THEN Before(p, x, s) + 1 ELSE Before(p, x, s)
    BY <1>0, BeforeSteps
  <2> QED BY <2>1, <2>2, <2>3
<1>2. \A w \in ws : p[w] \in Shards /\ \A s \in Shards : b(w, p[w]) <= b(w, s)
  BY <1>0 DEF LeastVisited
<1>3. \A s \in Shards : visits'[s] = b(NumWorkers + 1, s)
  BY AssignEffect
<1>. HIDE DEF b
<1>4. 0 \in Good
  BY <1>1
<1>5. ASSUME NEW x \in Nat, x \in Good PROVE x + 1 \in Good
  <2>1. SUFFICES ASSUME NEW s \in Shards, NEW o \in Shards PROVE b(x + 1 + 1, s) <= b(x + 1 + 1, o) + 1
    OBVIOUS
  <2>2. /\ b(x + 1, s) <= b(x + 1, o) + 1
        /\ b(x + 1, s) \in Nat /\ b(x + 1, o) \in Nat
    BY <1>1, <1>5
  <2>3. /\ b(x + 1 + 1, s) = IF x + 1 \in ws /\ p[x + 1] = s THEN b(x + 1, s) + 1 ELSE b(x + 1, s)
        /\ b(x + 1 + 1, o) = IF x + 1 \in ws /\ p[x + 1] = o THEN b(x + 1, o) + 1 ELSE b(x + 1, o)
    BY <1>1
  <2>4. x + 1 \in ws /\ p[x + 1] = s => b(x + 1, s) <= b(x + 1, o)
    BY <1>2
  <2> QED BY <2>2, <2>3, <2>4
<1>6. NumWorkers \in Good
  <2>1. NumWorkers \in Nat
    BY SimSettings DEF Books
  <2>. HIDE DEF Good
  <2> QED BY <1>4, <1>5, <2>1, SetInduction
<1> QED BY <1>3, <1>6

-----------------------------------------------------------------------------
(* The slices of the shards. *)

\* Each task of a shard has a number, up to the shard's visits, and every
\* number has its task.
Numbered(all, seen, upto) ==
  /\ \A t, u \in all : t.shard = u.shard /\ t.upto = u.upto => t = u
  /\ \A t \in all : t.shard \in Shards /\ \E n \in 1..seen[t.shard] : t.upto = setting.inner * n
  /\ \A s \in Shards : \A n \in 1..seen[s] : \E t \in all : t.shard = s /\ t.upto = setting.inner * n
  /\ \A s \in Shards : upto[s] = setting.inner * seen[s]

\* New tasks have the next numbers.
LEMMA NumberedMore ==
  ASSUME Books, NEW ws \in SUBSET Islands, NEW p \in Picks(ws), Assign(p),
         NEW all, Numbered(all, visits, updates)
  PROVE  Numbered(all \cup {Task(p, w) : w \in ws}, visits', updates')
<1>. DEFINE i == setting.inner
            b(w) == Before(p, w, p[w])
            e(s) == Before(p, NumWorkers + 1, s)
            new == {Task(p, w) : w \in ws}
<1>1. i \in Nat \ {0} /\ NumWorkers \in Nat /\ \A s \in Shards : visits[s] \in Nat
  BY SimSettings DEF Books
<1>2. \A s \in Shards : /\ e(s) \in Nat /\ visits'[s] = visits[s] + e(s)
                        /\ updates'[s] = updates[s] + i * e(s) /\ updates[s] = i * visits[s]
  BY AssignEffect DEF Numbered
<1>3. ASSUME NEW w \in ws
      PROVE  /\ Task(p, w).shard = p[w] /\ p[w] \in Shards /\ b(w) \in Nat /\ Task(p, w).island = w
             /\ Task(p, w).upto = i * (visits[p[w]] + b(w) + 1)
  <2>1. /\ Task(p, w).shard = p[w] /\ p[w] \in Shards /\ b(w) \in Nat /\ Task(p, w).island = w
        /\ Task(p, w).upto = updates[p[w]] + i * (b(w) + 1)
    BY TaskTyped
  <2>2. \A x, y \in Nat : i * x + i * (y + 1) = i * (x + y + 1)
    BY <1>1
  <2>3. updates[p[w]] = i * visits[p[w]] /\ visits[p[w]] \in Nat
    BY <1>1, <1>2, <2>1
  <2>. HIDE DEF i, b
  <2> QED BY <2>1, <2>2, <2>3
<1>4. /\ DOMAIN p = ws /\ ws \in SUBSET (1..NumWorkers)
  BY PicksTyped
<1>5. ASSUME NEW s \in Shards
      PROVE  /\ \A w \in ws : p[w] = s => Before(p, w, s) + 1 \in 1..e(s)
             /\ \A v, w \in ws : p[v] = s /\ p[w] = s /\ Before(p, v, s) = Before(p, w, s) => v = w
             /\ \A k \in 1..e(s) : \E w \in ws : p[w] = s /\ Before(p, w, s) + 1 = k
  <2>1. DOMAIN p \in SUBSET (1..NumWorkers) /\ NumWorkers \in Nat
    BY <1>1, <1>4
  <2>2. /\ \A w \in DOMAIN p : p[w] = s => Before(p, w, s) + 1 \in 1..Before(p, NumWorkers + 1, s)
        /\ \A v, w \in DOMAIN p : p[v] = s /\ p[w] = s /\ Before(p, v, s) = Before(p, w, s) => v = w
        /\ \A k \in 1..Before(p, NumWorkers + 1, s) : \E w \in DOMAIN p : p[w] = s /\ Before(p, w, s) + 1 = k
    BY <2>1, BeforeNumbers
  <2> QED BY <1>4, <2>2
<1>6. /\ \A w \in ws : b(w) + 1 \in 1..e(p[w])
      /\ \A v, w \in ws : p[v] = p[w] /\ b(v) = b(w) => v = w
      /\ \A s \in Shards : \A k \in 1..e(s) : \E w \in ws : p[w] = s /\ b(w) + 1 = k
  BY <1>3, <1>5
<1>7. /\ \A t, u \in all : t.shard = u.shard /\ t.upto = u.upto => t = u
      /\ \A t \in all : t.shard \in Shards /\ \E n \in 1..visits[t.shard] : t.upto = i * n
      /\ \A s \in Shards : \A n \in 1..visits[s] : \E t \in all : t.shard = s /\ t.upto = i * n
  BY DEF Numbered
<1>8. \A x, y \in Int : (i * x = i * y <=> x = y) /\ i * x + i * y = i * (x + y)
  <2>1. PICK d \in Nat \ {0} : d = i
    BY <1>1
  <2>2. \A x, y \in Int : (d * x = d * y <=> x = y) /\ d * x + d * y = d * (x + y)
    OBVIOUS
  <2> QED BY <2>1, <2>2
<1>. HIDE DEF i, b, e
<1>9. ASSUME NEW t \in all, NEW w \in ws, t.shard = Task(p, w).shard, t.upto = Task(p, w).upto PROVE FALSE
  <2>1. PICK n \in 1..visits[p[w]] : t.upto = i * n
    BY <1>3, <1>7, <1>9
  <2>0. visits[p[w]] \in Nat /\ b(w) \in Nat
    BY <1>1, <1>3
  <2>2. n \in Int /\ visits[p[w]] + b(w) + 1 \in Int /\ i * n = i * (visits[p[w]] + b(w) + 1)
    <3>1. n \in Int /\ visits[p[w]] + b(w) + 1 \in Int
      BY <2>0
    <3>2. i * n = i * (visits[p[w]] + b(w) + 1)
      BY <1>3, <1>9, <2>1
    <3> QED BY <3>1, <3>2
  <2>3. n = visits[p[w]] + b(w) + 1
    BY <1>8, <2>2
  <2> QED BY <1>1, <1>3, <2>1, <2>3
<1>10. ASSUME NEW v \in ws, NEW w \in ws, Task(p, v).shard = Task(p, w).shard, Task(p, v).upto = Task(p, w).upto
       PROVE  v = w
  <2>1. p[v] = p[w] /\ i * (visits[p[w]] + b(v) + 1) = i * (visits[p[w]] + b(w) + 1)
    BY <1>3, <1>10
  <2>2. visits[p[w]] \in Nat /\ b(v) \in Nat /\ b(w) \in Nat
    BY <1>1, <1>3
  <2>3. visits[p[w]] + b(v) + 1 = visits[p[w]] + b(w) + 1
    <3>1. visits[p[w]] + b(v) + 1 \in Int /\ visits[p[w]] + b(w) + 1 \in Int
      BY <2>2
    <3> QED BY <1>8, <2>1, <3>1
  <2>4. b(v) = b(w)
    BY <2>2, <2>3
  <2> QED BY <1>6, <2>1, <2>4
<1>11. \A t, u \in all \cup new : t.shard = u.shard /\ t.upto = u.upto => t = u
  BY <1>7, <1>9, <1>10
<1>12. ASSUME NEW t \in all \cup new
       PROVE  t.shard \in Shards /\ \E n \in 1..visits'[t.shard] : t.upto = i * n
  <2>1. CASE t \in all
    <3>1. PICK n \in 1..visits[t.shard] : t.upto = i * n
      BY <1>7, <2>1
    <3>2. t.shard \in Shards
      BY <1>7, <2>1
    <3>3. n \in 1..visits'[t.shard]
      BY <1>1, <1>2, <3>1, <3>2
    <3> QED BY <3>1, <3>2, <3>3
  <2>2. CASE t \in new
    <3>1. PICK w \in ws : t = Task(p, w)
      BY <2>2
    <3>2. t.shard = p[w] /\ p[w] \in Shards /\ t.upto = i * (visits[p[w]] + b(w) + 1)
      BY <1>3, <3>1
    <3>3. visits[p[w]] + b(w) + 1 \in 1..visits'[p[w]]
      <4>1. b(w) + 1 \in 1..e(p[w]) /\ b(w) \in Nat /\ visits[p[w]] \in Nat /\ e(p[w]) \in Nat
        BY <1>1, <1>2, <1>3, <1>6
      <4>2. visits'[p[w]] = visits[p[w]] + e(p[w])
        BY <1>2, <1>3
      <4> QED BY <4>1, <4>2
    <3> QED BY <3>2, <3>3
  <2> QED BY <2>1, <2>2
<1>13. ASSUME NEW s \in Shards, NEW n \in 1..visits'[s]
       PROVE  \E t \in all \cup new : t.shard = s /\ t.upto = i * n
  <2>1. CASE n <= visits[s]
    <3>1. n \in 1..visits[s]
      BY <1>1, <2>1
    <3> QED BY <1>7, <3>1
  <2>2. CASE ~(n <= visits[s])
    <3>1. n - visits[s] \in 1..e(s) /\ visits[s] \in Nat
      BY <1>1, <1>2, <2>2
    <3>2. PICK w \in ws : p[w] = s /\ b(w) + 1 = n - visits[s]
      BY <1>6, <3>1
    <3>3. visits[s] + b(w) + 1 = n
      BY <1>3, <3>1, <3>2
    <3>4. Task(p, w).shard = s /\ Task(p, w).upto = i * n
      BY <1>3, <3>2, <3>3
    <3> QED BY <3>4
  <2> QED BY <2>1, <2>2
<1>14. \A s \in Shards : updates'[s] = i * visits'[s]
  <2>1. ASSUME NEW s \in Shards PROVE updates'[s] = i * visits'[s]
    <3>1. /\ visits[s] \in Int /\ e(s) \in Int
      BY <1>1, <1>2
    <3>2. i * visits[s] + i * e(s) = i * (visits[s] + e(s))
      BY <1>8, <3>1
    <3> QED BY <1>2, <3>2
  <2> QED BY <2>1
<1> QED BY <1>11, <1>12, <1>13, <1>14 DEF Numbered, i

\* As many tasks read a shard as it was visited, and no two the same batches.
LEMMA NumberedApart ==
  ASSUME setting \in Experiments, NEW all, NEW seen \in [Shards -> Nat], NEW upto, Numbered(all, seen, upto)
  PROVE  /\ \A t, u \in all : t # u /\ t.shard = u.shard => Slice(t) \cap Slice(u) = {}
         /\ \A s \in Shards : /\ setting.inner * Cardinality({t \in all : t.shard = s}) = upto[s]
                              /\ Cardinality({t \in all : t.shard = s}) = seen[s]
<1>. DEFINE i == setting.inner
<1>1. i \in Nat \ {0}
  BY SimSettings
<1>2. \A x, y \in Int : (i * x = i * y <=> x = y) /\ i * x \in Int /\ (x < y => i * x + i <= i * y)
  BY <1>1
<1>3. /\ \A t, u \in all : t.shard = u.shard /\ t.upto = u.upto => t = u
      /\ \A t \in all : t.shard \in Shards /\ \E n \in 1..seen[t.shard] : t.upto = i * n
      /\ \A s \in Shards : \A n \in 1..seen[s] : \E t \in all : t.shard = s /\ t.upto = i * n
      /\ \A s \in Shards : upto[s] = i * seen[s] /\ seen[s] \in Nat
  BY DEF Numbered
<1>4. \A t : Slice(t) = (t.upto - i + 1)..t.upto
  BY DEF Slice
<1>. HIDE DEF i
<1>5. ASSUME NEW t \in all, NEW u \in all, t # u, t.shard = u.shard PROVE Slice(t) \cap Slice(u) = {}
  <2>1. PICK n \in 1..seen[t.shard] : t.upto = i * n
    BY <1>3
  <2>2. PICK k \in 1..seen[t.shard] : u.upto = i * k
    BY <1>3, <1>5
  <2>3. n < k \/ k < n
    BY <1>3, <1>5, <2>1, <2>2
  <2>4. \/ i * n + i <= i * k
        \/ i * k + i <= i * n
    BY <1>2, <2>3
  <2>5. i * n \in Int /\ i * k \in Int
    BY <1>2
  <2>6. PICK x \in Int : x = i * n
    BY <2>5
  <2>7. PICK y \in Int : y = i * k
    BY <2>5
  <2>8. Slice(t) = (x - i + 1)..x /\ Slice(u) = (y - i + 1)..y
    BY <1>4, <2>1, <2>2, <2>6, <2>7
  <2>9. x + i <= y \/ y + i <= x
    BY <2>4, <2>6, <2>7
  <2>10. ((x - i + 1)..x) \cap ((y - i + 1)..y) = {}
    BY <1>1, <2>9
  <2> QED BY <2>8, <2>10
<1>6. ASSUME NEW s \in Shards PROVE Cardinality({t \in all : t.shard = s}) = seen[s]
  <2>. DEFINE of == {t \in all : t.shard = s}
              f == [n \in 1..seen[s] |-> CHOOSE t \in all : t.shard = s /\ t.upto = i * n]
  <2>1. \A n \in 1..seen[s] : f[n] \in of /\ f[n].upto = i * n
    BY <1>3
  <2>2. f \in [1..seen[s] -> of]
    BY <2>1
  <2>3. \A n, k \in 1..seen[s] : f[n] = f[k] => n = k
    <3>1. \A n, k \in 1..seen[s] : f[n] = f[k] => i * n = i * k
      BY <2>1
    <3>. HIDE DEF f
    <3> QED BY <1>2, <3>1
  <2>4. \A t \in of : \E n \in 1..seen[s] : f[n] = t
    BY <1>3, <2>1
  <2>. HIDE DEF f, of
  <2>5. f \in Bijection(1..seen[s], of)
    BY <2>2, <2>3, <2>4 DEF Bijection, Injection, Surjection, IsInjective
  <2>6. ExistsBijection(1..seen[s], of)
    BY <2>5 DEF ExistsBijection
  <2>7. Cardinality(of) = seen[s]
    BY <1>3, <2>6, FS_CountingElements
  <2> QED BY <2>7 DEF of
<1> QED BY <1>3, <1>5, <1>6 DEF i

-----------------------------------------------------------------------------
(* How many tasks there are. *)

LEMMA SameBusy ==
  ASSUME CountInv
  PROVE  /\ \A w \in Islands : w \in Idle <=> tasks[w] = <<>>
         /\ \A w \in Islands \ Idle : Len(tasks[w]) = 1 /\ tasks[w][1] \in TasksOf(setting) /\ DOMAIN tasks[w] = {1}
         /\ Running = {tasks[w][1] : w \in Islands \ Idle}
<1>1. \A w \in Islands : w \in Idle <=> tasks[w] = <<>>
  BY DEF Idle
<1>2. ASSUME NEW w \in Islands \ Idle
      PROVE  Len(tasks[w]) = 1 /\ tasks[w][1] \in TasksOf(setting) /\ DOMAIN tasks[w] = {1}
  <2>1. tasks[w] \in Seq(TasksOf(setting)) /\ Len(tasks[w]) = 1
    BY DEF CountInv
  <2>2. 1..1 = {1}
    OBVIOUS
  <2> QED BY <2>1, <2>2
<1>3. \A w \in Islands : ToSet(tasks[w]) = IF w \in Idle THEN {} ELSE {tasks[w][1]}
  <2>1. ASSUME NEW w \in Idle PROVE ToSet(tasks[w]) = {}
    <3>1. tasks[w] = <<>> /\ DOMAIN <<>> = {}
      BY DEF Idle
    <3> QED BY <3>1 DEF ToSet
  <2>2. ASSUME NEW w \in Islands \ Idle PROVE ToSet(tasks[w]) = {tasks[w][1]}
    BY <1>2 DEF ToSet
  <2> QED BY <2>1, <2>2
<1>4. Running = {tasks[w][1] : w \in Islands \ Idle}
  <2>1. ASSUME NEW t \in Running PROVE t \in {tasks[w][1] : w \in Islands \ Idle}
    <3>1. PICK w \in Islands : t \in ToSet(tasks[w])
      BY DEF Running
    <3> QED BY <1>3, <3>1
  <2>2. ASSUME NEW w \in Islands \ Idle PROVE tasks[w][1] \in Running
    <3>1. tasks[w][1] \in ToSet(tasks[w])
      BY <1>3
    <3> QED BY <3>1 DEF Running
  <2> QED BY <2>1, <2>2
<1> QED BY <1>1, <1>2, <1>4

\* Pushes and running tasks, at most one for each worker.
LEMMA TasksCounted ==
  ASSUME CountInv
  PROVE  /\ IsFiniteSet(AllTasks) /\ Cardinality(AllTasks) \in Nat
         /\ Cardinality(AllTasks) <= Len(pushed) + NumWorkers
         /\ Idle = Islands => Cardinality(AllTasks) <= Len(pushed)
<1>. DEFINE busy == Islands \ Idle
            done == {pushed[i].task : i \in DOMAIN pushed}
            f == [w \in busy |-> tasks[w][1]]
            g == [i \in DOMAIN pushed |-> pushed[i].task]
<1>1. Len(pushed) \in Nat /\ DOMAIN pushed = 1..Len(pushed)
  BY DEF CountInv
<1>2. NumWorkers \in Nat /\ Islands = 1..NumWorkers
  BY SimSettings DEF CountInv
<1>3. /\ IsFiniteSet(1..Len(pushed)) /\ Cardinality(1..Len(pushed)) = Len(pushed)
      /\ IsFiniteSet(1..NumWorkers) /\ Cardinality(1..NumWorkers) = NumWorkers
  <2>1. \A n \in Nat : IsFiniteSet(1..n) /\ Cardinality(1..n) = n
    <3>1. \A n \in Nat : IsFiniteSet(1..n) /\ Cardinality(1..n) = IF 1 > n THEN 0 ELSE n - 1 + 1
      BY FS_Interval
    <3> QED BY <3>1
  <2> QED BY <1>1, <1>2, <2>1
<1>4. /\ IsFiniteSet(busy) /\ Cardinality(busy) <= NumWorkers /\ Cardinality(busy) \in Nat
      /\ (Idle = Islands => Cardinality(busy) = 0)
  <2>1. busy \in SUBSET (1..NumWorkers)
    BY <1>2
  <2>2. Idle = Islands => busy = {}
    OBVIOUS
  <2>. HIDE DEF busy
  <2>3. IsFiniteSet(busy) /\ Cardinality(busy) <= NumWorkers
    BY <1>3, <2>1, FS_Subset
  <2>4. Cardinality(busy) \in Nat
    BY <2>3, FS_CardinalityType
  <2>5. busy = {} => Cardinality(busy) = 0
    BY FS_EmptySet
  <2> QED BY <2>2, <2>3, <2>4, <2>5
<1>5. f \in Surjection(busy, Running)
  <2>1. Running = {tasks[w][1] : w \in busy}
    BY SameBusy
  <2> QED BY <2>1 DEF Surjection
<1>6. g \in Surjection(DOMAIN pushed, done)
  BY DEF Surjection
<1>7. AllTasks = Running \cup done
  BY DEF AllTasks
<1>. HIDE DEF busy, done, f, g
<1>8. IsFiniteSet(Running) /\ Cardinality(Running) <= Cardinality(busy)
  BY <1>4, <1>5, FS_Surjection
<1>9. IsFiniteSet(done) /\ Cardinality(done) <= Len(pushed)
  BY <1>1, <1>3, <1>6, FS_Surjection
<1>10. /\ IsFiniteSet(AllTasks)
       /\ Cardinality(AllTasks) = Cardinality(Running) + Cardinality(done) - Cardinality(Running \cap done)
  BY <1>7, <1>8, <1>9, FS_Union
<1>11. IsFiniteSet(Running \cap done)
  BY <1>8, FS_Intersection
<1>12. /\ Cardinality(Running) \in Nat /\ Cardinality(done) \in Nat /\ Cardinality(Running \cap done) \in Nat
       /\ Cardinality(AllTasks) \in Nat
  BY <1>8, <1>9, <1>10, <1>11, FS_CardinalityType
<1> QED BY <1>1, <1>2, <1>4, <1>8, <1>9, <1>10, <1>12

\* How far a run is.
LEMMA Progress ==
  ASSUME CountInv
  PROVE  /\ Pulses \in Nat /\ Pulses <= InAll /\ (Finished <=> Pulses = InAll) /\ (~Finished <=> Pulses < InAll)
         /\ Finished <=> total = MaxUpdates
<1>1. Pulses \in Nat /\ total = Pulse * Pulses /\ total <= MaxUpdates /\ total \in Nat
  BY DEF CountInv, Pulses
<1>2. Pulse \in Nat \ {0} /\ InAll \in Nat \ {0} /\ MaxUpdates = Pulse * InAll
  BY SimSettings DEF CountInv
<1>3. PICK d \in Nat \ {0} : d = Pulse
  BY <1>2
<1>4. PICK a \in Nat : a = Pulses
  BY <1>1
<1>5. PICK m \in Nat : m = InAll
  BY <1>2
<1>6. total = d * a /\ MaxUpdates = d * m /\ d * a <= d * m
  BY <1>1, <1>2, <1>3, <1>4, <1>5
<1>7. a <= m /\ (d * a >= d * m <=> a = m) /\ (a = m <=> d * a = d * m)
  BY <1>6
<1> QED BY <1>4, <1>5, <1>6, <1>7 DEF Finished

Few == IsFiniteSet(AllTasks) /\ Cardinality(AllTasks) < NumWorkers * (setting.phases + 1)

LEMMA FewTasks == CountInv /\ (setting.sync \/ ~Finished) => Few
<1>0. SUFFICES ASSUME CountInv, setting.sync \/ ~Finished
               PROVE  IsFiniteSet(AllTasks) /\ Cardinality(AllTasks) < NumWorkers * (setting.phases + 1)
  BY DEF Few
<1>1. PICK n \in Nat \ {0} : n = NumWorkers
  BY <1>0, SimSettings DEF CountInv
<1>2. PICK m \in Nat \ {0} : m = setting.phases
  BY <1>0, SimSettings DEF CountInv
<1>3. n * (m + 1) = n * m + n
  OBVIOUS
<1>4. CASE setting.sync
  <2>1. /\ Len(pushed) = n * Len(applied) /\ Idle = Islands /\ Len(applied) \in Nat
        /\ Len(applied) <= m
    BY <1>0, <1>1, <1>2, <1>4, Progress DEF CountInv, Pulses, InAll
  <2>2. n * Len(applied) <= n * m
    BY <2>1
  <2> QED BY <1>0, <1>1, <1>2, <1>3, <2>1, <2>2, TasksCounted
<1>5. CASE ~setting.sync
  <2>1. InAll = n * m /\ n * m \in Nat
    <3>1. InAll = NumWorkers * setting.phases
      BY <1>5 DEF InAll
    <3> QED BY <1>1, <1>2, <3>1
  <2>2. Pulses = Len(pushed) /\ Pulses < InAll /\ Pulses \in Nat
    BY <1>0, <1>5, Progress DEF Pulses
  <2> QED BY <1>0, <1>1, <1>2, <1>3, <2>1, <2>2, TasksCounted
<1> QED BY <1>4, <1>5

\* With that few, no shard is visited more than once beyond its share.
LEMMA VisitsBounded ==
  ASSUME setting \in Experiments, NEW all, NEW seen \in [Shards -> Nat], NEW upto, Numbered(all, seen, upto),
         IsFiniteSet(all), Cardinality(all) < NumWorkers * (setting.phases + 1),
         \A s, o \in Shards : seen[s] <= seen[o] + 1
  PROVE  \A s \in Shards : seen[s] <= setting.phases + 1
<1>1. PICK n \in Nat \ {0} : n = NumWorkers
  BY SimSettings
<1>2. PICK m \in Nat \ {0} : m = setting.phases + 1 /\ setting.phases \in Nat
  BY SimSettings
<1>3. PICK i \in Nat \ {0} : i = setting.inner
  BY SimSettings
<1>4. Shards = 1..n
  BY <1>1, SimSettings
<1>5. SUFFICES ASSUME NEW s \in Shards, seen[s] > m PROVE FALSE
  BY <1>2
<1>6. \A o \in Shards : seen[o] >= m /\ seen[o] \in Nat
  <2>1. \A o \in Shards : seen[s] <= seen[o] + 1 /\ seen[o] \in Nat /\ seen[s] \in Nat
    OBVIOUS
  <2> QED BY <1>5, <2>1
<1>. DEFINE Of(t, x) == t.shard = x[1] /\ t.upto = i * x[2]
            f == [x \in Shards \X (1..m) |-> CHOOSE t \in all : Of(t, x)]
<1>7. ASSUME NEW x \in Shards \X (1..m) PROVE \E t \in all : Of(t, x)
  <2>1. x[1] \in Shards /\ x[2] \in 1..seen[x[1]]
    BY <1>6
  <2>2. \A o \in Shards : \A k \in 1..seen[o] : \E t \in all : t.shard = o /\ t.upto = i * k
    BY <1>3 DEF Numbered
  <2> QED BY <2>1, <2>2
<1>8. \A x \in Shards \X (1..m) : f[x] \in all /\ Of(f[x], x)
  <2>. HIDE DEF Of
  <2> QED BY <1>7
<1>9. f \in [Shards \X (1..m) -> all]
  BY <1>8
<1>10. ASSUME NEW x \in Shards \X (1..m), NEW y \in Shards \X (1..m), f[x] = f[y] PROVE x = y
  <2>1. Of(f[x], x) /\ Of(f[x], y)
    BY <1>8, <1>10
  <2>. HIDE DEF f
  <2>2. x[1] = y[1] /\ i * x[2] = i * y[2]
    BY <2>1
  <2>3. x[2] = y[2]
    <3>1. x[2] \in Nat /\ y[2] \in Nat
      OBVIOUS
    <3> QED BY <2>2, <3>1
  <2> QED BY <2>2, <2>3
<1>11. f \in Injection(Shards \X (1..m), all)
  <2>. HIDE DEF f, Of
  <2> QED BY <1>9, <1>10 DEF Injection, IsInjective
<1>. HIDE DEF f
<1>12. Cardinality(Shards \X (1..m)) <= Cardinality(all)
  BY <1>11, FS_Injection
<1>13. /\ IsFiniteSet(1..n) /\ Cardinality(1..n) = n
       /\ IsFiniteSet(1..m) /\ Cardinality(1..m) = m
  <2>1. \A k \in Nat \ {0} : IsFiniteSet(1..k) /\ Cardinality(1..k) = IF 1 > k THEN 0 ELSE k - 1 + 1
    BY FS_Interval
  <2> QED BY <2>1
<1>14. Cardinality(Shards \X (1..m)) = n * m
  <2>1. Cardinality(Shards \X (1..m)) = Cardinality(1..n) * Cardinality(1..m)
    BY <1>4, <1>13, FS_Product
  <2> QED BY <1>13, <2>1
<1>15. Cardinality(all) \in Nat /\ Cardinality(all) < n * m
  BY <1>1, <1>2, FS_CardinalityType
<1>16. n * m \in Nat
  OBVIOUS
<1> QED BY <1>12, <1>14, <1>15, <1>16

-----------------------------------------------------------------------------
(* What the steps do; CountInv. *)

LEMMA CountBooks ==
  ASSUME CountInv
  PROVE  Books /\ Len(pushed) \in Nat /\ Len(applied) \in Nat
  BY DEF CountInv, Books, ModelId

LEMMA Evaluated ==
  ASSUME setting \in Experiments, NEW n \in 0..MaxUpdates, Evaluate(n), target \in Nat, stats \in Seq(0..MaxUpdates)
  PROVE  /\ target' \in Nat /\ stats' \in Seq(0..MaxUpdates)
         /\ IF n >= target \/ n >= MaxUpdates THEN target' = target + EvalInterval /\ stats' = Append(stats, n)
                                              ELSE target' = target /\ stats' = stats
<1>1. MaxUpdates \in Nat /\ EvalInterval \in Nat
  BY SimSettings
<1>2. Due(n) <=> n >= target \/ n >= MaxUpdates
  <2>1. Min({target, MaxUpdates}) = IF target <= MaxUpdates THEN target ELSE MaxUpdates
    BY <1>1, Smaller
  <2> QED BY <1>1, <2>1 DEF Due
<1>3. target + EvalInterval \in Nat /\ Append(stats, n) \in Seq(0..MaxUpdates)
  BY <1>1
<1> QED BY <1>2, <1>3 DEF Evaluate

LEMMA DispatchEffect ==
  ASSUME CountInv, NEW ws \in SUBSET Idle, NEW p \in Picks(ws), Dispatch(p), setting' = setting
  PROVE  /\ tasks' \in [Islands -> Seq(TasksOf(setting))] /\ finish' \in [Islands -> Nat]
         /\ \A w \in Islands :
              IF w \in ws
              THEN tasks'[w] = <<Task(p, w)>> /\ finish'[w] = finish[w] + setting.inner * setting.paces[w]
              ELSE tasks'[w] = tasks[w] /\ finish'[w] = finish[w]
         /\ Islands' = Islands /\ Idle' = Idle \ ws /\ \A w \in (Islands \ Idle)' : Len(tasks'[w]) = 1
         /\ Running' = Running \cup {Task(p, w) : w \in ws}
         /\ visits' \in [Shards -> Nat] /\ updates' \in [Shards -> Nat]
<1>1. Idle \subseteq Islands /\ ws \in SUBSET Islands /\ Islands' = Islands /\ DOMAIN p = ws
  <2>1. ws \in SUBSET Islands
    BY DEF Idle
  <2> QED BY <2>1, PicksTyped, CountBooks, SameSetting DEF Idle
<1>2. \A w \in ws : Task(p, w) \in TasksOf(setting) /\ <<Task(p, w)>> \in Seq(TasksOf(setting)) /\ <<Task(p, w)>> # <<>>
  BY <1>1, TaskTyped, CountBooks
<1>3. /\ finish \in [Islands -> Nat] /\ tasks \in [Islands -> Seq(TasksOf(setting))]
      /\ \A w \in Islands : setting.inner * setting.paces[w] \in Nat
  BY SimSettings DEF CountInv
<1>4. /\ tasks' = [w \in Islands |-> IF w \in ws THEN <<Task(p, w)>> ELSE tasks[w]]
      /\ finish' = [w \in Islands |-> IF w \in ws THEN finish[w] + setting.inner * setting.paces[w] ELSE finish[w]]
  BY <1>1 DEF Dispatch, TrainedBy
<1>5. /\ \A w \in Islands :
           IF w \in ws
           THEN tasks'[w] = <<Task(p, w)>> /\ finish'[w] = finish[w] + setting.inner * setting.paces[w]
           ELSE tasks'[w] = tasks[w] /\ finish'[w] = finish[w]
  BY <1>4
<1>6. tasks' \in [Islands -> Seq(TasksOf(setting))]
  BY <1>2, <1>3, <1>4
<1>7. finish' \in [Islands -> Nat]
  BY <1>3, <1>4
<1>8. Idle' = Idle \ ws
  BY <1>1, <1>2, <1>5 DEF Idle
<1>9. \A w \in (Islands \ Idle)' : Len(tasks'[w]) = 1
  <2>1. \A w \in Islands \ Idle : Len(tasks[w]) = 1
    BY DEF CountInv
  <2>2. \A w \in ws : Len(tasks'[w]) = 1
    <3>1. \A x : Len(<<x>>) = 1
      OBVIOUS
    <3> QED BY <1>1, <1>5, <3>1
  <2> QED BY <1>1, <1>5, <1>8, <2>1, <2>2
<1>10. Running' = Running \cup {Task(p, w) : w \in ws}
  <2>1. \A w \in Islands : ToSet(tasks'[w]) = IF w \in ws THEN {Task(p, w)} ELSE ToSet(tasks[w])
    <3>1. \A x : ToSet(<<x>>) = {x}
      <4>1. \A x : DOMAIN <<x>> = {1} /\ <<x>>[1] = x
        OBVIOUS
      <4> QED BY <4>1 DEF ToSet
    <3> QED BY <1>5, <3>1
  <2>2. \A w \in ws : ToSet(tasks[w]) = {}
    <3>1. \A w \in ws : tasks[w] = <<>> /\ DOMAIN <<>> = {}
      BY DEF Idle
    <3> QED BY <3>1 DEF ToSet
  <2>3. Running = UNION {ToSet(tasks[w]) : w \in Islands} /\ Running' = UNION {ToSet(tasks'[w]) : w \in Islands}
    BY <1>1 DEF Running
  <2>4. ASSUME NEW t \in Running' PROVE t \in Running \cup {Task(p, w) : w \in ws}
    <3>1. PICK w \in Islands : t \in ToSet(tasks'[w])
      BY <2>3
    <3> QED BY <2>1, <2>3, <3>1
  <2>5. ASSUME NEW t \in Running \cup {Task(p, w) : w \in ws} PROVE t \in Running'
    <3>1. CASE t \in Running
      <4>1. PICK w \in Islands : t \in ToSet(tasks[w])
        BY <2>3, <3>1
      <4>2. t \in ToSet(tasks'[w])
        BY <2>1, <2>2, <4>1
      <4> QED BY <2>3, <4>2
    <3>2. CASE t \notin Running
      <4>1. PICK w \in ws : t = Task(p, w)
        BY <2>5, <3>2
      <4>2. w \in Islands /\ t \in ToSet(tasks'[w])
        BY <1>1, <2>1, <4>1
      <4> QED BY <2>3, <4>2
    <3> QED BY <3>1, <3>2
  <2> QED BY <2>4, <2>5
<1>11. visits' \in [Shards -> Nat] /\ updates' \in [Shards -> Nat]
  <2>1. Assign(p)
    BY DEF Dispatch
  <2> QED BY <1>1, <2>1, AssignEffect, CountBooks
<1> QED BY <1>1, <1>5, <1>6, <1>7, <1>8, <1>9, <1>10, <1>11

\* Pulses once more.
LEMMA OncePulsed ==
  ASSUME CountInv, ~Finished, setting' = setting, total' = total + Pulse, Pulses' = Pulses + 1
  PROVE  total' = Pulse' * Pulses' /\ total' <= MaxUpdates' /\ total' \in Nat /\ total' \in 0..MaxUpdates
<1>1. PICK d \in Nat \ {0} : d = Pulse
  BY SimSettings DEF CountInv
<1>2. PICK m \in Nat : m = InAll
  BY SimSettings DEF CountInv
<1>3. PICK a \in Nat : a = Pulses /\ a < m
  BY <1>2, Progress
<1>4. total = d * a /\ MaxUpdates = d * m
  BY <1>1, <1>2, <1>3, SimSettings DEF CountInv
<1>5. d * a + d = d * (a + 1) /\ d * (a + 1) <= d * m /\ d * (a + 1) \in Nat /\ d * m \in Nat
  BY <1>3
<1>6. Pulse' = Pulse /\ MaxUpdates' = MaxUpdates
  BY SameSetting
<1>7. total' = d * (a + 1) /\ Pulse' * Pulses' = d * (a + 1)
  BY <1>1, <1>3, <1>4, <1>5, <1>6
<1> QED BY <1>4, <1>5, <1>6, <1>7

LEMMA CountStart ==
  ASSUME CountInv, Start
  PROVE  CountInv'
<1>1. /\ place = "start" /\ place' = "loop" /\ Evaluate(0) /\ setting' = setting
      /\ clock' = clock /\ began' = began /\ total' = total /\ pushed' = pushed /\ grads' = grads /\ applied' = applied
  BY DEF Start
<1>2. setting \in Experiments /\ target' \in Nat /\ stats' \in Seq(0..MaxUpdates)
  <2>1. 0 \in 0..MaxUpdates
    BY SimSettings DEF CountInv
  <2> QED BY <1>1, <2>1, Evaluated DEF CountInv
<1>3. Idle = Islands
  BY <1>1 DEF CountInv
<1>4. /\ tasks' \in [Islands -> Seq(TasksOf(setting))] /\ finish' \in [Islands -> Nat]
      /\ \A w \in (Islands \ Idle)' : Len(tasks'[w]) = 1
      /\ visits' \in [Shards -> Nat] /\ updates' \in [Shards -> Nat]
      /\ setting.sync => Idle' = Idle
  <2>1. CASE setting.sync
    <3>1. UNCHANGED <<tasks, finish, visits, updates>>
      BY <2>1 DEF Start
    <3>2. Idle' = Idle /\ Islands' = Islands
      BY <1>1, <3>1, SameSetting DEF Idle
    <3> QED BY <1>3, <3>1, <3>2 DEF CountInv
  <2>2. CASE ~setting.sync
    <3>1. PICK p \in Picks(Islands) : Dispatch(p)
      BY <2>2 DEF Start
    <3> QED BY <1>1, <1>3, <2>2, <3>1, DispatchEffect
  <2> QED BY <2>1, <2>2
<1>5. Pulses' = Pulses
  BY <1>1 DEF Pulses
<1>6. SimPushes' = SimPushes /\ TasksOf(setting)' = TasksOf(setting)
  BY <1>1, SameSetting DEF SimPushes, TasksOf
<1>7. /\ setting.sync => Len(pushed) = NumWorkers * Len(applied) /\ Idle = Islands
      /\ total = Pulse * Pulses /\ total <= MaxUpdates
      /\ clock \in Nat /\ began \in Nat \cup {None} /\ total \in Nat
      /\ pushed \in Seq(SimPushes) /\ applied \in Seq(SUBSET Nat) /\ grads \subseteq DOMAIN pushed
  BY DEF CountInv
<1> QED BY <1>1, <1>2, <1>3, <1>4, <1>5, <1>6, <1>7, SameSetting DEF CountInv

LEMMA CountDispatch ==
  ASSUME CountInv, DispatchIdle, clock' \in Nat
  PROVE  CountInv'
<1>1. /\ place = "loop" /\ ~setting.sync /\ began' = None /\ setting' = setting /\ place' = place
      /\ UNCHANGED <<total, target, stats, pushed, grads, applied>>
  BY DEF DispatchIdle, Over
<1>2. PICK p \in Picks(Idle) : Dispatch(p)
  BY DEF DispatchIdle
<1>3. /\ tasks' \in [Islands -> Seq(TasksOf(setting))] /\ finish' \in [Islands -> Nat]
      /\ \A w \in (Islands \ Idle)' : Len(tasks'[w]) = 1
      /\ visits' \in [Shards -> Nat] /\ updates' \in [Shards -> Nat]
  BY <1>1, <1>2, DispatchEffect
<1>5. Pulses' = Pulses
  BY <1>1 DEF Pulses
<1>6. SimPushes' = SimPushes /\ TasksOf(setting)' = TasksOf(setting)
  BY <1>1, SameSetting DEF SimPushes, TasksOf
<1>7. /\ setting \in Experiments
      /\ total = Pulse * Pulses /\ total <= MaxUpdates /\ total \in Nat /\ target \in Nat /\ stats \in Seq(0..MaxUpdates)
      /\ pushed \in Seq(SimPushes) /\ applied \in Seq(SUBSET Nat) /\ grads \subseteq DOMAIN pushed
  BY DEF CountInv
<1> QED BY <1>1, <1>3, <1>5, <1>6, <1>7, SameSetting DEF CountInv

\* The one that is synchronized next.
LEMMA FirstToEnd ==
  ASSUME CountInv, NEW w \in Islands, NextToSync(w)
  PROVE  /\ w \notin Idle /\ finish[w] \in Nat
         /\ \A v \in Islands \ Idle : finish[w] <= finish[v]
         /\ \A v \in Islands : NextToSync(v) => v = w
<1>1. Islands \subseteq Nat /\ finish \in [Islands -> Nat]
  <2>1. Islands = 1..NumWorkers
    BY SimSettings DEF CountInv
  <2> QED BY <2>1 DEF CountInv
<1>2. w \notin Idle /\ \A v \in Islands \ Idle : finish[w] < finish[v] \/ (finish[w] = finish[v] /\ w <= v)
  BY DEF NextToSync, Fastest
<1>3. ASSUME NEW v \in Islands, NextToSync(v) PROVE v = w
  <2>1. v \notin Idle /\ \A u \in Islands \ Idle : finish[v] < finish[u] \/ (finish[v] = finish[u] /\ v <= u)
    BY <1>3 DEF NextToSync, Fastest
  <2>2. /\ finish[w] < finish[v] \/ (finish[w] = finish[v] /\ w <= v)
        /\ finish[v] < finish[w] \/ (finish[v] = finish[w] /\ v <= w)
    BY <1>2, <2>1
  <2>3. v \in Nat /\ w \in Nat /\ finish[v] \in Nat /\ finish[w] \in Nat
    BY <1>1
  <2> QED BY <2>2, <2>3
<1>4. \A v \in Islands \ Idle : finish[w] <= finish[v]
  BY <1>1, <1>2
<1> QED BY <1>1, <1>2, <1>3, <1>4

LEMMA SyncEffect ==
  ASSUME CountInv, LateInv, NEW w \in Islands, Synchronize(w)
  PROVE  /\ ~setting.sync /\ place = "loop" /\ ~Finished /\ w \notin Idle
         /\ UNCHANGED <<setting, place, visits, updates>> /\ Islands' = Islands
         /\ clock' = finish[w] /\ clock <= clock' /\ clock' \in Nat
         /\ \A v \in Islands \ Idle : finish[w] <= finish[v]
         /\ began' \in Nat /\ began' = (IF began = None THEN clock' ELSE began) /\ clock' - began' <= setting.wait
         /\ total' = total + setting.inner /\ Evaluate(total + setting.inner)
         /\ \E push \in SimPushes :
              /\ pushed' = Append(pushed, push) /\ push.island = w /\ push.task = tasks[w][1]
              /\ push.at = push.ended /\ push.tau = Len(pushed) - tasks[w][1].model
         /\ tasks' \in [Islands -> Seq(TasksOf(setting))] /\ tasks'[w] = <<>>
         /\ \A v \in Islands \ {w} : tasks'[v] = tasks[v]
         /\ finish' \in [Islands -> Nat]
         /\ \A v \in Islands : finish'[v] = IF v \in Idle \cup {w} THEN clock' ELSE finish[v]
         /\ Idle' = Idle \cup {w}
<1>1. /\ ~setting.sync /\ place = "loop" /\ ~Finished /\ NextToSync(w) /\ Synchronizable(At(w))
      /\ UNCHANGED <<setting, place, visits, updates>>
      /\ clock' = At(w) /\ began' = (IF began = None THEN At(w) ELSE began)
      /\ total' = total + setting.inner /\ Evaluate(total + setting.inner)
      /\ pushed' = Append(pushed, Push(w, At(w)))
      /\ tasks' = [tasks EXCEPT ![w] = <<>>] /\ finish' = Idled(At(w))
  BY DEF Synchronize
<1>2. /\ w \notin Idle /\ \A v \in Islands \ Idle : finish[w] <= finish[v]
      /\ \A v \in Islands : NextToSync(v) => v = w
  BY <1>1, FirstToEnd
<1>3. finish[w] \in Nat /\ clock \in Nat /\ clock <= finish[w]
  BY <1>1, <1>2 DEF LateInv, CountInv
<1>4. At(w) = finish[w]
  <2>1. Max({clock, finish[w]}) = IF clock >= finish[w] THEN clock ELSE finish[w]
    BY <1>3, Larger
  <2> QED BY <1>3, <2>1 DEF At
<1>5. began' \in Nat /\ clock' - began' <= setting.wait
  <2>1. setting.wait \in Nat /\ began \in Nat \cup {None}
    BY SimSettings DEF CountInv
  <2>2. CASE began = None
    BY <1>1, <1>3, <1>4, <2>1, <2>2
  <2>3. CASE began # None
    BY <1>1, <1>3, <1>4, <2>1, <2>3 DEF Synchronizable
  <2> QED BY <2>2, <2>3
<1>6. Push(w, At(w)) \in SimPushes /\ Push(w, At(w)).island = w /\ Push(w, At(w)).task = tasks[w][1]
      /\ Push(w, At(w)).at = Push(w, At(w)).ended /\ Push(w, At(w)).tau = Len(pushed) - tasks[w][1].model
  <2>1. tasks[w][1] \in TasksOf(setting) /\ tasks[w][1].model \in Nat
    BY <1>2, SameBusy DEF TasksOf
  <2>2. ModelId = Len(pushed) /\ Len(pushed) \in Nat
    BY <1>1, CountBooks DEF ModelId
  <2>3. ModelId - tasks[w][1].model \in Int
    BY <2>1, <2>2
  <2> QED BY <1>3, <1>4, <2>1, <2>2, <2>3 DEF Push, SimPushes
<1>7. /\ tasks' \in [Islands -> Seq(TasksOf(setting))] /\ tasks'[w] = <<>>
      /\ \A v \in Islands \ {w} : tasks'[v] = tasks[v]
  <2>1. tasks \in [Islands -> Seq(TasksOf(setting))] /\ <<>> \in Seq(TasksOf(setting))
    BY DEF CountInv
  <2> QED BY <1>1, <2>1
<1>8. Islands' = Islands
  BY <1>1, SameSetting
<1>9. Idle' = Idle \cup {w}
  BY <1>7, <1>8 DEF Idle
<1>10. \A v \in Islands : finish'[v] = IF v \in Idle \cup {w} THEN clock' ELSE finish[v]
  BY <1>1, <1>2 DEF Idled
<1>11. finish' \in [Islands -> Nat]
  <2>1. finish \in [Islands -> Nat]
    BY DEF CountInv
  <2> QED BY <1>1, <1>3, <1>4, <2>1 DEF Idled
<1> QED BY <1>1, <1>2, <1>3, <1>4, <1>5, <1>6, <1>7, <1>8, <1>9, <1>10, <1>11

LEMMA CountSync ==
  ASSUME CountInv, LateInv, NEW w \in Islands, Synchronize(w)
  PROVE  CountInv'
<1>1. PICK push \in SimPushes : pushed' = Append(pushed, push)
  BY SyncEffect
<1>2. /\ ~setting.sync /\ place = "loop" /\ ~Finished /\ w \notin Idle
      /\ UNCHANGED <<setting, place, visits, updates>> /\ Islands' = Islands
      /\ clock' \in Nat /\ began' \in Nat
      /\ total' = total + setting.inner /\ Evaluate(total + setting.inner)
      /\ tasks' \in [Islands -> Seq(TasksOf(setting))]
      /\ \A v \in Islands \ {w} : tasks'[v] = tasks[v]
      /\ finish' \in [Islands -> Nat] /\ Idle' = Idle \cup {w}
  BY SyncEffect
<1>3. /\ setting \in Experiments /\ pushed \in Seq(SimPushes) /\ applied \in Seq(SUBSET Nat)
      /\ visits \in [Shards -> Nat] /\ updates \in [Shards -> Nat]
      /\ target \in Nat /\ stats \in Seq(0..MaxUpdates) /\ Len(pushed) \in Nat
      /\ \A v \in Islands \ Idle : Len(tasks[v]) = 1
  BY DEF CountInv
<1>4. pushed' \in Seq(SimPushes) /\ Len(pushed') = Len(pushed) + 1
  BY <1>1, <1>3
<1>5. SimPushes' = SimPushes /\ TasksOf(setting)' = TasksOf(setting)
  BY <1>2, SameSetting DEF SimPushes, TasksOf
<1>6. Pulse = setting.inner /\ Pulses' = Pulses + 1
  BY <1>2, <1>4 DEF Pulse, Pulses
<1>7. total' = Pulse' * Pulses' /\ total' <= MaxUpdates' /\ total' \in Nat /\ total' \in 0..MaxUpdates
  BY <1>2, <1>6, OncePulsed
<1>8. target' \in Nat /\ stats' \in Seq(0..MaxUpdates)
  BY <1>2, <1>3, <1>7, Evaluated
<1>9. applied' \in Seq(SUBSET Nat) /\ grads' \subseteq DOMAIN pushed'
  <2>. DEFINE parts == Kept(ModelId) \cup {ModelId + 1}
  <2>1. (UNCHANGED applied \/ applied' = Append(applied, parts)) /\ grads' = parts
    BY DEF Synchronize
  <2>2. ModelId = Len(pushed)
    BY <1>2 DEF ModelId
  <2>3. DOMAIN pushed = 1..Len(pushed) /\ DOMAIN pushed' = 1..(Len(pushed) + 1)
    BY <1>3, <1>4
  <2>4. Kept(ModelId) \subseteq 1..Len(pushed)
    <3>1. grads \subseteq DOMAIN pushed
      BY DEF CountInv
    <3> QED BY <2>3, <3>1 DEF Kept
  <2>5. parts \subseteq 1..(Len(pushed) + 1)
    BY <1>3, <2>2, <2>4
  <2>. HIDE DEF parts
  <2>6. parts \in SUBSET Nat
    BY <2>5
  <2>7. applied' \in Seq(SUBSET Nat)
    <3>1. \A S : \A q \in Seq(S), x \in S : Append(q, x) \in Seq(S)
      OBVIOUS
    <3>2. Append(applied, parts) \in Seq(SUBSET Nat)
      BY <1>3, <2>6, <3>1
    <3> QED BY <1>3, <2>1, <3>2
  <2> QED BY <2>1, <2>3, <2>5, <2>7
<1>10. \A v \in (Islands \ Idle)' : Len(tasks'[v]) = 1
  BY <1>2, <1>3
<1> QED BY <1>2, <1>3, <1>4, <1>5, <1>7, <1>8, <1>9, <1>10, SameSetting DEF CountInv

LEMMA RoundEffect ==
  ASSUME CountInv, Round
  PROVE  /\ setting.sync /\ place = "loop" /\ ~Finished
         /\ UNCHANGED <<setting, place, tasks, began>> /\ Islands' = Islands /\ Idle' = Islands /\ Idle = Islands
         /\ Shards' = Shards
         /\ clock' \in Nat /\ finish' \in [Islands -> Nat]
         /\ total' = total + Pulse /\ Evaluate(total')
         /\ Len(pushed') = Len(pushed) + NumWorkers /\ pushed' \in Seq(SimPushes)
         /\ \A i \in 1..Len(pushed) : pushed'[i] = pushed[i]
         /\ \E p \in Picks(Islands) :
              /\ Assign(p)
              /\ \A w \in Islands : LET push == pushed'[Len(pushed) + w] IN push.task = Task(p, w) /\ push.tau = 0
         /\ grads' = {Len(pushed) + w : w \in Islands} /\ applied' = Append(applied, grads')
         /\ Running' = Running
<1>1. /\ setting.sync /\ place = "loop" /\ ~Finished
      /\ UNCHANGED <<setting, place, tasks, began>>
      /\ total' = total + setting.inner * NumWorkers /\ Evaluate(total')
      /\ grads' = {Len(pushed) + w : w \in Islands} /\ applied' = Append(applied, grads')
  BY DEF Round
<1>. DEFINE now(p) == Max({clock} \cup {TrainedBy(w) : w \in Islands})
            new(p) == [w \in Islands |->
                        [island |-> w, task |-> Task(p, w), at |-> now(p), ended |-> TrainedBy(w), tau |-> 0]]
<1>2. PICK p \in Picks(Islands) :
        /\ Assign(p) /\ clock' = now(p) /\ finish' = [w \in Islands |-> now(p)] /\ pushed' = pushed \o new(p)
  BY DEF Round
<1>3. Islands' = Islands /\ Idle = Islands /\ Idle' = Islands /\ Shards' = Shards /\ total' = total + Pulse
  <2>1. Islands' = Islands /\ Idle = Islands /\ Shards' = Shards
    BY <1>1, SameSetting DEF CountInv
  <2>2. Idle' = Idle
    BY <1>1, <2>1 DEF Idle
  <2> QED BY <1>1, <2>1, <2>2 DEF Pulse
<1>4. NumWorkers \in Nat /\ Islands = 1..NumWorkers
  BY SimSettings DEF CountInv
<1>5. \A w \in Islands : TrainedBy(w) \in Nat
  <2>1. \A w \in Islands : finish[w] \in Nat /\ setting.inner * setting.paces[w] \in Nat
    BY SimSettings DEF CountInv
  <2> QED BY <2>1 DEF TrainedBy
<1>6. now(p) \in Nat
  <2>. DEFINE f == [w \in 1..NumWorkers |-> TrainedBy(w)]
  <2>1. f \in [1..NumWorkers -> Nat] /\ clock \in Nat
    BY <1>4, <1>5 DEF CountInv
  <2>2. {f[w] : w \in 1..NumWorkers} = {TrainedBy(w) : w \in Islands}
    BY <1>4
  <2>. HIDE DEF f
  <2>3. Max({clock} \cup {f[w] : w \in 1..NumWorkers}) \in Nat
    BY <1>4, <2>1, Greatest
  <2> QED BY <2>2, <2>3
<1>. HIDE DEF now
<1>7. new(p) \in Seq(SimPushes) /\ Len(new(p)) = NumWorkers
  <2>1. \A w \in Islands : Task(p, w) \in TasksOf(setting)
    <3>1. Islands \in SUBSET Islands
      OBVIOUS
    <3> QED BY <3>1, TaskTyped, CountBooks
  <2>2. \A w \in Islands : new(p)[w] \in SimPushes
    BY <1>5, <1>6, <2>1 DEF SimPushes
  <2>3. new(p) \in [1..NumWorkers -> SimPushes]
    BY <1>4, <2>2
  <2> QED BY <1>4, <2>3
<1>8. pushed \in Seq(SimPushes) /\ Len(pushed) \in Nat
  BY DEF CountInv
<1>9. pushed' \in Seq(SimPushes) /\ Len(pushed') = Len(pushed) + NumWorkers
  <2>. DEFINE q == new(p)
  <2>1. q \in Seq(SimPushes) /\ Len(q) = NumWorkers /\ pushed' = pushed \o q
    BY <1>2, <1>7
  <2>. HIDE DEF q
  <2>2. Len(pushed \o q) = Len(pushed) + Len(q)
    <3>1. \A S : \A a, b \in Seq(S) : Len(a \o b) = Len(a) + Len(b)
      OBVIOUS
    <3> QED BY <1>8, <2>1, <3>1
  <2>3. pushed \o q \in Seq(SimPushes)
    BY <1>8, <2>1
  <2> QED BY <2>1, <2>2, <2>3
<1>10. /\ \A i \in 1..Len(pushed) : pushed'[i] = pushed[i]
       /\ \A w \in 1..NumWorkers : pushed'[Len(pushed) + w] = new(p)[w]
  <2>. HIDE DEF new
  <2>1. \A i \in 1..(Len(pushed) + NumWorkers) :
          pushed'[i] = IF i <= Len(pushed) THEN pushed[i] ELSE new(p)[i - Len(pushed)]
    BY <1>2, <1>7, <1>8
  <2>2. \A w \in 1..NumWorkers : /\ Len(pushed) + w \in 1..(Len(pushed) + NumWorkers)
                                 /\ ~(Len(pushed) + w <= Len(pushed)) /\ Len(pushed) + w - Len(pushed) = w
    BY <1>4, <1>8
  <2>3. \A i \in 1..Len(pushed) : i \in 1..(Len(pushed) + NumWorkers) /\ i <= Len(pushed)
    BY <1>4, <1>8
  <2> QED BY <2>1, <2>2, <2>3
<1>11. \A w \in Islands : LET push == pushed'[Len(pushed) + w] IN push.task = Task(p, w) /\ push.tau = 0
  <2>1. ASSUME NEW w \in Islands
        PROVE  pushed'[Len(pushed) + w].task = Task(p, w) /\ pushed'[Len(pushed) + w].tau = 0
    <3>1. pushed'[Len(pushed) + w] = new(p)[w]
      BY <1>4, <1>10
    <3> QED BY <3>1
  <2> QED BY <2>1
<1>12. Running' = Running
  BY <1>1, <1>3 DEF Running
<1>13. clock' \in Nat /\ finish' \in [Islands -> Nat]
  BY <1>2, <1>6
<1> QED BY <1>1, <1>2, <1>3, <1>9, <1>10, <1>11, <1>12, <1>13

LEMMA CountRound ==
  ASSUME CountInv, Round
  PROVE  CountInv'
<1>1. /\ setting.sync /\ place = "loop" /\ ~Finished
      /\ UNCHANGED <<setting, place, tasks, began>> /\ Islands' = Islands /\ Idle' = Islands /\ Idle = Islands
      /\ clock' \in Nat /\ finish' \in [Islands -> Nat]
      /\ total' = total + Pulse /\ Evaluate(total')
      /\ Len(pushed') = Len(pushed) + NumWorkers /\ pushed' \in Seq(SimPushes)
      /\ grads' = {Len(pushed) + w : w \in Islands} /\ applied' = Append(applied, grads')
  BY RoundEffect
<1>2. /\ setting \in Experiments /\ applied \in Seq(SUBSET Nat) /\ Len(applied) \in Nat /\ Len(pushed) \in Nat
      /\ tasks \in [Islands -> Seq(TasksOf(setting))] /\ began \in Nat \cup {None}
      /\ target \in Nat /\ stats \in Seq(0..MaxUpdates) /\ Len(pushed) = NumWorkers * Len(applied)
  BY <1>1 DEF CountInv
<1>3. SimPushes' = SimPushes /\ TasksOf(setting)' = TasksOf(setting)
  BY <1>1, SameSetting DEF SimPushes, TasksOf
<1>4. /\ applied' \in Seq(SUBSET Nat) /\ Len(applied') = Len(applied) + 1
      /\ grads' \subseteq DOMAIN pushed'
  <2>1. Islands = 1..NumWorkers /\ NumWorkers \in Nat
    BY SimSettings DEF CountInv
  <2>2. DOMAIN pushed' = 1..(Len(pushed) + NumWorkers)
    BY <1>1, <1>2, <2>1
  <2>3. grads' \subseteq 1..(Len(pushed) + NumWorkers)
    BY <1>1, <1>2, <2>1
  <2>4. grads' \in SUBSET Nat
    BY <2>3
  <2> QED BY <1>1, <1>2, <2>2, <2>3, <2>4
<1>5. Pulses' = Pulses + 1
  BY <1>1, <1>4 DEF Pulses
<1>6. total' = Pulse' * Pulses' /\ total' <= MaxUpdates' /\ total' \in Nat /\ total' \in 0..MaxUpdates
  BY <1>1, <1>5, OncePulsed
<1>7. target' \in Nat /\ stats' \in Seq(0..MaxUpdates)
  BY <1>1, <1>2, <1>6, Evaluated
<1>8. visits' \in [Shards -> Nat] /\ updates' \in [Shards -> Nat]
  <2>1. PICK p \in Picks(Islands) : Assign(p)
    BY RoundEffect
  <2>2. Islands \in SUBSET Islands
    OBVIOUS
  <2> QED BY <2>1, <2>2, AssignEffect, CountBooks
<1>9. Len(pushed') = NumWorkers' * Len(applied')
  <2>1. PICK n \in Nat : n = NumWorkers
    BY SimSettings DEF CountInv
  <2>2. n * Len(applied) + n = n * (Len(applied) + 1)
    BY <1>2
  <2>3. NumWorkers' = NumWorkers
    BY <1>1, SameSetting
  <2> QED BY <1>1, <1>2, <1>4, <2>1, <2>2, <2>3
<1>10. \A v \in (Islands \ Idle)' : Len(tasks'[v]) = 1
  BY <1>1
<1> QED BY <1>1, <1>2, <1>3, <1>4, <1>6, <1>7, <1>8, <1>9, <1>10, SameSetting DEF CountInv

\* Where nothing changes but the place.
LEMMA CountStill ==
  ASSUME CountInv, UNCHANGED <<setting, tasks, finish, visits, updates, clock, began, total, target, stats, pushed,
                               grads, applied>>,
         place' = place \/ place' = "ended"
  PROVE  CountInv'
<1>1. /\ Pulses' = Pulses /\ Idle' = Idle /\ SimPushes' = SimPushes /\ TasksOf(setting)' = TasksOf(setting)
      /\ Islands' = Islands
  BY SameSetting DEF Pulses, Idle, SimPushes, TasksOf
<1> QED BY <1>1, SameSetting DEF CountInv

-----------------------------------------------------------------------------
(* LateInv. *)

LEMMA FastestExists ==
  ASSUME CountInv, Islands \ Idle # {}
  PROVE  \E u \in Islands : Fastest(u)
<1>. DEFINE busy == Islands \ Idle
            ends == {finish[w] : w \in busy}
<1>1. \A w \in Islands : w \in Nat /\ finish[w] \in Nat
  <2>1. Islands = 1..NumWorkers /\ finish \in [Islands -> Nat]
    BY SimSettings DEF CountInv
  <2>2. Islands \subseteq Nat
    BY <2>1
  <2> QED BY <2>1, <2>2
<1>2. ends \in SUBSET Nat /\ ends # {}
  BY <1>1
<1>3. PICK m \in ends : \A k \in ends : m <= k
  <2>. HIDE DEF ends
  <2> QED BY <1>2, LeastOf
<1>. DEFINE first == {w \in busy : finish[w] = m}
<1>4. first \in SUBSET Nat /\ first # {}
  BY <1>1, <1>3
<1>5. PICK u \in first : \A w \in first : u <= w
  <2>. HIDE DEF first
  <2> QED BY <1>4, LeastOf
<1>6. u \in busy /\ finish[u] = m
  BY <1>5
<1>7. ASSUME NEW v \in busy PROVE finish[u] < finish[v] \/ (finish[u] = finish[v] /\ u <= v)
  <2>1. m <= finish[v] /\ m \in Nat /\ finish[v] \in Nat
    BY <1>1, <1>3
  <2>2. finish[v] = m => u <= v
    BY <1>5
  <2> QED BY <1>6, <2>1, <2>2
<1> QED BY <1>6, <1>7 DEF Fastest

\* Only what ends too late for the present series is left to run when idle
\* workers get tasks.
LEMMA DispatchIdleEffect ==
  ASSUME CountInv, LateInv, DispatchIdle
  PROVE  /\ place = "loop" /\ ~setting.sync /\ ~Finished /\ began' = None
         /\ UNCHANGED <<setting, place, total, target, stats, pushed, grads, applied>>
         /\ clock' = clock /\ clock \in Nat
         /\ \A v \in Islands \ Idle : finish[v] > clock
         /\ \E p \in Picks(Idle) : Dispatch(p)
<1>1. /\ place = "loop" /\ ~setting.sync /\ ~Finished /\ began' = None
      /\ UNCHANGED <<setting, place, total, target, stats, pushed, grads, applied>>
      /\ \E p \in Picks(Idle) : Dispatch(p)
      /\ \A w \in Islands : ~(NextToSync(w) /\ Synchronizable(At(w)))
      /\ clock' = Max({clock} \cup {finish[w] : w \in {v \in Islands : NextToSync(v)}})
  BY DEF DispatchIdle, Over
<1>2. clock \in Nat /\ (\A w \in Islands : finish[w] \in Nat) /\ setting.wait \in Nat /\ began \in Nat \cup {None}
  BY SimSettings DEF CountInv
<1>3. /\ began # None => began <= clock /\ clock - began <= setting.wait
      /\ \A w \in Islands \ Idle : finish[w] >= clock
  BY <1>1 DEF LateInv
<1>4. ASSUME NEW w \in Islands, NextToSync(w) PROVE FALSE
  <2>1. w \notin Idle /\ (began # None => finish[w] - began <= setting.wait)
    BY <1>4 DEF NextToSync, Fastest
  <2>2. finish[w] >= clock
    BY <1>3, <2>1
  <2>3. At(w) = finish[w]
    <3>1. Max({clock, finish[w]}) = IF clock >= finish[w] THEN clock ELSE finish[w]
      BY <1>2, Larger
    <3> QED BY <1>2, <2>2, <3>1 DEF At
  <2>4. Synchronizable(At(w))
    BY <2>1, <2>3 DEF Synchronizable
  <2> QED BY <1>1, <1>4, <2>4
<1>5. clock' = clock
  <2>1. {clock} \cup {finish[w] : w \in {v \in Islands : NextToSync(v)}} = {clock}
    BY <1>4
  <2> QED BY <1>1, <1>2, <2>1, Alone
<1>6. ASSUME NEW v \in Islands \ Idle PROVE finish[v] > clock
  <2>1. PICK u \in Islands : Fastest(u)
    BY FastestExists
  <2>2. ~NextToSync(u)
    BY <1>4
  <2>3. began # None /\ ~(finish[u] - began <= setting.wait)
    BY <2>1, <2>2 DEF NextToSync
  <2>4. finish[u] <= finish[v]
    BY <1>2, <2>1 DEF Fastest
  <2> QED BY <1>2, <1>3, <2>3, <2>4
<1> QED BY <1>1, <1>2, <1>5, <1>6

\* The tasks of the loop start at the clock.
LEMMA DispatchedAtClock ==
  ASSUME CountInv, LateInv, ~setting.sync, NEW ws \in SUBSET Idle, NEW p \in Picks(ws), Dispatch(p), setting' = setting,
         NEW w \in Islands
  PROVE  /\ finish'[w] = (IF w \in ws THEN clock + setting.inner * setting.paces[w] ELSE finish[w])
         /\ finish'[w] \in Nat /\ clock \in Nat /\ setting.inner * setting.paces[w] \in Nat \ {0}
<1>1. w \in Idle => finish[w] = clock
  BY DEF LateInv
<1>2. finish'[w] = (IF w \in ws THEN finish[w] + setting.inner * setting.paces[w] ELSE finish[w])
  BY DispatchEffect
<1>3. finish[w] \in Nat /\ clock \in Nat /\ setting.inner * setting.paces[w] \in Nat \ {0}
  BY SimSettings DEF CountInv
<1> QED BY <1>1, <1>2, <1>3

\* The series and the ends of tasks, without the pushes.
Timely ==
  ~setting.sync =>
    /\ began # None => began <= clock /\ clock - began <= setting.wait
    /\ \A w \in Islands : IF w \in Idle THEN finish[w] = clock ELSE finish[w] >= clock

LEMMA LateIs ==
  /\ LateInv <=> Timely /\ \A i \in DOMAIN pushed : setting.sync \/ pushed[i].at = pushed[i].ended
  /\ LateInv' <=> Timely' /\ \A i \in DOMAIN pushed' : setting'.sync \/ pushed'[i].at = pushed'[i].ended
  BY DEF LateInv, Timely

LEMMA TimelyAfterDispatch ==
  ASSUME CountInv, LateInv, ~setting.sync, NEW ws \in SUBSET Idle, NEW p \in Picks(ws), Dispatch(p), setting' = setting,
         clock' = clock, began' = began \/ began' = None
  PROVE  Timely'
<1>1. \A w \in Islands :
        /\ finish'[w] = (IF w \in ws THEN clock + setting.inner * setting.paces[w] ELSE finish[w])
        /\ finish'[w] \in Nat /\ clock \in Nat /\ setting.inner * setting.paces[w] \in Nat \ {0}
  BY DispatchedAtClock
<1>2. Islands' = Islands /\ Idle' = Idle \ ws
  BY DispatchEffect
<1>3. /\ began # None => began <= clock /\ clock - began <= setting.wait
      /\ \A w \in Islands : IF w \in Idle THEN finish[w] = clock ELSE finish[w] >= clock
  BY DEF LateInv
<1>4. \A w \in Islands : IF w \in Idle' THEN finish'[w] = clock ELSE finish'[w] >= clock
  <2>1. ASSUME NEW w \in Islands PROVE IF w \in Idle' THEN finish'[w] = clock ELSE finish'[w] >= clock
    <3>1. CASE w \in ws
      BY <1>1, <1>2, <3>1
    <3>2. CASE w \notin ws
      BY <1>1, <1>2, <1>3, <3>2
    <3> QED BY <3>1, <3>2
  <2> QED BY <2>1
<1> QED BY <1>2, <1>3, <1>4 DEF Timely

LEMMA LateKept ==
  ASSUME CountInv, LateInv, SimNext
  PROVE  LateInv'
<1>1. CASE Start
  <2>1. /\ setting' = setting /\ clock' = clock /\ began' = began /\ pushed' = pushed
    BY <1>1 DEF Start
  <2>2. CASE setting.sync
    BY <2>1, <2>2 DEF LateInv
  <2>3. CASE ~setting.sync
    <3>1. Idle = Islands
      BY <1>1 DEF CountInv, Start
    <3>2. PICK p \in Picks(Islands) : Dispatch(p)
      BY <1>1, <2>3 DEF Start
    <3>3. Timely'
      BY <2>1, <2>3, <3>1, <3>2, TimelyAfterDispatch
    <3> QED BY <2>1, <3>3, LateIs
  <2> QED BY <2>2, <2>3
<1>2. ASSUME NEW w \in Islands, Synchronize(w) PROVE LateInv'
  <2>1. /\ ~setting.sync /\ setting' = setting /\ Islands' = Islands /\ clock' = finish[w] /\ clock <= clock' /\ clock' \in Nat
        /\ \A v \in Islands \ Idle : finish[w] <= finish[v]
        /\ began' \in Nat /\ began' = (IF began = None THEN clock' ELSE began) /\ clock' - began' <= setting.wait
        /\ \A v \in Islands : finish'[v] = IF v \in Idle \cup {w} THEN clock' ELSE finish[v]
        /\ Idle' = Idle \cup {w}
    BY <1>2, SyncEffect
  <2>2. PICK push \in SimPushes : pushed' = Append(pushed, push) /\ push.at = push.ended
    BY <1>2, SyncEffect
  <2>3. \A i \in DOMAIN pushed' : pushed'[i].at = pushed'[i].ended
    <3>1. pushed \in Seq(SimPushes) /\ \A i \in DOMAIN pushed : pushed[i].at = pushed[i].ended
      BY <2>1 DEF CountInv, LateInv
    <3>2. \A i \in DOMAIN pushed' : pushed'[i] = push \/ (i \in DOMAIN pushed /\ pushed'[i] = pushed[i])
      BY <2>2, <3>1
    <3> QED BY <2>2, <3>1, <3>2
  <2>4. began' <= clock'
    <3>1. clock \in Nat /\ (began # None => began <= clock /\ began \in Nat)
      BY <2>1 DEF CountInv, LateInv
    <3> QED BY <2>1, <3>1
  <2>5. \A v \in Islands : finish[v] \in Nat
    BY DEF CountInv
  <2>6. \A v \in Islands : IF v \in Idle' THEN finish'[v] = clock' ELSE finish'[v] >= clock'
    BY <2>1, <2>5
  <2>7. Timely'
    BY <2>1, <2>4, <2>6 DEF Timely
  <2> QED BY <2>3, <2>7, LateIs
<1>3. CASE DispatchIdle
  <2>1. /\ ~setting.sync /\ began' = None /\ UNCHANGED <<setting, pushed>> /\ clock' = clock
    BY <1>3, DispatchIdleEffect
  <2>2. PICK p \in Picks(Idle) : Dispatch(p)
    BY <1>3, DispatchIdleEffect
  <2>3. Timely'
    BY <2>1, <2>2, TimelyAfterDispatch
  <2> QED BY <2>1, <2>3, LateIs
<1>4. CASE Round
  <2>1. setting.sync /\ setting' = setting
    BY <1>4 DEF Round
  <2> QED BY <2>1 DEF LateInv
<1>5. CASE Close
  <2>1. setting' = setting /\ UNCHANGED <<tasks, finish, clock, began, pushed>>
    BY <1>5 DEF Close
  <2>2. Idle' = Idle /\ Islands' = Islands
    BY <2>1, SameSetting DEF Idle
  <2> QED BY <2>1, <2>2 DEF LateInv
<1> QED BY <1>1, <1>2, <1>3, <1>4, <1>5 DEF SimNext

-----------------------------------------------------------------------------
(* PaceInv. *)

LEMMA EndsEnough ==
  ASSUME setting \in Experiments, NEW w \in Islands, NEW v \in Islands
  PROVE  /\ Ends(w, v) \in Nat
         /\ \A n \in Nat : n * setting.paces[v] < setting.paces[w] => n + 1 <= Ends(w, v)
<1>1. PICK a \in Nat \ {0} : a = setting.paces[w]
  BY SimSettings
<1>2. PICK b \in Nat \ {0} : b = setting.paces[v]
  BY SimSettings
<1>3. PICK c \in Nat : c = a + b - 1
  OBVIOUS
<1>4. Ends(w, v) = c \div b
  BY <1>1, <1>2, <1>3 DEF Ends
<1>5. c \div b \in Nat /\ c % b \in 0..(b - 1) /\ c = b * (c \div b) + (c % b)
  BY Dividing
<1>6. PICK q \in Nat : q = c \div b
  BY <1>5
<1>7. PICK r \in 0..(b - 1) : r = c % b
  BY <1>5
<1>8. a + b - 1 = b * q + r
  BY <1>3, <1>5, <1>6, <1>7
<1>9. ASSUME NEW n \in Nat, n * b < a PROVE n + 1 <= q
  <2>1. SUFFICES ASSUME q <= n PROVE FALSE
    OBVIOUS
  <2>2. b * q <= b * n
    BY <2>1
  <2> QED BY <1>8, <1>9, <2>2
<1> QED BY <1>1, <1>2, <1>4, <1>6, <1>9

\* The pushes since a model, by their places.
LEMMA SinceCounts ==
  ASSUME CountInv, NEW m \in Nat, NEW v
  PROVE  /\ Since(m, v) \in Nat
         /\ IsFiniteSet({i \in DOMAIN pushed : i > m /\ pushed[i].island = v})
         /\ m >= Len(pushed) => Since(m, v) = 0
         /\ Since(m, v) = 0 => \A i \in DOMAIN pushed : i > m => pushed[i].island # v
<1>. DEFINE S == {i \in DOMAIN pushed : i > m /\ pushed[i].island = v}
<1>1. Len(pushed) \in Nat /\ DOMAIN pushed = 1..Len(pushed)
  BY DEF CountInv
<1>2. IsFiniteSet(S) /\ Cardinality(S) \in Nat
  <2>1. S \in SUBSET (1..Len(pushed)) /\ IsFiniteSet(1..Len(pushed))
    BY <1>1, FS_Interval
  <2>. HIDE DEF S
  <2> QED BY <2>1, FS_Subset, FS_CardinalityType
<1>3. m >= Len(pushed) => S = {}
  BY <1>1
<1>4. Since(m, v) = Cardinality(S)
  BY DEF Since
<1>5. Cardinality(S) = 0 <=> S = {}
  <2>. HIDE DEF S
  <2> QED BY <1>2, FS_EmptySet
<1>6. S = {} => \A i \in DOMAIN pushed : i > m => pushed[i].island # v
  OBVIOUS
<1> QED BY <1>2, <1>3, <1>4, <1>5, <1>6

LEMMA SinceGrows ==
  ASSUME CountInv, NEW push \in SimPushes, pushed' = Append(pushed, push), NEW m \in 0..Len(pushed), NEW v
  PROVE  Since(m, v)' = IF push.island = v THEN Since(m, v) + 1 ELSE Since(m, v)
<1>. DEFINE S == {i \in DOMAIN pushed : i > m /\ pushed[i].island = v}
            T == {i \in DOMAIN pushed' : i > m /\ pushed'[i].island = v}
            new == Len(pushed) + 1
<1>1. Len(pushed) \in Nat /\ DOMAIN pushed = 1..Len(pushed) /\ pushed \in Seq(SimPushes)
  BY DEF CountInv
<1>2. /\ DOMAIN pushed' = (1..Len(pushed)) \cup {new} /\ pushed'[new] = push
      /\ \A i \in 1..Len(pushed) : pushed'[i] = pushed[i]
  <2>1. 1..new = (1..Len(pushed)) \cup {new}
    BY <1>1
  <2> QED BY <1>1, <2>1
<1>3. new > m /\ new \notin S
  BY <1>1
<1>4. T = IF push.island = v THEN S \cup {new} ELSE S
  BY <1>1, <1>2, <1>3
<1>5. IsFiniteSet(S)
  <2>1. m \in Nat
    BY <1>1
  <2> QED BY <2>1, SinceCounts
<1>6. Since(m, v) = Cardinality(S) /\ Since(m, v)' = Cardinality(T)
  BY DEF Since
<1>. HIDE DEF S, T, new
<1>7. Cardinality(S \cup {new}) = Cardinality(S) + 1
  BY <1>3, <1>5, FS_AddElement
<1> QED BY <1>4, <1>6, <1>7

\* A push is no staler than Most when the others were pushed as often as their
\* paces let them.
LEMMA StaleCounts ==
  ASSUME CountInv, NEW w \in Islands
  PROVE  /\ Most(w) \in Nat
         /\ \A m \in 0..Len(pushed) :
              Since(m, w) = 0 /\ (\A v \in Islands \ {w} : Since(m, v) <= Ends(w, v)) => Len(pushed) - m <= Most(w)
<1>. DEFINE Rank(v) == {v} \X (1..Ends(w, v))
            U == UNION {Rank(v) : v \in Islands \ {w}}
            g == [v \in Islands \ {w} |-> Rank(v)]
<1>1. Most(w) = Cardinality(U)
  BY DEF Most
<1>2. IsFiniteSet(Islands \ {w})
  <2>1. Islands = 1..NumWorkers /\ NumWorkers \in Nat
    BY SimSettings DEF CountInv
  <2>2. IsFiniteSet(Islands) /\ Islands \ {w} \in SUBSET Islands
    BY <2>1, FS_Interval
  <2> QED BY <2>2, FS_Subset
<1>3. \A v \in Islands : IsFiniteSet(Rank(v)) /\ Ends(w, v) \in Nat
  <2>1. ASSUME NEW v \in Islands PROVE IsFiniteSet(Rank(v)) /\ Ends(w, v) \in Nat
    <3>1. Ends(w, v) \in Nat
      BY EndsEnough DEF CountInv
    <3>2. IsFiniteSet({v}) /\ IsFiniteSet(1..Ends(w, v))
      <4>1. IsFiniteSet({v})
        BY FS_Singleton
      <4>2. IsFiniteSet(1..Ends(w, v))
        BY <3>1, FS_Interval
      <4> QED BY <4>1, <4>2
    <3> QED BY <3>1, <3>2, FS_Product
  <2> QED BY <2>1
<1>4. IsFiniteSet({Rank(v) : v \in Islands \ {w}})
  <2>1. g \in Surjection(Islands \ {w}, {Rank(v) : v \in Islands \ {w}})
    <3>. HIDE DEF Rank
    <3> QED BY DEF Surjection
  <2>. HIDE DEF Rank, g
  <2> QED BY <1>2, <2>1, FS_Surjection
<1>5. IsFiniteSet(U) /\ Cardinality(U) \in Nat
  <2>1. \A T \in {Rank(v) : v \in Islands \ {w}} : IsFiniteSet(T)
    <3>. HIDE DEF Rank
    <3> QED BY <1>3
  <2>. DEFINE all == {Rank(v) : v \in Islands \ {w}}
  <2>2. IsFiniteSet(all) /\ \A T \in all : IsFiniteSet(T)
    BY <1>4, <2>1
  <2>3. U = UNION all
    OBVIOUS
  <2>. HIDE DEF all, U
  <2> QED BY <2>2, <2>3, FS_UNION, FS_CardinalityType
<1>6. ASSUME NEW m \in 0..Len(pushed), Since(m, w) = 0, \A v \in Islands \ {w} : Since(m, v) <= Ends(w, v)
      PROVE  Len(pushed) - m <= Cardinality(U)
  <2>. DEFINE S(v) == {i \in DOMAIN pushed : i > m /\ pushed[i].island = v}
              upto(i) == {j \in S(pushed[i].island) : j <= i}
              I == (m + 1)..Len(pushed)
              f == [i \in I |-> <<pushed[i].island, Cardinality(upto(i))>>]
  <2>1. m \in Nat /\ Len(pushed) \in Nat /\ DOMAIN pushed = 1..Len(pushed)
    BY DEF CountInv
  <2>2. I \subseteq DOMAIN pushed /\ \A i \in I : i > m /\ i \in Nat
    BY <2>1
  <2>3. \A v : IsFiniteSet(S(v)) /\ Since(m, v) = Cardinality(S(v)) /\ Cardinality(S(v)) \in Nat
    <3>1. ASSUME NEW v PROVE IsFiniteSet(S(v)) /\ Since(m, v) = Cardinality(S(v)) /\ Since(m, v) \in Nat
      <4>1. Since(m, v) \in Nat /\ IsFiniteSet(S(v))
        BY <2>1, SinceCounts
      <4> QED BY <4>1 DEF Since
    <3> QED BY <3>1
  <2>4. \A i \in I : pushed[i].island \in Islands \ {w}
    <3>1. \A i \in DOMAIN pushed : pushed[i].island \in Islands
      <4>1. pushed \in Seq(SimPushes) /\ \A x \in SimPushes : x.island \in Islands
        BY DEF CountInv, SimPushes
      <4>. HIDE DEF I, f, S, upto, U
      <4>2. \A i \in DOMAIN pushed : pushed[i] \in SimPushes
        BY <4>1
      <4> QED BY <4>1, <4>2
    <3>2. \A i \in DOMAIN pushed : i > m => pushed[i].island # w
      BY <1>6, <2>1, SinceCounts
    <3> QED BY <2>2, <3>1, <3>2
  <2>5. ASSUME NEW i \in I
        PROVE  /\ IsFiniteSet(upto(i)) /\ i \in upto(i) /\ Cardinality(upto(i)) \in 1..Since(m, pushed[i].island)
    <3>. DEFINE v == pushed[i].island
    <3>1. upto(i) \in SUBSET S(v) /\ i \in upto(i)
      BY <2>2
    <3>. DEFINE T == upto(i)
                V == S(v)
    <3>2. T \in SUBSET V /\ i \in T /\ IsFiniteSet(V) /\ Since(m, v) = Cardinality(V) /\ Cardinality(V) \in Nat
      BY <2>3, <3>1
    <3>. HIDE DEF T, V
    <3>3. IsFiniteSet(T) /\ Cardinality(T) <= Cardinality(V)
      BY <3>2, FS_Subset
    <3>4. Cardinality(T) \in Nat /\ Cardinality(T) # 0
      BY <3>2, <3>3, FS_CardinalityType, FS_EmptySet
    <3>5. IsFiniteSet(T) /\ i \in T /\ Cardinality(T) \in 1..Since(m, v)
      BY <3>2, <3>3, <3>4
    <3> QED BY <3>5 DEF T
  <2>6. \A i \in I : f[i] \in U
    <3>1. ASSUME NEW i \in I PROVE f[i] \in U
      <4>. DEFINE v == pushed[i].island
                  c == Cardinality(upto(i))
      <4>1. v \in Islands \ {w} /\ c \in 1..Since(m, v) /\ Since(m, v) <= Ends(w, v) /\ Ends(w, v) \in Nat
        BY <1>3, <1>6, <2>4, <2>5
      <4>2. Since(m, v) \in Nat
        BY <2>3
      <4>3. f[i] = <<v, c>>
        OBVIOUS
      <4>. HIDE DEF v, c, f
      <4>4. c \in 1..Ends(w, v)
        BY <4>1, <4>2
      <4>5. <<v, c>> \in Rank(v)
        BY <4>4
      <4> QED BY <4>1, <4>3, <4>5
    <3> QED BY <3>1
  <2>7. ASSUME NEW i \in I, NEW j \in I, i < j, pushed[i].island = pushed[j].island
        PROVE  Cardinality(upto(i)) # Cardinality(upto(j))
    <3>. DEFINE T == upto(i)
                V == upto(j)
    <3>1. T \in SUBSET V /\ j \in V /\ j \notin T
      BY <2>2, <2>5, <2>7
    <3>2. IsFiniteSet(V)
      BY <2>5
    <3>. HIDE DEF T, V
    <3>3. Cardinality(T) = Cardinality(V) => T = V
      BY <3>1, <3>2, FS_Subset
    <3>4. Cardinality(T) # Cardinality(V)
      BY <3>1, <3>3
    <3> QED BY <3>4 DEF T, V
  <2>8. \A i, j \in I : f[i] = f[j] => i = j
    <3>1. ASSUME NEW i \in I, NEW j \in I, f[i] = f[j] PROVE i = j
      <4>. HIDE DEF upto, I
      <4>1. pushed[i].island = pushed[j].island /\ Cardinality(upto(i)) = Cardinality(upto(j))
        BY <3>1
      <4>. HIDE DEF f
      <4>2. ~(i < j) /\ ~(j < i)
        BY <2>7, <4>1
      <4> QED BY <2>2, <4>2
    <3> QED BY <3>1
  <2>9. f \in [I -> U]
    <3>. HIDE DEF U, upto
    <3> QED BY <2>6
  <2>10. f \in Injection(I, U)
    <3>. HIDE DEF f, U, I
    <3> QED BY <2>8, <2>9 DEF Injection, IsInjective
  <2>11. Cardinality(I) = IF m + 1 > Len(pushed) THEN 0 ELSE Len(pushed) - (m + 1) + 1
    <3>1. m + 1 \in Int /\ Len(pushed) \in Int
      BY <2>1
    <3> QED BY <3>1, FS_Interval
  <2>. HIDE DEF f, U, I
  <2>12. Cardinality(I) <= Cardinality(U)
    BY <1>5, <2>10, FS_Injection
  <2> QED BY <1>5, <2>1, <2>11, <2>12
<1> QED BY <1>1, <1>5, <1>6

\* What PaceInv says of one worker that trains: m, d and e are the model, the
\* start and the end of its task.
PacedWith(w, m, d) ==
  /\ m \in 0..Len(pushed) /\ d <= clock /\ Since(m, w) = 0
  /\ \A v \in Islands \ {w} :
       /\ Since(m, v) <= Ends(w, v)
       /\ IF v \in Idle
          THEN Since(m, v) = 0 \/ clock > d + (Since(m, v) - 1) * (setting.inner * setting.paces[v])
          ELSE finish[v] > d + Since(m, v) * (setting.inner * setting.paces[v])

LEMMA PaceIs ==
  /\ PaceInv <=> /\ \A i \in DOMAIN pushed : pushed[i].tau <= Most(pushed[i].island)
                 /\ ~setting.sync => \A w \in Islands \ Idle : PacedWith(w, tasks[w][1].model, Dispatched(w))
  /\ PaceInv' <=> /\ \A i \in DOMAIN pushed' : pushed'[i].tau <= (Most(pushed[i].island))'
                  /\ ~setting'.sync => \A w \in (Islands \ Idle)' : PacedWith(w, tasks[w][1].model, Dispatched(w))'
  BY DEF PaceInv, PacedWith, Apart

LEMMA PacedPrimed ==
  ASSUME NEW w, NEW m, NEW d, tasks'[w][1].model = m, Dispatched(w)' = d
  PROVE  PacedWith(w, tasks[w][1].model, Dispatched(w))' <=> PacedWith(w, m, d)'
  BY DEF PacedWith, Since

LEMMA SinceSame ==
  ASSUME pushed' = pushed
  PROVE  \A m, v : Since(m, v)' = Since(m, v)
  BY DEF Since

LEMMA DispatchedTyped ==
  ASSUME CountInv, NEW w \in Islands
  PROVE  /\ finish[w] \in Nat /\ setting.inner * setting.paces[w] \in Nat \ {0}
         /\ Dispatched(w) = finish[w] - setting.inner * setting.paces[w] /\ Dispatched(w) \in Int
<1>1. finish[w] \in Nat /\ setting.inner * setting.paces[w] \in Nat \ {0}
  BY SimSettings DEF CountInv
<1> QED BY <1>1 DEF Dispatched

LEMMA PaceAfterDispatch ==
  ASSUME CountInv, LateInv, PaceInv, ~setting.sync, NEW p \in Picks(Idle), Dispatch(p),
         UNCHANGED <<setting, clock, pushed>>, \A v \in Islands \ Idle : finish[v] > clock
  PROVE  PaceInv'
<1>1. ASSUME NEW w \in Islands
      PROVE  /\ finish'[w] = (IF w \in Idle THEN clock + setting.inner * setting.paces[w] ELSE finish[w])
             /\ finish'[w] \in Nat /\ clock \in Nat /\ setting.inner * setting.paces[w] \in Nat \ {0}
  BY DispatchedAtClock
<1>2. /\ Islands' = Islands /\ Idle' = {}
      /\ \A w \in Islands : tasks'[w] = IF w \in Idle THEN <<Task(p, w)>> ELSE tasks[w]
  BY DispatchEffect
<1>3. NumWorkers' = NumWorkers /\ Idle \subseteq Islands /\ Len(pushed) \in Nat
  BY SameSetting DEF Idle, CountInv
<1>4. /\ \A m, v : Since(m, v)' = Since(m, v)
      /\ \A w, v \in Islands : Ends(w, v)' = Ends(w, v) /\ Ends(w, v) \in Nat
  BY SinceSame, SameSetting, EndsEnough DEF CountInv
<1>5. \A i \in DOMAIN pushed' : pushed'[i].tau <= (Most(pushed[i].island))'
  <2>1. \A i \in DOMAIN pushed : pushed[i].island \in Islands /\ pushed[i].tau <= Most(pushed[i].island)
    <3>1. pushed \in Seq(SimPushes) /\ \A x \in SimPushes : x.island \in Islands
      BY DEF CountInv, SimPushes
    <3>2. \A i \in DOMAIN pushed : pushed[i] \in SimPushes
      BY <3>1
    <3> QED BY <3>1, <3>2 DEF PaceInv
  <2>2. \A w \in Islands : Most(w)' = Most(w)
    BY SameSetting
  <2>3. ASSUME NEW i \in DOMAIN pushed PROVE (Most(pushed[i].island))' = Most(pushed[i].island)
    <3>1. PICK w \in Islands : w = pushed[i].island /\ w = pushed'[i].island
      BY <2>1
    <3>2. (Most(pushed[i].island))' = Most(w)'
      BY <3>1 DEF Most
    <3> QED BY <2>2, <3>1, <3>2
  <2> QED BY <2>1, <2>3
<1>6. ASSUME NEW w \in Islands PROVE PacedWith(w, tasks[w][1].model, Dispatched(w))'
  <2>1. CASE w \in Idle
    <3>0. PICK m \in Nat : m = Len(pushed)
      BY <1>3
    <3>c. PICK c \in Nat : c = clock
      BY <1>1
    <3>1. tasks'[w][1].model = m
      <4>1. tasks'[w] = <<Task(p, w)>>
        BY <1>2, <2>1
      <4>2. Task(p, w).model = ModelId /\ ModelId = Len(pushed)
        BY <1>3, <2>1, TaskTyped, CountBooks DEF ModelId
      <4> QED BY <3>0, <4>1, <4>2
    <3>2. Dispatched(w)' = c
      <4>1. Dispatched(w)' = finish'[w] - setting.inner * setting.paces[w]
        BY DEF Dispatched
      <4> QED BY <1>1, <2>1, <3>c, <4>1
    <3>3. \A v : Since(m, v)' = 0
      <4>1. ASSUME NEW v PROVE Since(m, v) = 0
        <5>1. m >= Len(pushed)
          BY <3>0
        <5> QED BY <5>1, SinceCounts
      <4> QED BY <1>4, <4>1
    <3>4. ASSUME NEW v \in Islands \ {w}
          PROVE  finish'[v] > c + 0 * (setting.inner * setting.paces[v])
      <4>1. finish'[v] > c
        BY <1>1, <3>c
      <4>2. setting.inner * setting.paces[v] \in Nat /\ \A x \in Nat : 0 * x = 0
        BY <1>1
      <4> QED BY <1>1, <4>1, <4>2
    <3>5. PacedWith(w, m, c)'
      <4>1. m \in 0..Len(pushed') /\ c <= clock'
        BY <3>0, <3>c
      <4>2. Since(m, w)' = 0
        BY <3>3
      <4>3. \A v \in (Islands \ {w})' :
              /\ Since(m, v)' <= Ends(w, v)'
              /\ v \notin Idle' /\ finish'[v] > c + Since(m, v)' * (setting'.inner * setting'.paces[v])
        <5>1. \A v \in Islands : Since(m, v)' = 0 /\ 0 <= Ends(w, v)'
          BY <1>4, <3>3
        <5> QED BY <1>2, <3>4, <5>1
      <4> QED BY <4>1, <4>2, <4>3 DEF PacedWith
    <3> QED BY <3>1, <3>2, <3>5, PacedPrimed
  <2>2. CASE w \notin Idle
    <3>1. PICK m : m = tasks[w][1].model
      OBVIOUS
    <3>2. PICK d : d = Dispatched(w)
      OBVIOUS
    <3>3. PacedWith(w, m, d)
      BY <2>2, <3>1, <3>2, PaceIs
    <3>4. m \in 0..Len(pushed) /\ d \in Int /\ m \in Nat
      BY <1>3, <3>2, <3>3, DispatchedTyped DEF PacedWith
    <3>5. tasks'[w][1].model = m /\ Dispatched(w)' = d
      BY <1>1, <1>2, <2>2, <3>1, <3>2 DEF Dispatched
    <3>6. \A v : Since(m, v) \in Nat /\ Since(m, v)' = Since(m, v)
      BY <1>4, <3>4, SinceCounts
    <3>7. ASSUME NEW v \in Islands \ {w}
          PROVE  finish'[v] > d + Since(m, v) * (setting.inner * setting.paces[v])
      <4>1. PICK each \in Nat \ {0} : each = setting.inner * setting.paces[v]
        BY <1>1
      <4>2. PICK n \in Nat : n = Since(m, v)
        BY <3>6
      <4>3. CASE v \in Idle
        <5>1. n = 0 \/ clock > d + (n - 1) * each
          BY <3>3, <4>1, <4>2, <4>3 DEF PacedWith
        <5>2. finish'[v] = clock + each /\ clock \in Nat /\ d <= clock
          BY <1>1, <3>3, <4>1, <4>3 DEF PacedWith
        <5>3. clock + each > d + n * each
          <6>1. (n - 1) * each = n * each - each /\ n * each \in Nat
            OBVIOUS
          <6>2. n = 0 => n * each = 0
            OBVIOUS
          <6>3. CASE n = 0
            BY <3>4, <5>2, <6>2, <6>3
          <6>4. CASE clock > d + (n - 1) * each
            <7>1. clock > d + (n * each - each)
              BY <6>1, <6>4
            <7> QED BY <3>4, <5>2, <6>1, <7>1
          <6> QED BY <5>1, <6>3, <6>4
        <5> QED BY <4>1, <4>2, <5>2, <5>3
      <4>4. CASE v \notin Idle
        BY <1>1, <3>3, <4>4 DEF PacedWith
      <4> QED BY <4>3, <4>4
    <3>8. PacedWith(w, m, d)'
      <4>1. m \in 0..Len(pushed') /\ d <= clock' /\ Since(m, w)' = 0
        BY <3>3, <3>4, <3>6 DEF PacedWith
      <4>2. \A v \in (Islands \ {w})' :
              /\ Since(m, v)' <= Ends(w, v)'
              /\ v \notin Idle' /\ finish'[v] > d + Since(m, v)' * (setting'.inner * setting'.paces[v])
        <5>1. \A v \in Islands \ {w} : Since(m, v) <= Ends(w, v)
          BY <3>3 DEF PacedWith
        <5> QED BY <1>2, <1>4, <3>6, <3>7, <5>1
      <4> QED BY <4>1, <4>2 DEF PacedWith
    <3> QED BY <3>5, <3>8, PacedPrimed
  <2> QED BY <2>1, <2>2
<1> QED BY <1>2, <1>5, <1>6, PaceIs

LEMMA PaceSync ==
  ASSUME CountInv, LateInv, PaceInv, NEW w \in Islands, Synchronize(w)
  PROVE  PaceInv'
<1>1. /\ ~setting.sync /\ w \notin Idle /\ setting' = setting /\ Islands' = Islands
      /\ clock' = finish[w] /\ clock <= clock' /\ clock' \in Nat
      /\ \A v \in Islands \ Idle : finish[w] <= finish[v]
      /\ \A v \in Islands \ {w} : tasks'[v] = tasks[v]
      /\ \A v \in Islands : finish'[v] = IF v \in Idle \cup {w} THEN clock' ELSE finish[v]
      /\ Idle' = Idle \cup {w}
  BY SyncEffect
<1>2. PICK push \in SimPushes : /\ pushed' = Append(pushed, push) /\ push.island = w
                                /\ push.tau = Len(pushed) - tasks[w][1].model
  BY SyncEffect
<1>3. /\ Idle \subseteq Islands /\ Len(pushed) \in Nat /\ pushed \in Seq(SimPushes) /\ clock \in Nat
      /\ Len(pushed') = Len(pushed) + 1
  <2>1. Len(pushed) \in Nat /\ pushed \in Seq(SimPushes) /\ clock \in Nat
    BY DEF CountInv
  <2> QED BY <1>2, <2>1 DEF Idle
<1>4. \A x \in Islands, v \in Islands : /\ Ends(x, v)' = Ends(x, v) /\ Ends(x, v) \in Nat
                                        /\ Most(x)' = Most(x) /\ Most(x) \in Nat
  <2>1. \A x \in Islands : Most(x) \in Nat
    BY StaleCounts
  <2>2. \A x, v \in Islands : Ends(x, v) \in Nat
    BY EndsEnough DEF CountInv
  <2> QED BY <1>1, <2>1, <2>2, SameSetting
<1>5. \A v \in Islands \ Idle : PacedWith(v, tasks[v][1].model, Dispatched(v))
  BY <1>1, PaceIs
<1>6. \A i \in DOMAIN pushed' : pushed'[i].tau <= (Most(pushed[i].island))'
  <2>1. \A x \in SimPushes : x.island \in Islands
    BY DEF SimPushes
  <2>2. \A i \in DOMAIN pushed' : pushed'[i] = push \/ (i \in DOMAIN pushed /\ pushed'[i] = pushed[i])
    BY <1>2, <1>3
  <2>3. push.tau <= Most(w)
    <3>1. PICK m \in 0..Len(pushed) : m = tasks[w][1].model
      BY <1>1, <1>5 DEF PacedWith
    <3>2. Since(m, w) = 0 /\ \A v \in Islands \ {w} : Since(m, v) <= Ends(w, v)
      BY <1>1, <1>5, <3>1 DEF PacedWith
    <3> QED BY <1>2, <3>1, <3>2, StaleCounts
  <2>4. \A i \in DOMAIN pushed : pushed[i] \in SimPushes /\ pushed[i].tau <= Most(pushed[i].island)
    BY <1>3 DEF PaceInv
  <2>5. ASSUME NEW i \in DOMAIN pushed' PROVE pushed'[i].tau <= (Most(pushed[i].island))'
    <3>1. PICK x \in Islands : x = pushed'[i].island /\ pushed'[i].tau <= Most(x)
      BY <1>2, <2>1, <2>2, <2>3, <2>4
    <3>2. (Most(pushed[i].island))' = Most(x)'
      BY <3>1 DEF Most
    <3> QED BY <1>4, <3>1, <3>2
  <2> QED BY <2>5
<1>7. ASSUME NEW x \in Islands, x \notin Idle' PROVE PacedWith(x, tasks[x][1].model, Dispatched(x))'
  <2>1. x # w /\ x \notin Idle
    BY <1>1, <1>7
  <2>2. PICK m : m = tasks[x][1].model
    OBVIOUS
  <2>3. PICK d : d = Dispatched(x)
    OBVIOUS
  <2>4. PacedWith(x, m, d)
    BY <1>5, <2>1, <2>2, <2>3
  <2>5. m \in 0..Len(pushed) /\ d \in Int /\ m \in Nat
    BY <1>3, <2>3, <2>4, DispatchedTyped DEF PacedWith
  <2>6. tasks'[x][1].model = m /\ Dispatched(x)' = d
    BY <1>1, <2>1, <2>2, <2>3 DEF Dispatched
  <2>7. \A v : Since(m, v) \in Nat /\ Since(m, v)' = IF v = w THEN Since(m, v) + 1 ELSE Since(m, v)
    <3>1. ASSUME NEW v PROVE Since(m, v) \in Nat /\ Since(m, v)' = IF v = w THEN Since(m, v) + 1 ELSE Since(m, v)
      BY <1>2, <2>5, SinceCounts, SinceGrows
    <3> QED BY <3>1
  <2>8. ASSUME NEW v \in Islands \ {x}, v # w
        PROVE  /\ Since(m, v)' <= Ends(x, v)'
               /\ IF v \in Idle'
                  THEN Since(m, v)' = 0 \/ clock' > d + (Since(m, v)' - 1) * (setting'.inner * setting'.paces[v])
                  ELSE finish'[v] > d + Since(m, v)' * (setting'.inner * setting'.paces[v])
    <3>1. PICK n \in Nat : n = Since(m, v) /\ n = Since(m, v)'
      BY <2>7, <2>8
    <3>2. PICK each \in Nat : each = setting.inner * setting.paces[v]
      BY DispatchedTyped
    <3>3. /\ n <= Ends(x, v)
          /\ IF v \in Idle THEN n = 0 \/ clock > d + (n - 1) * each ELSE finish[v] > d + n * each
      BY <2>4, <3>1, <3>2 DEF PacedWith
    <3>4. v \in Idle' <=> v \in Idle
      BY <1>1, <2>8
    <3>5. v \in Idle => n = 0 \/ clock' > d + (n - 1) * each
      <4>1. (n - 1) * each \in Int
        OBVIOUS
      <4> QED BY <1>1, <1>3, <2>5, <3>3, <4>1
    <3>6. v \notin Idle => finish'[v] > d + n * each
      BY <1>1, <2>8, <3>3
    <3> QED BY <1>1, <1>4, <3>1, <3>2, <3>3, <3>4, <3>5, <3>6
  <2>9. /\ Since(m, w)' <= Ends(x, w)' /\ w \in Idle'
        /\ clock' > d + (Since(m, w)' - 1) * (setting'.inner * setting'.paces[w])
    <3>1. PICK n \in Nat : n = Since(m, w) /\ Since(m, w)' = n + 1
      BY <2>7
    <3>2. PICK i \in Nat \ {0} : i = setting.inner
      BY SimSettings DEF CountInv
    <3>3. PICK a \in Nat \ {0} : a = setting.paces[x]
      BY SimSettings DEF CountInv
    <3>4. PICK b \in Nat \ {0} : b = setting.paces[w]
      BY SimSettings DEF CountInv
    <3>5. finish[w] > d + n * (i * b)
      BY <1>1, <2>1, <2>4, <3>1, <3>2, <3>4 DEF PacedWith
    <3>6. d = finish[x] - i * a /\ finish[w] <= finish[x] /\ finish[x] \in Nat /\ finish[w] \in Nat
      BY <1>1, <2>1, <2>3, <3>2, <3>3, DispatchedTyped
    <3>7. i * a > n * (i * b)
      <4>1. n * (i * b) \in Int /\ i * a \in Int
        OBVIOUS
      <4> QED BY <2>5, <3>5, <3>6, <4>1
    <3>8. n * b < a
      <4>1. n * (i * b) = i * (n * b) /\ n * b \in Int
        OBVIOUS
      <4>2. i * a > i * (n * b)
        BY <3>7, <4>1
      <4> QED BY <4>1, <4>2, Times
    <3>9. n + 1 <= Ends(x, w)
      BY <3>3, <3>4, <3>8, EndsEnough DEF CountInv
    <3>10. clock' > d + (n + 1 - 1) * (i * b)
      <4>1. n + 1 - 1 = n
        OBVIOUS
      <4> QED BY <1>1, <3>5, <4>1
    <3> QED BY <1>1, <1>4, <3>1, <3>2, <3>4, <3>9, <3>10
  <2>10. PacedWith(x, m, d)'
    <3>1. m \in 0..Len(pushed') /\ d <= clock' /\ Since(m, x)' = 0
      <4>1. d <= clock /\ Since(m, x) = 0
        BY <2>4 DEF PacedWith
      <4>2. m \in 0..Len(pushed') /\ d <= clock'
        BY <1>1, <1>3, <2>5, <4>1
      <4> QED BY <2>1, <2>7, <4>1, <4>2
    <3>2. \A v \in (Islands \ {x})' :
           /\ Since(m, v)' <= Ends(x, v)'
           /\ IF v \in Idle'
              THEN Since(m, v)' = 0 \/ clock' > d + (Since(m, v)' - 1) * (setting'.inner * setting'.paces[v])
              ELSE finish'[v] > d + Since(m, v)' * (setting'.inner * setting'.paces[v])
      BY <1>1, <2>8, <2>9
    <3> QED BY <3>1, <3>2 DEF PacedWith
  <2> QED BY <2>6, <2>10, PacedPrimed
<1>8. \A x \in (Islands \ Idle)' : PacedWith(x, tasks[x][1].model, Dispatched(x))'
  BY <1>1, <1>7
<1> QED BY <1>6, <1>8, PaceIs

LEMMA PaceKept ==
  ASSUME CountInv, LateInv, PaceInv, SimNext
  PROVE  PaceInv'
<1>1. CASE Start
  <2>1. UNCHANGED <<setting, clock, pushed>> /\ place = "start" /\ Idle = Islands
    BY <1>1 DEF Start, CountInv
  <2>2. CASE ~setting.sync
    <3>1. PICK p \in Picks(Idle) : Dispatch(p)
      BY <1>1, <2>1, <2>2 DEF Start
    <3> QED BY <2>1, <2>2, <3>1, PaceAfterDispatch
  <2>3. CASE setting.sync
    <3>1. \A i \in DOMAIN pushed : FALSE
      <4>1. PICK n \in Nat : n = NumWorkers
        BY SimSettings DEF CountInv
      <4>2. Len(applied) = 0 /\ Len(pushed) = n * Len(applied) /\ DOMAIN pushed = 1..Len(pushed)
        BY <2>1, <2>3, <4>1 DEF CountInv, Pulses
      <4>3. n * 0 = 0
        OBVIOUS
      <4> QED BY <4>2, <4>3
    <3> QED BY <2>1, <2>3, <3>1 DEF PaceInv
  <2> QED BY <2>2, <2>3
<1>2. ASSUME NEW w \in Islands, Synchronize(w) PROVE PaceInv'
  BY <1>2, PaceSync
<1>3. CASE DispatchIdle
  <2>1. /\ ~setting.sync /\ UNCHANGED <<setting, clock, pushed>> /\ \A v \in Islands \ Idle : finish[v] > clock
    BY <1>3, DispatchIdleEffect
  <2>2. PICK p \in Picks(Idle) : Dispatch(p)
    BY <1>3, DispatchIdleEffect
  <2> QED BY <2>1, <2>2, PaceAfterDispatch
<1>4. CASE Round
  <2>1. /\ setting.sync /\ setting' = setting /\ Len(pushed') = Len(pushed) + NumWorkers /\ pushed' \in Seq(SimPushes)
        /\ \A i \in 1..Len(pushed) : pushed'[i] = pushed[i]
        /\ \A w \in Islands : pushed'[Len(pushed) + w].tau = 0
    BY <1>4, RoundEffect
  <2>2. NumWorkers \in Nat /\ Islands = 1..NumWorkers /\ Len(pushed) \in Nat /\ DOMAIN pushed = 1..Len(pushed)
    BY SimSettings DEF CountInv
  <2>3. \A x \in Islands : Most(x)' = Most(x) /\ Most(x) \in Nat
    BY <2>1, SameSetting, StaleCounts
  <2>4. ASSUME NEW i \in DOMAIN pushed' PROVE pushed'[i].tau <= (Most(pushed[i].island))'
    <3>1. DOMAIN pushed' = 1..(Len(pushed) + NumWorkers) /\ pushed'[i] \in SimPushes
      BY <2>1, <2>2
    <3>2. PICK x \in Islands : x = pushed'[i].island
      BY <3>1 DEF SimPushes
    <3>3. (Most(pushed[i].island))' = Most(x)'
      BY <3>2 DEF Most
    <3>4. CASE i <= Len(pushed)
      <4>1. i \in DOMAIN pushed /\ pushed'[i] = pushed[i]
        BY <2>1, <2>2, <3>1, <3>4
      <4> QED BY <2>3, <3>2, <3>3, <4>1 DEF PaceInv
    <3>5. CASE ~(i <= Len(pushed))
      <4>1. i - Len(pushed) \in Islands /\ Len(pushed) + (i - Len(pushed)) = i
        BY <2>2, <3>1, <3>5
      <4>2. pushed'[i].tau = 0
        BY <2>1, <4>1
      <4> QED BY <2>3, <3>3, <4>2
    <3> QED BY <3>4, <3>5
  <2> QED BY <2>1, <2>4, PaceIs
<1>5. CASE Close
  <2>1. setting' = setting /\ UNCHANGED <<tasks, finish, clock, began, pushed>>
    BY <1>5 DEF Close
  <2>2. Idle' = Idle /\ Islands' = Islands
    BY <2>1, SameSetting DEF Idle
  <2>3. \A x \in Islands : (tasks[x][1].model)' = tasks[x][1].model /\ Dispatched(x)' = Dispatched(x)
    BY <2>1 DEF Dispatched
  <2>4. \A m, v : Since(m, v)' = Since(m, v)
    BY <2>1, SinceSame
  <2>5. ASSUME NEW x \in Islands \ Idle, PacedWith(x, tasks[x][1].model, Dispatched(x))
        PROVE  PacedWith(x, tasks[x][1].model, Dispatched(x))'
    <3>1. PICK m : m = tasks[x][1].model
      OBVIOUS
    <3>2. PICK d : d = Dispatched(x)
      OBVIOUS
    <3>3. PacedWith(x, m, d)
      BY <2>5, <3>1, <3>2
    <3>4. \A v \in Islands : Ends(x, v)' = Ends(x, v)
      BY <2>1, SameSetting
    <3>5. PacedWith(x, m, d)'
      BY <2>1, <2>2, <2>4, <3>3, <3>4 DEF PacedWith
    <3> QED BY <2>3, <3>1, <3>2, <3>5, PacedPrimed
  <2>6. \A i \in DOMAIN pushed : (Most(pushed[i].island))' = Most(pushed[i].island)
    BY <2>1, <2>2 DEF Most, Ends
  <2> QED BY <2>1, <2>2, <2>5, <2>6, PaceIs
<1> QED BY <1>1, <1>2, <1>3, <1>4, <1>5 DEF SimNext

-----------------------------------------------------------------------------
(* SharesInv. *)

Even(seen) == ~setting.fixed => \A s, o \in Shards : seen[s] <= seen[o] + 1 /\ seen[s] <= setting.phases + 1

LEMMA SharesIs ==
  /\ SharesInv <=> Numbered(AllTasks, visits, updates) /\ Even(visits)
  /\ setting' = setting => (SharesInv' <=> Numbered(AllTasks', visits', updates') /\ Even(visits'))
<1>1. SharesInv <=> Numbered(AllTasks, visits, updates) /\ Even(visits)
  BY DEF SharesInv, Numbered, Even
<1>2. ASSUME setting' = setting PROVE SharesInv' <=> Numbered(AllTasks', visits', updates') /\ Even(visits')
  BY <1>2, SameSetting DEF SharesInv, Numbered, Even
<1> QED BY <1>1, <1>2

LEMMA SharesAfter ==
  ASSUME CountInv, SharesInv, setting' = setting, NEW ws \in SUBSET Islands, NEW p \in Picks(ws), Assign(p),
         AllTasks' = AllTasks \cup {Task(p, w) : w \in ws},
         IsFiniteSet(AllTasks'), Cardinality(AllTasks') < NumWorkers * (setting.phases + 1)
  PROVE  SharesInv'
<1>1. Numbered(AllTasks, visits, updates) /\ Even(visits) /\ Books /\ setting \in Experiments
  BY SharesIs, CountBooks DEF CountInv
<1>2. Numbered(AllTasks', visits', updates')
  BY <1>1, NumberedMore
<1>3. visits' \in [Shards -> Nat]
  BY <1>1, AssignEffect
<1>4. Even(visits')
  <2>1. SUFFICES ASSUME ~setting.fixed
                 PROVE  \A s, o \in Shards : visits'[s] <= visits'[o] + 1 /\ visits'[s] <= setting.phases + 1
    BY DEF Even
  <2>2. \A s, o \in Shards : visits'[s] <= visits'[o] + 1
    BY <1>1, <2>1, Balanced DEF Even
  <2>3. PICK all : all = AllTasks'
    OBVIOUS
  <2>4. PICK seen \in [Shards -> Nat] : seen = visits'
    BY <1>3
  <2>5. PICK upto : upto = updates'
    OBVIOUS
  <2>6. \A s \in Shards : seen[s] <= setting.phases + 1
    <3>1. Numbered(all, seen, upto) /\ IsFiniteSet(all) /\ Cardinality(all) < NumWorkers * (setting.phases + 1)
      BY <1>2, <2>3, <2>4, <2>5
    <3>2. \A s, o \in Shards : seen[s] <= seen[o] + 1
      BY <2>2, <2>4
    <3> QED BY <1>1, <3>1, <3>2, VisitsBounded
  <2> QED BY <2>2, <2>4, <2>6
<1> QED BY <1>2, <1>4, SharesIs

LEMMA TasksMoved ==
  ASSUME CountInv, LateInv, NEW w \in Islands, Synchronize(w)
  PROVE  AllTasks' = AllTasks
<1>1. /\ w \notin Idle /\ Islands' = Islands /\ tasks'[w] = <<>>
      /\ \A v \in Islands \ {w} : tasks'[v] = tasks[v]
      /\ Idle' = Idle \cup {w}
  BY SyncEffect
<1>2. PICK push \in SimPushes : pushed' = Append(pushed, push) /\ push.task = tasks[w][1]
  BY SyncEffect
<1>3. \A v \in Islands \ {w} : ToSet(tasks'[v]) = ToSet(tasks[v])
  BY <1>1
<1>4. ToSet(tasks'[w]) = {} /\ ToSet(tasks[w]) = {tasks[w][1]}
  <2>1. DOMAIN <<>> = {} /\ DOMAIN tasks[w] = {1}
    BY <1>1, SameBusy
  <2> QED BY <1>1, <2>1 DEF ToSet
<1>5. Running = Running' \cup {tasks[w][1]}
  <2>1. ASSUME NEW t \in Running PROVE t \in Running' \cup {tasks[w][1]}
    <3>1. PICK v \in Islands : t \in ToSet(tasks[v])
      BY <2>1 DEF Running
    <3>2. CASE v = w
      BY <1>4, <3>1, <3>2
    <3>3. CASE v # w
      <4>1. t \in ToSet(tasks'[v])
        BY <1>3, <3>1, <3>3
      <4> QED BY <1>1, <4>1 DEF Running
    <3> QED BY <3>2, <3>3
  <2>2. ASSUME NEW t \in Running' PROVE t \in Running
    <3>1. PICK v \in Islands : t \in ToSet(tasks'[v])
      BY <1>1, <2>2 DEF Running
    <3>2. v # w
      BY <1>4, <3>1
    <3>3. t \in ToSet(tasks[v])
      BY <1>3, <3>1, <3>2
    <3> QED BY <3>3 DEF Running
  <2>3. tasks[w][1] \in Running
    BY <1>4 DEF Running
  <2> QED BY <2>1, <2>2, <2>3
<1>6. {pushed'[i].task : i \in DOMAIN pushed'} = {pushed[i].task : i \in DOMAIN pushed} \cup {tasks[w][1]}
  <2>1. pushed \in Seq(SimPushes) /\ Len(pushed) \in Nat
    BY DEF CountInv
  <2>2. /\ DOMAIN pushed' = DOMAIN pushed \cup {Len(pushed) + 1} /\ pushed'[Len(pushed) + 1] = push
        /\ \A i \in DOMAIN pushed : pushed'[i] = pushed[i]
    <3>1. 1..(Len(pushed) + 1) = (1..Len(pushed)) \cup {Len(pushed) + 1}
      BY <2>1
    <3> QED BY <1>2, <2>1, <3>1
  <2> QED BY <1>2, <2>2
<1> QED BY <1>5, <1>6 DEF AllTasks

LEMMA SharesKept ==
  ASSUME CountInv, CountInv', LateInv, SharesInv, SimNext
  PROVE  SharesInv'
<1>1. CASE Start
  <2>1. setting' = setting /\ pushed' = pushed /\ total' = total /\ place = "start" /\ Idle = Islands
    BY <1>1 DEF Start, CountInv
  <2>2. CASE setting.sync
    <3>1. UNCHANGED <<tasks, visits, updates>>
      BY <1>1, <2>2 DEF Start
    <3>2. AllTasks' = AllTasks
      BY <2>1, <3>1, SameSetting DEF AllTasks, Running
    <3> QED BY <2>1, <3>1, <3>2, SharesIs
  <2>3. CASE ~setting.sync
    <3>1. PICK p \in Picks(Islands) : Dispatch(p)
      BY <1>1, <2>3 DEF Start
    <3>2. AllTasks' = AllTasks \cup {Task(p, w) : w \in Islands}
      <4>1. Running' = Running \cup {Task(p, w) : w \in Islands}
        BY <2>1, <3>1, DispatchEffect
      <4> QED BY <2>1, <4>1 DEF AllTasks
    <3>3. ~Finished'
      <4>1. total = Pulse * Pulses /\ Pulses = 0 /\ total \in Nat
        BY <2>1 DEF CountInv
      <4>2. PICK n \in Nat : n = Pulse
        BY SimSettings DEF CountInv
      <4>3. n * 0 = 0
        OBVIOUS
      <4>4. total = 0 /\ MaxUpdates \in Nat \ {0}
        BY <4>1, <4>2, <4>3, SimSettings DEF CountInv
      <4> QED BY <2>1, <4>4, SameSetting DEF Finished
    <3>4. IsFiniteSet(AllTasks') /\ Cardinality(AllTasks') < NumWorkers * (setting.phases + 1)
      <4>1. (CountInv /\ (setting.sync \/ ~Finished))' => Few'
        BY FewTasks, PTL
      <4> QED BY <2>1, <3>3, <4>1, SameSetting DEF Few
    <3>5. Assign(p) /\ Islands \in SUBSET Islands
      BY <3>1 DEF Dispatch
    <3> QED BY <2>1, <3>2, <3>4, <3>5, SharesAfter
  <2> QED BY <2>2, <2>3
<1>2. ASSUME NEW w \in Islands, Synchronize(w) PROVE SharesInv'
  <2>1. setting' = setting /\ visits' = visits /\ updates' = updates
    BY <1>2, SyncEffect
  <2> QED BY <1>2, <2>1, TasksMoved, SharesIs
<1>3. CASE DispatchIdle
  <2>1. /\ ~setting.sync /\ UNCHANGED <<setting, total, pushed>> /\ ~Finished
    BY <1>3, DispatchIdleEffect
  <2>2. PICK p \in Picks(Idle) : Dispatch(p)
    BY <1>3, DispatchIdleEffect
  <2>3. AllTasks' = AllTasks \cup {Task(p, w) : w \in Idle}
    <3>1. Running' = Running \cup {Task(p, w) : w \in Idle}
      BY <2>1, <2>2, DispatchEffect
    <3> QED BY <2>1, <3>1 DEF AllTasks
  <2>4. ~Finished'
    BY <2>1, SameSetting DEF Finished
  <2>5. IsFiniteSet(AllTasks') /\ Cardinality(AllTasks') < NumWorkers * (setting.phases + 1)
    <3>1. (CountInv /\ (setting.sync \/ ~Finished))' => Few'
      BY FewTasks, PTL
    <3> QED BY <2>1, <2>4, <3>1, SameSetting DEF Few
  <2>6. Assign(p) /\ Idle \in SUBSET Islands
    BY <2>2 DEF Dispatch, Idle
  <2> QED BY <2>1, <2>3, <2>5, <2>6, SharesAfter
<1>4. CASE Round
  <2>1. /\ setting.sync /\ setting' = setting /\ Len(pushed') = Len(pushed) + NumWorkers /\ pushed' \in Seq(SimPushes)
        /\ \A i \in 1..Len(pushed) : pushed'[i] = pushed[i]
        /\ Running' = Running
    BY <1>4, RoundEffect
  <2>2. PICK p \in Picks(Islands) : Assign(p) /\ \A w \in Islands : pushed'[Len(pushed) + w].task = Task(p, w)
    BY <1>4, RoundEffect
  <2>3. NumWorkers \in Nat /\ Islands = 1..NumWorkers /\ Len(pushed) \in Nat /\ DOMAIN pushed = 1..Len(pushed)
    BY SimSettings DEF CountInv
  <2>4. {pushed'[i].task : i \in DOMAIN pushed'} = {pushed[i].task : i \in DOMAIN pushed} \cup {Task(p, w) : w \in Islands}
    <3>1. DOMAIN pushed' = 1..(Len(pushed) + NumWorkers)
      BY <2>1, <2>3
    <3>2. ASSUME NEW i \in DOMAIN pushed'
          PROVE  pushed'[i].task \in {pushed[k].task : k \in DOMAIN pushed} \cup {Task(p, w) : w \in Islands}
      <4>1. CASE i <= Len(pushed)
        <5>1. i \in DOMAIN pushed /\ pushed'[i] = pushed[i]
          BY <2>1, <2>3, <3>1, <4>1
        <5> QED BY <5>1
      <4>2. CASE ~(i <= Len(pushed))
        <5>1. i - Len(pushed) \in Islands /\ Len(pushed) + (i - Len(pushed)) = i
          BY <2>3, <3>1, <4>2
        <5>2. pushed'[i].task = Task(p, i - Len(pushed))
          BY <2>2, <5>1
        <5> QED BY <5>1, <5>2
      <4> QED BY <4>1, <4>2
    <3>3. ASSUME NEW i \in DOMAIN pushed PROVE pushed[i].task \in {pushed'[k].task : k \in DOMAIN pushed'}
      <4>1. i \in DOMAIN pushed' /\ pushed'[i] = pushed[i]
        BY <2>1, <2>3, <3>1
      <4> QED BY <4>1
    <3>4. ASSUME NEW w \in Islands PROVE Task(p, w) \in {pushed'[k].task : k \in DOMAIN pushed'}
      <4>1. Len(pushed) + w \in DOMAIN pushed' /\ pushed'[Len(pushed) + w].task = Task(p, w)
        BY <2>2, <2>3, <3>1
      <4> QED BY <4>1
    <3> QED BY <3>2, <3>3, <3>4
  <2>5. AllTasks' = AllTasks \cup {Task(p, w) : w \in Islands}
    BY <2>1, <2>4 DEF AllTasks
  <2>6. IsFiniteSet(AllTasks') /\ Cardinality(AllTasks') < NumWorkers * (setting.phases + 1)
    <3>1. (CountInv /\ (setting.sync \/ ~Finished))' => Few'
      BY FewTasks, PTL
    <3> QED BY <2>1, <3>1, SameSetting DEF Few
  <2>7. Islands \in SUBSET Islands
    OBVIOUS
  <2> QED BY <2>1, <2>2, <2>5, <2>6, <2>7, SharesAfter
<1>5. CASE Close
  <2>1. setting' = setting /\ UNCHANGED <<tasks, visits, updates, pushed>>
    BY <1>5 DEF Close
  <2>2. AllTasks' = AllTasks
    BY <2>1, SameSetting DEF AllTasks, Running
  <2> QED BY <2>1, <2>2, SharesIs
<1> QED BY <1>1, <1>2, <1>3, <1>4, <1>5 DEF SimNext

-----------------------------------------------------------------------------
(* EvalInv. *)

EvalGood(n, done, marks, next) ==
  /\ Len(marks) > 0
  /\ \A k \in 1..Len(marks) : marks[k] = IF k = Len(marks) /\ done THEN n ELSE (k - 1) * EvalInterval
  /\ IF done THEN /\ Len(marks) > 1 /\ (Len(marks) - 2) * EvalInterval < n
                  /\ n <= (Len(marks) - 1) * EvalInterval
     ELSE /\ next = Len(marks) * EvalInterval
          /\ (Len(marks) - 1) * EvalInterval <= n /\ n < next

LEMMA EvalIs ==
  /\ place \notin {"none", "start"} =>
       (EvalInv <=> EvalGood(total, Finished, stats, target) /\ (place = "ended" => Finished))
  /\ setting' = setting /\ place' \notin {"none", "start"} =>
       (EvalInv' <=> EvalGood(total', Finished', stats', target') /\ (place' = "ended" => Finished'))
<1>1. place \notin {"none", "start"} =>
       (EvalInv <=> EvalGood(total, Finished, stats, target) /\ (place = "ended" => Finished))
  BY DEF EvalInv, EvalGood
<1>2. ASSUME setting' = setting, place' \notin {"none", "start"}
      PROVE  EvalInv' <=> EvalGood(total', Finished', stats', target') /\ (place' = "ended" => Finished')
  <2>1. EvalInterval' = EvalInterval
    BY <1>2, SameSetting
  <2> QED BY <1>2, <2>1 DEF EvalInv, EvalGood
<1> QED BY <1>1, <1>2

LEMMA EvalThen ==
  ASSUME setting' = setting, place' \notin {"none", "start"}, NEW n, total' = n, NEW done, Finished' = done,
         place' = "ended" => done, EvalGood(n, done, stats', target')
  PROVE  EvalInv'
<1>1. EvalGood(total', Finished', stats', target')
  OBVIOUS
<1> QED BY <1>1, EvalIs

LEMMA EvalOpen ==
  ASSUME NEW n, NEW marks, NEW next, NEW l, NEW e, e = EvalInterval, l = Len(marks), l > 0,
         \A k \in 1..l : marks[k] = (k - 1) * e, next = l * e, (l - 1) * e <= n, n < next
  PROVE  EvalGood(n, FALSE, marks, next)
<1>1. \A k \in 1..Len(marks) : marks[k] = IF k = Len(marks) /\ FALSE THEN n ELSE (k - 1) * EvalInterval
  OBVIOUS
<1>2. next = Len(marks) * EvalInterval /\ (Len(marks) - 1) * EvalInterval <= n /\ Len(marks) > 0
  OBVIOUS
<1> QED BY <1>1, <1>2, Zenon DEF EvalGood

LEMMA EvalAfter ==
  ASSUME CountInv, EvalInv, place = "loop", ~Finished, setting' = setting, place' = "loop",
         total' = total + Pulse, Evaluate(total'), total' <= MaxUpdates
  PROVE  EvalInv'
<1>1. PICK d \in Nat \ {0} : d = Pulse
  BY SimSettings DEF CountInv
<1>2. PICK j \in Nat \ {0} : j = Between
  BY SimSettings DEF CountInv
<1>3. PICK e \in Nat \ {0} : e = EvalInterval /\ e = d * j
  BY <1>1, <1>2, SimSettings DEF CountInv
<1>4. PICK l \in Nat : l = Len(stats)
  BY DEF CountInv
<1>5. PICK a \in Nat : a = Pulses
  BY Progress
<1>6. PICK n \in Nat : n = total /\ n = d * a
  BY <1>1, <1>5 DEF CountInv
<1>7. EvalGood(n, FALSE, stats, target)
  <2>1. EvalGood(total, Finished, stats, target)
    BY EvalIs
  <2>2. Finished = FALSE
    BY DEF Finished
  <2> QED BY <1>6, <2>1, <2>2 DEF EvalGood
<1>8. /\ l > 0 /\ \A k \in 1..l : stats[k] = (k - 1) * e
      /\ target = l * e /\ (l - 1) * e <= n /\ n < l * e
  BY <1>3, <1>4, <1>7 DEF EvalGood
<1>9. n + d <= l * e /\ n + d > (l - 1) * e
  <2>1. l * e = d * (l * j) /\ l * j \in Nat
    BY <1>3
  <2>2. d * a < d * (l * j)
    BY <1>6, <1>8, <2>1
  <2>3. d * a + d <= d * (l * j)
    BY <2>1, <2>2, Times
  <2>4. (l - 1) * e \in Int
    OBVIOUS
  <2> QED BY <1>6, <1>8, <2>1, <2>3, <2>4
<1>10. MaxUpdates \in Nat /\ l * e \in Nat /\ n + d \in Nat /\ total' = n + d /\ target = l * e
  <2>1. MaxUpdates \in Nat
    BY SimSettings DEF CountInv
  <2>2. l * e \in Nat /\ n + d \in Nat
    BY <1>1, <1>3
  <2>3. total' = n + d
    BY <1>1, <1>6
  <2> QED BY <1>8, <2>1, <2>2, <2>3
<1>11. setting \in Experiments /\ target \in Nat /\ stats \in Seq(0..MaxUpdates) /\ total' \in 0..MaxUpdates
  <2>1. total' \in 0..MaxUpdates
    BY <1>10
  <2> QED BY <2>1 DEF CountInv
<1>12. IF total' >= target \/ total' >= MaxUpdates THEN target' = target + EvalInterval /\ stats' = Append(stats, total')
                                                   ELSE target' = target /\ stats' = stats
  BY <1>11, Evaluated
<1>13. Finished' <=> n + d >= MaxUpdates
  BY <1>10, SameSetting DEF Finished
<1>14. /\ Len(Append(stats, total')) = l + 1 /\ Append(stats, total')[l + 1] = total'
       /\ \A k \in 1..l : Append(stats, total')[k] = stats[k]
  BY <1>4, <1>11
<1>15. CASE Finished'
  <2>1. stats' = Append(stats, total')
    BY <1>10, <1>12, <1>13, <1>15
  <2>2. \A k \in 1..(l + 1) : stats'[k] = IF k = l + 1 THEN n + d ELSE (k - 1) * e
    <3>1. \A k \in 1..(l + 1) : k = l + 1 \/ k \in 1..l
      OBVIOUS
    <3>2. \A k \in 1..l : k # l + 1
      OBVIOUS
    <3> QED BY <1>8, <1>10, <1>14, <2>1, <3>1, <3>2
  <2>3. Len(stats') = l + 1 /\ l + 1 - 2 = l - 1 /\ l + 1 - 1 = l
    BY <1>14, <2>1
  <2>4. EvalGood(n + d, TRUE, stats', target')
    BY <1>3, <1>8, <1>9, <2>2, <2>3 DEF EvalGood
  <2>5. Finished' = TRUE
    BY <1>15 DEF Finished
  <2> QED BY <1>10, <2>4, <2>5, EvalThen
<1>16. CASE ~Finished' /\ n + d >= l * e
  <2>1. stats' = Append(stats, total') /\ target' = target + e
    BY <1>3, <1>10, <1>12, <1>16
  <2>2. n + d = l * e
    BY <1>9, <1>10, <1>16
  <2>3. ASSUME NEW k \in 1..(l + 1) PROVE stats'[k] = (k - 1) * e
    <3>1. CASE k = l + 1
      <4>1. stats'[k] = l * e
        BY <1>10, <1>14, <2>1, <2>2, <3>1
      <4>2. k - 1 = l
        BY <3>1
      <4> QED BY <4>1, <4>2
    <3>2. CASE k \in 1..l
      <4>1. stats'[k] = stats[k]
        BY <1>14, <2>1, <3>2
      <4> QED BY <1>8, <3>2, <4>1
    <3> QED BY <3>1, <3>2
  <2>4. Len(stats') = l + 1 /\ l + 1 - 1 = l /\ (l + 1) * e = l * e + e
    BY <1>14, <2>1
  <2>5. l * e < l * e + e
    BY <1>10
  <2>6. EvalGood(n + d, FALSE, stats', target')
    <3>1. /\ Len(stats') > 0
          /\ \A k \in 1..(l + 1) : stats'[k] = (k - 1) * e
      BY <1>3, <2>3, <2>4
    <3>2. target' = (l + 1) * e
      BY <1>8, <2>1, <2>4
    <3>3. (l + 1 - 1) * e <= n + d /\ n + d < target'
      <4>1. target' = l * e + e
        BY <1>8, <2>1
      <4> QED BY <1>10, <2>2, <2>4, <2>5, <4>1
    <3>4. e = EvalInterval
      BY <1>3
    <3>5. l + 1 = Len(stats')
      BY <2>4
    <3>6. l + 1 > 0
      BY <1>4
    <3>7. PICK m : m = l + 1
      OBVIOUS
    <3>8. PICK s : s = n + d
      OBVIOUS
    <3>9. /\ e = EvalInterval /\ m = Len(stats') /\ m > 0
          /\ \A k \in 1..m : stats'[k] = (k - 1) * e
          /\ target' = m * e /\ (m - 1) * e <= s /\ s < target'
      BY <3>1, <3>2, <3>3, <3>4, <3>5, <3>6, <3>7, <3>8
    <3>10. EvalGood(s, FALSE, stats', target')
      BY <3>9, EvalOpen, Zenon
    <3> QED BY <3>8, <3>10
  <2>10. Finished' = FALSE
    BY <1>16 DEF Finished
  <2> QED BY <1>10, <2>6, <2>10, EvalThen
<1>17. CASE ~Finished' /\ ~(n + d >= l * e)
  <2>1. stats' = stats /\ target' = target
    BY <1>10, <1>12, <1>13, <1>17
  <2>2. (l - 1) * e <= n + d /\ n + d < l * e
    <3>1. (l - 1) * e \in Int
      OBVIOUS
    <3> QED BY <1>9, <1>10, <1>17, <3>1
  <2>3. EvalGood(n + d, FALSE, stats', target')
    <3>1. \A k \in 1..l : stats'[k] = (k - 1) * e
      BY <1>8, <2>1
    <3>2. Len(stats') = l
      BY <1>4, <2>1
    <3>3. target' = l * e
      BY <1>8, <2>1
    <3>4. e = EvalInterval /\ l = Len(stats') /\ l > 0 /\ n + d < target'
      BY <1>3, <1>8, <2>2, <3>2, <3>3
    <3> QED BY <2>2, <3>1, <3>3, <3>4, EvalOpen, Zenon
  <2>10. Finished' = FALSE
    BY <1>17 DEF Finished
  <2> QED BY <1>10, <2>3, <2>10, EvalThen
<1> QED BY <1>15, <1>16, <1>17

LEMMA EvalKept ==
  ASSUME CountInv, CountInv', LateInv, EvalInv, SimNext
  PROVE  EvalInv'
<1>1. CASE Start
  <2>1. setting' = setting /\ total' = total /\ place = "start" /\ place' = "loop" /\ Evaluate(0)
    BY <1>1 DEF Start
  <2>2. stats = <<>> /\ target = 0
    BY <2>1 DEF EvalInv
  <2>3. PICK e \in Nat \ {0} : e = EvalInterval
    BY SimSettings DEF CountInv
  <2>4. total = 0
    <3>1. PICK n \in Nat : n = Pulse
      BY SimSettings DEF CountInv
    <3>2. total = n * Pulses /\ Pulses = 0
      BY <2>1, <3>1 DEF CountInv
    <3>3. n * 0 = 0
      OBVIOUS
    <3> QED BY <3>2, <3>3
  <2>5. target' = e /\ stats' = <<0>>
    <3>1. 0 \in 0..MaxUpdates /\ setting \in Experiments /\ target \in Nat /\ stats \in Seq(0..MaxUpdates)
      BY SimSettings DEF CountInv
    <3>2. target' = target + EvalInterval /\ stats' = Append(stats, 0)
      BY <2>1, <2>2, <3>1, Evaluated
    <3> QED BY <2>2, <2>3, <3>2
  <2>6. ~Finished'
    <3>1. MaxUpdates \in Nat \ {0}
      BY SimSettings DEF CountInv
    <3> QED BY <2>1, <2>4, <3>1, SameSetting DEF Finished
  <2>7. Len(<<0>>) = 1 /\ <<0>>[1] = 0 /\ 1..1 = {1} /\ 1 - 1 = 0 /\ 0 * e = 0 /\ 1 * e = e
    OBVIOUS
  <2>8. EvalGood(0, FALSE, <<0>>, e)
    <3>1. \A k \in 1..1 : <<0>>[k] = (k - 1) * e
      BY <2>7
    <3>2. 0 < e /\ 1 > 0 /\ (1 - 1) * e <= 0 /\ e = 1 * e
      BY <2>3, <2>7
    <3>3. e = EvalInterval /\ 1 = Len(<<0>>)
      BY <2>3
    <3> QED BY <3>1, <3>2, <3>3, EvalOpen, Zenon
  <2>9. Finished' = FALSE /\ total' = 0
    BY <2>1, <2>4, <2>6 DEF Finished
  <2>10. EvalGood(0, FALSE, stats', target')
    BY <2>5, <2>8
  <2>11. setting' = setting /\ place' \notin {"none", "start"} /\ ~(place' = "ended")
    BY <2>1
  <2> QED BY <2>9, <2>10, <2>11, EvalThen
<1>2. ASSUME NEW w \in Islands, Synchronize(w) PROVE EvalInv'
  <2>1. /\ ~setting.sync /\ place = "loop" /\ ~Finished /\ setting' = setting /\ place' = place
        /\ total' = total + setting.inner /\ Evaluate(total + setting.inner)
    BY <1>2, SyncEffect
  <2>2. Pulse = setting.inner
    BY <2>1 DEF Pulse
  <2>3. total' <= MaxUpdates
    BY <2>1, SameSetting DEF CountInv
  <2> QED BY <2>1, <2>2, <2>3, EvalAfter
<1>3. CASE DispatchIdle
  <2>1. UNCHANGED <<setting, place, total, target, stats>> /\ place = "loop"
    BY <1>3, DispatchIdleEffect
  <2>2. Finished' = Finished
    BY <2>1, SameSetting DEF Finished
  <2> QED BY <2>1, <2>2, EvalIs
<1>4. CASE Round
  <2>1. /\ place = "loop" /\ ~Finished /\ setting' = setting /\ place' = place
        /\ total' = total + Pulse /\ Evaluate(total')
    BY <1>4, RoundEffect
  <2>2. total' <= MaxUpdates
    BY <2>1, SameSetting DEF CountInv
  <2> QED BY <2>1, <2>2, EvalAfter
<1>5. CASE Close
  <2>1. UNCHANGED <<setting, total, target, stats>> /\ place = "loop" /\ place' = "ended" /\ Finished
    BY <1>5 DEF Close
  <2>2. Finished' = Finished
    BY <2>1, SameSetting DEF Finished
  <2> QED BY <2>1, <2>2, EvalIs
<1> QED BY <1>1, <1>2, <1>3, <1>4, <1>5 DEF SimNext

-----------------------------------------------------------------------------
(* PartsInv. *)

LEMMA CountSteps ==
  ASSUME NEW c \in Nat, NEW n \in Nat \ {0}
  PROVE  /\ (c % n) \in 0..(n - 1) /\ ((c + 1) % n) \in 0..(n - 1)
         /\ ((c + 1) % n) = 0 => (c % n) = n - 1
         /\ ((c + 1) % n) # 0 => ((c + 1) % n) = (c % n) + 1
<1>1. PICK r \in 0..(n - 1), k \in Nat : r = (c % n) /\ c = n * k + r
  BY Dividing
<1>2. PICK e \in 0..(n - 1), l \in Nat : e = ((c + 1) % n) /\ c + 1 = n * l + e
  <2>1. c + 1 \in Nat
    OBVIOUS
  <2> QED BY <2>1, Dividing
<1>3. PICK d \in Int : d = l - k
  OBVIOUS
<1>4. n * d = r + 1 - e
  <2>1. n * d = n * l - n * k
    BY <1>3
  <2> QED BY <1>1, <1>2, <2>1
<1>5. d \in {0, 1}
  <2>1. n * d <= n /\ n * d > - n
    BY <1>4
  <2>2. d <= 1 /\ d >= 0
    BY <2>1
  <2> QED BY <2>2
<1>6. e = r + 1 \/ n = r + 1 - e
  <2>1. n * 0 = 0 /\ n * 1 = n
    OBVIOUS
  <2> QED BY <1>4, <1>5, <2>1
<1> QED BY <1>1, <1>2, <1>6

InParts(taken, p) == \A k \in DOMAIN taken : taken[k] = ((k - 1) * p + 1)..(k * p)

\* PartsInv, of any log of n pushes in parts of p.
PartsOf(taken, n, sum, p) ==
  /\ InParts(taken, p)
  /\ ~setting.sync => n = p * Len(taken) + (n % p)
  /\ setting.delayed /\ ~setting.sync /\ (n % p) # 0 => sum = (p * Len(taken) + 1)..n

LEMMA PartsIs ==
  /\ PartsInv <=> PartsOf(applied, Len(pushed), grads, Parts)
  /\ setting' = setting => (PartsInv' <=> PartsOf(applied', Len(pushed'), grads', Parts))
<1>1. PartsInv <=> PartsOf(applied, Len(pushed), grads, Parts)
  BY DEF PartsInv, PartsOf, InParts
<1>2. ASSUME setting' = setting
      PROVE  PartsInv' <=> PartsOf(applied', Len(pushed'), grads', Parts)
  <2>1. Parts' = Parts
    BY <1>2 DEF Parts, NumWorkers
  <2> QED BY <1>2, <2>1 DEF PartsInv, PartsOf, InParts
<1> QED BY <1>1, <1>2

\* One more step, of the parts that follow.
LEMMA PartsAppended ==
  ASSUME NEW taken, taken \in Seq(SUBSET Nat), NEW p, p \in Nat \ {0}, NEW a, a = Len(taken),
         NEW now, now \in SUBSET Nat, now = (p * a + 1)..(p * a + p), InParts(taken, p)
  PROVE  InParts(Append(taken, now), p)
<1>1. /\ DOMAIN Append(taken, now) = 1..(a + 1) /\ DOMAIN taken = 1..a /\ a \in Nat
      /\ Append(taken, now)[a + 1] = now /\ \A k \in 1..a : Append(taken, now)[k] = taken[k]
  OBVIOUS
<1>2. SUFFICES ASSUME NEW k \in 1..(a + 1)
               PROVE  Append(taken, now)[k] = ((k - 1) * p + 1)..(k * p)
  BY <1>1 DEF InParts
<1>3. CASE k = a + 1
  <2>1. (k - 1) * p = p * a /\ k * p = p * a + p
    BY <1>1, <1>3
  <2> QED BY <1>1, <1>3, <2>1
<1>4. CASE k \in 1..a
  BY <1>1, <1>4 DEF InParts
<1> QED BY <1>3, <1>4

LEMMA PartsRound ==
  ASSUME CountInv, PartsInv, Round
  PROVE  PartsInv'
<1>1. /\ setting.sync /\ setting' = setting
      /\ grads' = {Len(pushed) + w : w \in Islands} /\ applied' = Append(applied, grads')
  BY RoundEffect
<1>2. PICK p \in Nat \ {0} : p = NumWorkers /\ Islands = 1..p /\ p = Parts
  BY <1>1, SimSettings DEF CountInv, Parts
<1>3. PICK a \in Nat : a = Len(applied) /\ Len(pushed) = p * a
  BY <1>1, <1>2 DEF CountInv
<1>4. applied \in Seq(SUBSET Nat)
  BY DEF CountInv
<1>5. PICK c \in Nat : c = p * a
  OBVIOUS
<1>6. {c + w : w \in 1..p} = (c + 1)..(c + p)
  <2>1. \A x \in (c + 1)..(c + p) : x - c \in 1..p /\ x = c + (x - c)
    OBVIOUS
  <2>2. \A w \in 1..p : c + w \in (c + 1)..(c + p)
    OBVIOUS
  <2> QED BY <2>1, <2>2
<1>7. grads' = (p * a + 1)..(p * a + p) /\ grads' \in SUBSET Nat
  <2>1. Len(pushed) = c
    BY <1>3, <1>5
  <2>2. grads' = {c + w : w \in 1..p}
    BY <1>1, <1>2, <2>1
  <2>3. (c + 1)..(c + p) \in SUBSET Nat
    OBVIOUS
  <2> QED BY <1>5, <1>6, <2>2, <2>3
<1>8. InParts(applied, p)
  BY <1>2 DEF PartsInv, InParts
<1>9. InParts(applied', p)
  <2>1. InParts(Append(applied, grads'), p)
    BY <1>3, <1>4, <1>7, <1>8, PartsAppended
  <2> QED BY <1>1, <2>1
<1>10. PartsOf(applied', Len(pushed'), grads', p)
  BY <1>1, <1>9 DEF PartsOf
<1> QED BY <1>1, <1>2, <1>10, PartsIs

LEMMA PartsSync ==
  ASSUME CountInv, LateInv, PartsInv, NEW w \in Islands, Synchronize(w)
  PROVE  PartsInv'
<1>1. ~setting.sync /\ setting' = setting /\ \E push \in SimPushes : pushed' = Append(pushed, push)
  BY SyncEffect
<1>2. PICK c \in Nat : c = Len(pushed)
  BY DEF CountInv
<1>3. PICK a \in Nat : a = Len(applied)
  BY DEF CountInv
<1>4. PICK p \in Nat \ {0} : p = Parts
  BY SimSettings DEF CountInv
<1>5. Len(pushed') = c + 1
  <2>1. pushed \in Seq(SimPushes)
    BY DEF CountInv
  <2> QED BY <1>1, <1>2, <2>1
<1>6. PICK parts : parts = Kept(c) \cup {c + 1}
  OBVIOUS
<1>7. grads' = parts /\ applied' = IF StepDue(c) THEN Append(applied, parts) ELSE applied
  <2>1. ModelId = c
    BY <1>1, <1>2 DEF ModelId
  <2> QED BY <1>6, <2>1 DEF Synchronize
<1>8. /\ InParts(applied, p)
      /\ c = p * a + (c % p)
      /\ setting.delayed /\ (c % p) # 0 => grads = (p * a + 1)..c
  BY <1>1, <1>2, <1>3, <1>4 DEF PartsInv, InParts
<1>9. applied \in Seq(SUBSET Nat) /\ setting.delayed \in BOOLEAN /\ NumWorkers \in Nat \ {0}
  BY SimSettings DEF CountInv
<1>10. PICK r \in 0..(p - 1) : r = (c % p)
  BY CountSteps
<1>11. PICK b \in Nat : b = p * a /\ c = b + r
  BY <1>8, <1>10
<1>12. CASE setting.delayed
  <2>1. p = NumWorkers
    BY <1>4, <1>12 DEF Parts
  <2>2. parts = (b + 1)..(c + 1)
    <3>1. CASE r = 0
      <4>1. Kept(c) = {} /\ c = b
        BY <1>10, <1>11, <1>12, <2>1, <3>1 DEF Kept
      <4>2. {c + 1} = (c + 1)..(c + 1)
        OBVIOUS
      <4> QED BY <1>6, <4>1, <4>2
    <3>2. CASE r # 0
      <4>1. Kept(c) = grads /\ grads = (b + 1)..c
        BY <1>8, <1>10, <1>11, <1>12, <2>1, <3>2 DEF Kept
      <4>2. ((b + 1)..c) \cup {c + 1} = (b + 1)..(c + 1)
        BY <1>11
      <4> QED BY <1>6, <4>1, <4>2
    <3> QED BY <3>1, <3>2
  <2>3. CASE (c + 1) % p = 0
    <3>1. c + 1 = b + p
      <4>1. r = p - 1
        BY <1>10, <2>3, CountSteps
      <4> QED BY <1>11, <4>1
    <3>2. applied' = Append(applied, parts) /\ parts = (p * a + 1)..(p * a + p) /\ parts \in SUBSET Nat
      BY <1>7, <1>11, <2>1, <2>2, <2>3, <3>1 DEF StepDue
    <3>3. InParts(applied', p)
      <4>1. InParts(Append(applied, parts), p)
        BY <1>3, <1>8, <1>9, <3>2, PartsAppended
      <4> QED BY <3>2, <4>1
    <3>4. Len(applied') = a + 1
      BY <1>3, <1>9, <3>2
    <3>5. c + 1 = p * (a + 1) + ((c + 1) % p)
      <4>1. p * (a + 1) = p * a + p
        OBVIOUS
      <4> QED BY <1>11, <2>3, <3>1, <4>1
    <3>6. PartsOf(applied', c + 1, grads', p)
      BY <2>3, <3>3, <3>4, <3>5 DEF PartsOf
    <3> QED BY <1>1, <1>4, <1>5, <3>6, PartsIs
  <2>4. CASE (c + 1) % p # 0
    <3>1. ((c + 1) % p) = r + 1
      BY <1>10, <2>4, CountSteps
    <3>2. applied' = applied /\ grads' = (p * a + 1)..(c + 1)
      BY <1>7, <1>11, <1>12, <2>1, <2>2, <2>4 DEF StepDue
    <3>3. c + 1 = p * a + ((c + 1) % p)
      BY <1>11, <3>1
    <3>4. PartsOf(applied', c + 1, grads', p)
      BY <1>3, <1>8, <3>2, <3>3 DEF PartsOf
    <3> QED BY <1>1, <1>4, <1>5, <3>4, PartsIs
  <2> QED BY <2>3, <2>4
<1>13. CASE ~setting.delayed
  <2>1. p = 1
    BY <1>1, <1>4, <1>13 DEF Parts
  <2>2. r = 0 /\ c = b /\ b = a
    BY <1>10, <1>11, <2>1
  <2>3. parts = {c + 1} /\ applied' = Append(applied, parts)
    BY <1>6, <1>7, <1>13 DEF Kept, StepDue
  <2>4. parts = (p * a + 1)..(p * a + p) /\ parts \in SUBSET Nat
    <3>1. {a + 1} = (1 * a + 1)..(1 * a + 1)
      OBVIOUS
    <3> QED BY <2>1, <2>2, <2>3, <3>1
  <2>5. InParts(applied', p)
    <3>1. InParts(Append(applied, parts), p)
      BY <1>3, <1>8, <1>9, <2>4, PartsAppended
    <3> QED BY <2>3, <3>1
  <2>6. Len(applied') = a + 1
    BY <1>3, <1>9, <2>3, <2>4
  <2>7. ((c + 1) % p) = 0 /\ c + 1 = p * (a + 1) + ((c + 1) % p)
    <3>1. ((c + 1) % p) \in 0..(p - 1)
      BY CountSteps
    <3>2. ((c + 1) % p) = 0
      BY <2>1, <3>1
    <3>3. 1 * (a + 1) = a + 1
      OBVIOUS
    <3> QED BY <2>1, <2>2, <3>2, <3>3
  <2>8. PartsOf(applied', c + 1, grads', p)
    BY <1>13, <2>5, <2>6, <2>7 DEF PartsOf
  <2> QED BY <1>1, <1>4, <1>5, <2>8, PartsIs
<1> QED BY <1>9, <1>12, <1>13

LEMMA PartsKept ==
  ASSUME CountInv, LateInv, PartsInv, SimNext
  PROVE  PartsInv'
<1>1. CASE Start \/ DispatchIdle \/ Close
  <2>1. UNCHANGED <<setting, pushed, grads, applied>>
    BY <1>1 DEF Start, DispatchIdle, Close
  <2> QED BY <2>1, PartsIs
<1> QED BY <1>1, PartsSync, PartsRound DEF SimNext

-----------------------------------------------------------------------------
(* SimInv. *)

LEMMA CountKept ==
  ASSUME CountInv, LateInv, SimNext
  PROVE  CountInv'
<1>1. CASE Start
  BY <1>1, CountStart
<1>2. ASSUME NEW w \in Islands, Synchronize(w) PROVE CountInv'
  BY <1>2, CountSync
<1>3. CASE DispatchIdle
  <2>1. clock' \in Nat
    BY <1>3, DispatchIdleEffect
  <2> QED BY <1>3, <2>1, CountDispatch
<1>4. CASE Round
  BY <1>4, CountRound
<1>5. CASE Close
  BY <1>5, CountStill DEF Close
<1> QED BY <1>1, <1>2, <1>3, <1>4, <1>5 DEF SimNext

LEMMA SimStart ==
  ASSUME SimInit
  PROVE  SimInv
<1>1. /\ setting \in Experiments /\ place = "start"
      /\ tasks = [w \in Islands |-> <<>>] /\ finish = [w \in Islands |-> 0]
      /\ visits = [s \in Shards |-> 0] /\ updates = [s \in Shards |-> 0]
      /\ clock = 0 /\ began = None /\ total = 0 /\ target = 0
      /\ stats = <<>> /\ pushed = <<>> /\ grads = {} /\ applied = <<>>
  BY DEF SimInit, SimInitAs, Islands, Shards
<1>2. DOMAIN pushed = {} /\ DOMAIN applied = {} /\ Len(pushed) = 0 /\ Len(applied) = 0
  BY <1>1
<1>3. Idle = Islands /\ Pulses = 0
  BY <1>1, <1>2 DEF Idle, Pulses
<1>4. \A S : <<>> \in Seq(S)
  OBVIOUS
<1>5. CountInv
  <2>1. tasks \in [Islands -> Seq(TasksOf(setting))]
    BY <1>1, <1>4
  <2>2. finish \in [Islands -> Nat] /\ visits \in [Shards -> Nat] /\ updates \in [Shards -> Nat]
    BY <1>1
  <2>3. stats \in Seq(0..MaxUpdates) /\ pushed \in Seq(SimPushes) /\ applied \in Seq(SUBSET Nat)
    BY <1>1, <1>4
  <2>4. total = Pulse * Pulses /\ total <= MaxUpdates
    <3>1. PICK n \in Nat : n = Pulse
      BY <1>1, SimSettings
    <3>2. MaxUpdates \in Nat
      BY <1>1, SimSettings
    <3>3. n * 0 = 0
      OBVIOUS
    <3> QED BY <1>1, <1>3, <3>1, <3>2, <3>3
  <2>5. Len(pushed) = NumWorkers * Len(applied)
    <3>1. PICK n \in Nat : n = NumWorkers
      BY <1>1, SimSettings
    <3>2. n * 0 = 0
      OBVIOUS
    <3> QED BY <1>2, <3>1, <3>2
  <2> QED BY <1>1, <1>2, <1>3, <2>1, <2>2, <2>3, <2>4, <2>5 DEF CountInv
<1>6. LateInv
  BY <1>1, <1>2, <1>3 DEF LateInv
<1>7. PaceInv
  BY <1>2, <1>3 DEF PaceInv
<1>8. SharesInv
  <2>1. AllTasks = {}
    <3>1. Running = {}
      BY <1>3, <1>5, SameBusy
    <3> QED BY <1>2, <3>1 DEF AllTasks
  <2>2. \A s \in Shards : visits[s] = 0 /\ updates[s] = setting.inner * visits[s]
    <3>1. PICK n \in Nat : n = setting.inner
      BY <1>1, SimSettings
    <3>2. n * 0 = 0
      OBVIOUS
    <3> QED BY <1>1, <3>1, <3>2
  <2>3. 1..0 = {} /\ 0 <= 0 + 1
    OBVIOUS
  <2>4. 0 <= setting.phases + 1
    BY <1>1, SimSettings
  <2> QED BY <2>1, <2>2, <2>3, <2>4 DEF SharesInv
<1>9. EvalInv
  BY <1>1 DEF EvalInv
<1>10. PartsInv
  <2>1. PICK p \in Nat \ {0} : p = Parts
    BY <1>1, SimSettings
  <2>2. PICK r \in 0..(p - 1), k \in Nat : r = (0 % p) /\ 0 = p * k + r
    BY Dividing
  <2>3. r = 0 /\ p * 0 = 0
    BY <2>2
  <2> QED BY <1>2, <2>1, <2>2, <2>3 DEF PartsInv
<1> QED BY <1>5, <1>6, <1>7, <1>8, <1>9, <1>10 DEF SimInv

LEMMA SimStill ==
  ASSUME SimInv, UNCHANGED simVars
  PROVE  SimInv'
<1>1. UNCHANGED <<setting, place, tasks, finish, visits, updates, clock, began, total, target, stats, pushed, grads, applied>>
  BY DEF simVars
<1>2. Islands' = Islands /\ Shards' = Shards /\ Idle' = Idle /\ Finished' = Finished /\ Running' = Running
  BY <1>1, SameSetting DEF Idle, Finished, Running
<1>3. CountInv'
  BY <1>1, CountStill DEF SimInv
<1>4. LateInv'
  BY <1>1, <1>2 DEF SimInv, LateInv
<1>5. PaceInv'
  <2>1. \A m, v : Since(m, v)' = Since(m, v)
    BY <1>1, SinceSame
  <2>2. \A w, v : Ends(w, v)' = Ends(w, v)
    BY <1>1 DEF Ends
  <2>3. \A w : (Most(w)' = Most(w)) /\ Dispatched(w)' = Dispatched(w)
    BY <1>1, <1>2 DEF Most, Ends, Dispatched
  <2> QED BY <1>1, <1>2, <2>1, <2>2, <2>3 DEF SimInv, PaceInv, Apart
<1>6. SharesInv'
  <2>1. AllTasks' = AllTasks
    BY <1>1, <1>2 DEF AllTasks
  <2>2. setting' = setting /\ visits' = visits /\ updates' = updates
    BY <1>1
  <2> QED BY <2>1, <2>2, SharesIs DEF SimInv
<1>7. EvalInv'
  BY <1>1, <1>2, SameSetting DEF SimInv, EvalInv
<1>8. PartsInv'
  BY <1>1, PartsIs DEF SimInv
<1> QED BY <1>3, <1>4, <1>5, <1>6, <1>7, <1>8 DEF SimInv

LEMMA SimKept ==
  ASSUME SimInv, SimNext
  PROVE  SimInv'
<1>1. CountInv'
  BY CountKept DEF SimInv
<1>2. LateInv' /\ PaceInv' /\ PartsInv'
  BY LateKept, PaceKept, PartsKept DEF SimInv
<1>3. SharesInv' /\ EvalInv'
  BY <1>1, SharesKept, EvalKept DEF SimInv
<1> QED BY <1>1, <1>2, <1>3 DEF SimInv

-----------------------------------------------------------------------------
(* What SimInv says. *)

\* What the outer steps have taken is in the log.
LEMMA LogInParts ==
  ASSUME CountInv, PartsInv
  PROVE  /\ Parts * Len(applied) <= Len(pushed) /\ Parts * Len(applied) \in Nat
         /\ setting.sync => Len(pushed) = Parts * Len(applied)
<1>1. PICK p \in Nat \ {0} : p = Parts
  BY SimSettings DEF CountInv
<1>2. PICK a \in Nat : a = Len(applied)
  BY DEF CountInv
<1>3. PICK c \in Nat : c = Len(pushed)
  BY DEF CountInv
<1>4. p * a \in Nat
  OBVIOUS
<1>5. CASE setting.sync
  <2>1. c = p * a
    BY <1>1, <1>2, <1>3, <1>5 DEF CountInv, Parts
  <2> QED BY <1>1, <1>2, <1>3, <1>4, <2>1
<1>6. CASE ~setting.sync
  <2>1. c = p * a + (c % p)
    BY <1>1, <1>2, <1>3, <1>6 DEF PartsInv
  <2>2. PICK r \in 0..(p - 1) : r = (c % p)
    BY CountSteps
  <2>3. p * a <= c
    BY <1>4, <2>1, <2>2
  <2> QED BY <1>1, <1>2, <1>3, <1>4, <1>6, <2>3
<1> QED BY <1>5, <1>6

LEMMA SimTyped ==
  ASSUME SimInv
  PROVE  SimTypeOK
<1>1. CountInv /\ PartsInv
  BY DEF SimInv
<1>2. \A w \in Islands : tasks[w] = <<>> \/ (Len(tasks[w]) = 1 /\ tasks[w][1] \in TasksOf(setting))
  BY <1>1, SameBusy
<1>3. total \in 0..MaxUpdates
  <2>1. MaxUpdates \in Nat
    BY <1>1, SimSettings DEF CountInv
  <2> QED BY <1>1, <2>1 DEF CountInv
<1>4. \A i \in DOMAIN pushed : pushed[i].island \in Islands /\ pushed[i].task \in TasksOf(setting)
  <2>1. \A i \in DOMAIN pushed : pushed[i] \in SimPushes
    BY <1>1 DEF CountInv
  <2> QED BY <2>1 DEF SimPushes
<1>5. ASSUME NEW k \in DOMAIN applied PROVE applied[k] \subseteq DOMAIN pushed
  <2>1. PICK p \in Nat \ {0} : p = Parts
    BY <1>1, SimSettings DEF CountInv
  <2>2. PICK a \in Nat : a = Len(applied) /\ k \in 1..a
    <3>1. applied \in Seq(SUBSET Nat)
      BY <1>1 DEF CountInv
    <3> QED BY <1>5, <3>1
  <2>3. PICK c \in Nat : c = Len(pushed) /\ DOMAIN pushed = 1..c
    BY <1>1 DEF CountInv
  <2>4. p * a <= c
    BY <1>1, <2>1, <2>2, <2>3, LogInParts
  <2>5. k * p <= p * a /\ k * p \in Nat /\ (k - 1) * p \in Nat
    <3>1. k - 1 \in Nat /\ k \in Nat
      BY <2>2
    <3>2. k * p \in Nat /\ (k - 1) * p \in Nat
      BY <3>1
    <3>3. p * k <= p * a
      <4>1. k < a \/ k = a
        BY <2>2
      <4> QED BY <2>2, <4>1, Times
    <3> QED BY <3>1, <3>2, <3>3
  <2>6. applied[k] = ((k - 1) * p + 1)..(k * p)
    BY <1>1, <1>5, <2>1 DEF PartsInv
  <2>7. PICK low \in Nat : low = (k - 1) * p
    BY <2>5
  <2>8. PICK high \in Nat : high = k * p /\ high <= c
    BY <2>4, <2>5
  <2>9. (low + 1)..high \subseteq 1..c
    BY <2>8
  <2> QED BY <2>3, <2>6, <2>7, <2>8, <2>9
<1>6. grads \subseteq DOMAIN pushed /\ DOMAIN tasks = Islands
  BY <1>1 DEF CountInv
<1> QED BY <1>1, <1>2, <1>3, <1>4, <1>5, <1>6 DEF SimTypeOK, CountInv

LEMMA SimLate ==
  ASSUME SimInv
  PROVE  NothingLate
<1>1. setting.sync => Idle = Islands
  BY DEF SimInv, CountInv
<1>2. ~setting.sync => \A w \in Islands \ Idle : finish[w] >= clock
  BY DEF SimInv, LateInv
<1> QED BY <1>1, <1>2 DEF SimInv, LateInv, NothingLate

LEMMA SimStale ==
  ASSUME SimInv
  PROVE  StaleBounded
<1>1. CountInv /\ PaceInv
  BY DEF SimInv
<1>2. \A i \in DOMAIN pushed : pushed[i].tau <= Most(pushed[i].island)
  BY <1>1 DEF PaceInv
<1>3. ASSUME NEW w \in Islands, NEW t \in ToSet(tasks[w]) PROVE ModelId - t.model <= Most(w)
  <2>1. w \notin Idle
    BY <1>1, <1>3, SameBusy DEF ToSet
  <2>2. t = tasks[w][1]
    <3>1. DOMAIN tasks[w] = {1}
      BY <1>1, <2>1, SameBusy
    <3> QED BY <1>3, <3>1 DEF ToSet
  <2>3. ~setting.sync
    BY <1>1, <2>1 DEF CountInv
  <2>4. /\ t.model \in 0..Len(pushed) /\ Since(t.model, w) = 0
        /\ \A v \in Islands \ {w} : Since(t.model, v) <= Ends(w, v)
    BY <1>1, <2>1, <2>2, <2>3 DEF PaceInv, Apart
  <2>5. Len(pushed) - t.model <= Most(w)
    BY <1>1, <2>4, StaleCounts
  <2> QED BY <2>3, <2>5 DEF ModelId
<1> QED BY <1>2, <1>3 DEF StaleBounded

LEMMA SimShares ==
  ASSUME SimInv
  PROVE  SlicesApart
<1>1. CountInv /\ Numbered(AllTasks, visits, updates) /\ Even(visits)
  BY SharesIs DEF SimInv
<1>2. setting \in Experiments /\ visits \in [Shards -> Nat]
  BY <1>1 DEF CountInv
<1>3. /\ \A t, u \in AllTasks : t # u /\ t.shard = u.shard => Slice(t) \cap Slice(u) = {}
      /\ \A s \in Shards : setting.inner * Cardinality({t \in AllTasks : t.shard = s}) = updates[s]
  <2>1. PICK seen : seen = visits /\ seen \in [Shards -> Nat]
    BY <1>2
  <2>2. PICK all, upto : all = AllTasks /\ upto = updates
    OBVIOUS
  <2>3. Numbered(all, seen, upto)
    BY <1>1, <2>1, <2>2
  <2>4. /\ \A t, u \in all : t # u /\ t.shard = u.shard => Slice(t) \cap Slice(u) = {}
        /\ \A s \in Shards : setting.inner * Cardinality({t \in all : t.shard = s}) = upto[s]
    <3>1. setting \in Experiments /\ seen \in [Shards -> Nat]
      BY <1>2, <2>1
    <3>2. \A t, u \in all : t # u /\ t.shard = u.shard => Slice(t) \cap Slice(u) = {}
      BY <2>3, <3>1, NumberedApart, Zenon
    <3>3. \A s \in Shards : /\ setting.inner * Cardinality({t \in all : t.shard = s}) = upto[s]
                            /\ Cardinality({t \in all : t.shard = s}) = seen[s]
      BY <2>3, <3>1, NumberedApart, Zenon
    <3> QED BY <3>2, <3>3, Zenon
  <2> QED BY <2>2, <2>4
<1>4. ASSUME ~setting.fixed, NEW s \in Shards PROVE updates[s] <= setting.inner * (setting.phases + 1)
  <2>1. PICK i \in Nat \ {0} : i = setting.inner
    BY <1>2, SimSettings
  <2>2. PICK n \in Nat : n = visits[s]
    BY <1>2
  <2>3. PICK m \in Nat : m = setting.phases + 1
    BY <1>2, SimSettings
  <2>4. n <= m
    BY <1>1, <1>4, <2>2, <2>3 DEF Even
  <2>5. i * n <= i * m
    <3>1. n < m \/ n = m
      BY <2>4
    <3> QED BY <3>1, Times
  <2>6. updates[s] = i * n
    BY <1>1, <2>1, <2>2 DEF Numbered
  <2> QED BY <2>1, <2>3, <2>5, <2>6
<1> QED BY <1>3, <1>4 DEF SlicesApart

LEMMA SimEvaluated ==
  ASSUME SimInv
  PROVE  EvaluatedThroughout
<1>1. SUFFICES ASSUME place = "ended"
               PROVE  /\ stats[1] = 0 /\ stats[Len(stats)] = total
                      /\ \A k \in 1..(Len(stats) - 1) :
                           stats[k] < stats[k + 1] /\ stats[k + 1] - stats[k] <= EvalInterval
  BY DEF EvaluatedThroughout
<1>2. CountInv /\ EvalInv
  BY DEF SimInv
<1>3. PICK e \in Nat \ {0} : e = EvalInterval
  BY <1>2, SimSettings DEF CountInv
<1>4. PICK l \in Nat : l = Len(stats)
  BY <1>2 DEF CountInv
<1>5. PICK n \in Nat : n = total
  BY <1>2 DEF CountInv
<1>6. /\ l > 1 /\ (l - 2) * e < n /\ n <= (l - 1) * e
      /\ \A k \in 1..l : stats[k] = IF k = l THEN n ELSE (k - 1) * e
  BY <1>1, <1>2, <1>3, <1>4, <1>5 DEF EvalInv
<1>7. stats[1] = 0 /\ stats[l] = n
  <2>1. stats[1] = (1 - 1) * e
    BY <1>6
  <2>2. (1 - 1) * e = 0
    OBVIOUS
  <2> QED BY <1>6, <2>1, <2>2
<1>8. ASSUME NEW k \in 1..(l - 1)
      PROVE  stats[k] < stats[k + 1] /\ stats[k + 1] - stats[k] <= e
  <2>1. k \in 1..l /\ k # l /\ k + 1 \in 1..l
    BY <1>4, <1>8
  <2>2. stats[k] = (k - 1) * e
    BY <1>6, <2>1
  <2>3. PICK b \in Nat : b = (k - 1) * e
    <3>1. k - 1 \in Nat
      BY <1>8
    <3>2. \A x, y \in Nat : x * y \in Nat
      OBVIOUS
    <3> QED BY <3>1, <3>2
  <2>4. k * e = b + e
    BY <2>3
  <2>5. CASE k + 1 = l
    <3>1. l - 2 = k - 1 /\ l - 1 = k
      BY <2>5
    <3>2. stats[k + 1] = n /\ b < n /\ n <= b + e
      BY <1>6, <2>1, <2>3, <2>4, <2>5, <3>1
    <3> QED BY <2>2, <2>3, <3>2
  <2>6. CASE k + 1 # l
    <3>1. stats[k + 1] = (k + 1 - 1) * e
      BY <1>6, <2>1, <2>6
    <3>2. k + 1 - 1 = k
      OBVIOUS
    <3>3. stats[k + 1] = b + e
      BY <2>4, <3>1, <3>2
    <3> QED BY <2>2, <2>3, <3>3
  <2> QED BY <2>5, <2>6
<1> QED BY <1>3, <1>4, <1>5, <1>7, <1>8

\* A run that is over has left nothing in p.grad.
LEMMA AllTaken ==
  ASSUME CountInv, PartsInv, Finished
  PROVE  Len(pushed) = Parts * Len(applied)
<1>1. PICK p \in Nat \ {0} : p = Parts
  BY SimSettings DEF CountInv
<1>2. PICK a \in Nat : a = Len(applied)
  BY DEF CountInv
<1>3. PICK c \in Nat : c = Len(pushed)
  BY DEF CountInv
<1>4. CASE setting.sync
  BY <1>4, LogInParts
<1>5. CASE ~setting.sync
  <2>1. c = p * a + (c % p)
    BY <1>1, <1>2, <1>3, <1>5 DEF PartsInv
  <2>2. PICK r \in 0..(p - 1) : r = (c % p)
    BY CountSteps
  <2>3. \E m \in Nat : c = p * m
    <3>1. CASE setting.delayed
      <4>1. Pulses = InAll
        BY Progress
      <4>2. c = NumWorkers * setting.phases
        BY <1>3, <1>5, <4>1 DEF Pulses, InAll
      <4>3. p = NumWorkers /\ setting.phases \in Nat
        BY <1>1, <3>1, SimSettings DEF CountInv, Parts
      <4> QED BY <4>2, <4>3
    <3>2. CASE ~setting.delayed
      <4>1. p = 1
        BY <1>1, <1>5, <3>2 DEF Parts
      <4>2. 1 * c = c
        OBVIOUS
      <4> QED BY <4>1, <4>2
    <3> QED BY <3>1, <3>2
  <2>4. PICK m \in Nat : c = p * m
    BY <2>3
  <2>5. PICK d \in Int : d = m - a
    OBVIOUS
  <2>6. p * d = r
    <3>1. p * d = p * m - p * a
      BY <2>5
    <3>2. p * a \in Nat
      OBVIOUS
    <3> QED BY <2>1, <2>2, <2>4, <3>1, <3>2
  <2>7. r = 0
    <3>1. d <= 0 \/ d >= 1
      OBVIOUS
    <3>2. d >= 1 => p * d >= p
      OBVIOUS
    <3>3. d <= 0 => p * d <= 0
      OBVIOUS
    <3> QED BY <2>2, <2>6, <3>1, <3>2, <3>3
  <2>8. p * a \in Nat
    OBVIOUS
  <2>9. c = p * a
    BY <2>1, <2>2, <2>7, <2>8
  <2> QED BY <1>1, <1>2, <1>3, <2>9
<1> QED BY <1>4, <1>5

LEMMA SimOnce ==
  ASSUME SimInv
  PROVE  EachPartOnce
<1>1. CountInv /\ PartsInv
  BY DEF SimInv
<1>2. PICK p \in Nat \ {0} : p = Parts
  BY <1>1, SimSettings DEF CountInv
<1>3. PICK a \in Nat : a = Len(applied) /\ DOMAIN applied = 1..a
  BY <1>1 DEF CountInv
<1>4. \A k \in 1..a : applied[k] = ((k - 1) * p + 1)..(k * p)
  BY <1>1, <1>2, <1>3 DEF PartsInv
<1>5. ASSUME place = "ended", NEW i \in DOMAIN pushed
      PROVE  Cardinality({k \in DOMAIN applied : i \in applied[k]}) = 1
  <2>1. Finished
    BY <1>5 DEF SimInv, EvalInv
  <2>2. i \in 1..Len(pushed) /\ Len(pushed) = p * a
    BY <1>1, <1>2, <1>3, <1>5, <2>1, AllTaken DEF CountInv
  <2>3. PICK j \in Nat : j = i - 1 /\ i \in Nat /\ j + 1 = i /\ j < p * a
    BY <2>2
  <2>4. PICK q \in Nat, r \in 0..(p - 1) : j = p * q + r
    BY Dividing
  <2>5. \A k \in 1..a : i \in applied[k] <=> k = q + 1
    <3>1. SUFFICES ASSUME NEW k \in 1..a PROVE i \in applied[k] <=> k = q + 1
      OBVIOUS
    <3>2. PICK h \in Nat : h = k - 1 /\ k = h + 1
      BY <1>3
    <3>3. applied[k] = (p * h + 1)..(p * h + p)
      <4>1. (k - 1) * p = p * h /\ k * p = p * h + p
        BY <3>2
      <4> QED BY <1>4, <3>1, <4>1
    <3>4. PICK d \in Int : d = q - h
      OBVIOUS
    <3>5. PICK b \in Nat : b = p * h
      OBVIOUS
    <3>6. p * q = b + p * d
      BY <3>4, <3>5
    <3>7. i \in applied[k] <=> j >= b /\ j < b + p
      <4>1. applied[k] = (b + 1)..(b + p)
        BY <3>3, <3>5
      <4>2. i \in (b + 1)..(b + p) <=> i >= b + 1 /\ i <= b + p
        BY <2>3
      <4>3. i >= b + 1 /\ i <= b + p <=> j >= b /\ j < b + p
        BY <2>3
      <4> QED BY <4>1, <4>2, <4>3
    <3>8. p * d \in Int /\ (d >= 1 => p * d >= p) /\ (d <= -1 => p * d <= - p) /\ (d = 0 => p * d = 0)
      BY WholeMultiple
    <3>9. d >= 1 \/ d <= -1 \/ d = 0
      OBVIOUS
    <3>10. j >= b /\ j < b + p <=> d = 0
      BY <2>4, <3>6, <3>8, <3>9
    <3>11. d = 0 <=> k = q + 1
      BY <3>2, <3>4
    <3> QED BY <3>7, <3>10, <3>11
  <2>6. q + 1 \in 1..a
    <3>1. p * q < p * a
      <4>1. p * q \in Nat /\ p * a \in Nat
        OBVIOUS
      <4> QED BY <2>3, <2>4, <4>1
    <3>2. q < a
      BY <3>1, Times
    <3> QED BY <3>2
  <2>7. {k \in DOMAIN applied : i \in applied[k]} = {q + 1}
    BY <1>3, <2>5, <2>6
  <2> QED BY <2>7, FS_Singleton
<1>6. ASSUME setting.sync \/ setting.delayed, NEW k \in DOMAIN applied
      PROVE  Cardinality(applied[k]) = NumWorkers
  <2>1. p = NumWorkers
    BY <1>2, <1>6 DEF Parts
  <2>2. PICK b \in Nat : b = (k - 1) * p
    <3>1. k - 1 \in Nat
      BY <1>3, <1>6
    <3>2. \A x, y \in Nat : x * y \in Nat
      OBVIOUS
    <3> QED BY <3>1, <3>2
  <2>3. k * p = b + p
    <3>1. k \in Nat
      BY <1>3, <1>6
    <3> QED BY <2>2, <3>1
  <2>4. applied[k] = (b + 1)..(b + p)
    BY <1>3, <1>4, <1>6, <2>2, <2>3
  <2>5. b + 1 \in Int /\ b + p \in Int /\ ~(b + 1 > b + p) /\ b + p - (b + 1) + 1 = p
    OBVIOUS
  <2>6. Cardinality((b + 1)..(b + p)) = p
    BY <2>5, FS_Interval
  <2> QED BY <2>1, <2>4, <2>6
<1> QED BY <1>5, <1>6 DEF EachPartOnce

(***************************************************************************)
(* Experiment, SyncExperiment and AsyncExperiment (heloco_stable_v2.py):   *)
(* for any number of workers of any paces, any wait and any schedule of    *)
(* evaluations, with or without delayed_sgd and fixed partitions: no push  *)
(* is applied later than its simulated end or staler than the paces make   *)
(* it, no two tasks read the same batches and no shard is overused, the    *)
(* model is evaluated in every interval and at both ends, and every push   *)
(* is in exactly one outer step.                                           *)
(***************************************************************************)
THEOREM PrototypeIsSound == SimSafety => []SimSound
<1>1. SimInit => SimInv
  BY SimStart
<1>2. SimInv /\ [SimNext]_simVars => SimInv'
  BY SimKept, SimStill
<1>3. SimInv => SimSound
  BY SimTyped, SimLate, SimStale, SimShares, SimEvaluated, SimOnce DEF SimSound
<1> QED BY <1>1, <1>2, <1>3, PTL DEF SimSafety
=============================================================================
