--------------------------- MODULE OuterSyncProofs ---------------------------
(* Proofs about OuterSync, for every value of its constants: its types, that *)
(* a push is applied at most once, that the server implements PushLog, that  *)
(* snapshots are true, and that what workers hold stays close to the model.  *)
EXTENDS OuterSync, TLAPS, SequenceTheorems

USE DEF FaultKinds, ConstAssumption

Caches == [Variants -> [built: BOOLEAN, model: Seq(Pushes)]]

LEMMA NoSnapshotType == NoSnapshot \in Snapshots
  BY ConstAssumption DEF NoSnapshot, Snapshots

LEMMA FreeSessionType == FreeSession \in Sessions
  BY ConstAssumption, NoSnapshotType DEF FreeSession, Sessions, Phases

LEMMA SessionFields ==
  ASSUME NEW s \in Sessions, NEW p \in Phases, NEW r \in Snapshots, NEW a \in BOOLEAN
  PROVE  /\ [s EXCEPT !.phase = p] \in Sessions
         /\ [s EXCEPT !.phase = p, !.reply = r] \in Sessions
         /\ [s EXCEPT !.phase = p, !.applied = a, !.reply = r] \in Sessions
         /\ [s EXCEPT !.phase = p, !.base = r] \in Sessions
  BY DEF Sessions

LEMMA BecomeType ==
  ASSUME conn \in [Conns -> Sessions], NEW c, NEW s \in Sessions, Become(c, s)
  PROVE  conn' \in [Conns -> Sessions]
  BY DEF Become

LEMMA SnapshotType ==
  ASSUME NEW v \in Variants, NEW m \in Seq(Pushes), NEW r \in Nat, inc \in Nat,
         NEW ca \in Caches
  PROVE  /\ Snapshot(v, m, r, ca) \in Snapshots
         /\ Cached(v, m, ca) \in Caches
<1>1. SnapshotModel(v, m, ca) \in Seq(Pushes)
  BY DEF SnapshotModel, Caches
<1>2. Shown(v, SnapshotModel(v, m, ca)) \in Variants
  BY ConstAssumption DEF Shown
<1>3. Snapshot(v, m, r, ca) \in Snapshots
  BY <1>1, <1>2 DEF Snapshot, Snapshots
<1>4. Cached(v, m, ca) \in Caches
  BY <1>1 DEF Cached, Caches
<1> QED BY <1>3, <1>4

LEMMA InvalidatedCacheType == InvalidatedCache \in Caches
  BY DEF InvalidatedCache, Caches

\* The ring keeps its type and holds nothing but what it held and the new snapshot.
LEMMA RetainType ==
  ASSUME served \in Seq(Snapshots), NEW s \in Snapshots
  PROVE  /\ Retain(s) \in Seq(Snapshots)
         /\ \A i \in DOMAIN Retain(s) :
              Retain(s)[i] = s \/ \E j \in DOMAIN served : Retain(s)[i] = served[j]
<1> DEFINE held == RetainedAt(s.revision)
           ring == IF held # {} THEN [i \in DOMAIN served |-> IF i \in held THEN s ELSE served[i]]
                                ELSE Append(served, s)
           Old(t) == t = s \/ \E j \in DOMAIN served : t = served[j]
<1>1. ring \in Seq(Snapshots) /\ \A i \in DOMAIN ring : Old(ring[i])
  <2>1. CASE held # {}
    BY <2>1
  <2>2. CASE held = {}
    BY <2>2, AppendProperties
  <2> QED BY <2>1, <2>2
<1> HIDE DEF ring
<1>2. ring # <<>> => /\ Tail(ring) \in Seq(Snapshots)
                     /\ \A i \in DOMAIN Tail(ring) : Old(Tail(ring)[i])
  BY <1>1, HeadTailProperties
<1>3. Len(ring) > ServedMax => ring # <<>>
  BY <1>1, ConstAssumption
<1>4. Retain(s) = IF Len(ring) > ServedMax THEN Tail(ring) ELSE ring
  BY DEF Retain, ring
<1> QED BY <1>1, <1>2, <1>3, <1>4

LEMMA TypeInit == Init => TypeOK
  BY ConstAssumption, NoSnapshotType, FreeSessionType DEF Init, TypeOK

LEMMA RequestType ==
  ASSUME TypeOK, NEW w \in Workers, NEW c \in Conns, NEW push \in Nat, Request(w, c, push),
         pushes' \in [Workers -> 0..MaxPushes]
  PROVE  TypeOK'
<1>1. [FreeSession EXCEPT !.phase = "sent", !.worker = w, !.push = push,
                          !.basis = baseline[w], !.offer = OffersDelta(w)] \in Sessions
  BY FreeSessionType DEF TypeOK, Sessions, Phases, OffersDelta, HasBaseline
<1>2. conn' \in [Conns -> Sessions]
  BY <1>1, BecomeType DEF Request, TypeOK
<1>3. call' \in [Workers -> Conns \cup {NoConn}]
  BY DEF Request, TypeOK
<1>4. attempt' \in [Workers -> 0..BusyRetries]
  BY ConstAssumption DEF Request, TypeOK
<1> QED BY <1>2, <1>3, <1>4 DEF Request, TypeOK, serverVars

LEMMA HandlePullType == ASSUME TypeOK, NEW c \in Conns, HandlePull(c) PROVE TypeOK'
<1> DEFINE v == VariantOf[conn[c].worker]
<1>1. v \in Variants
  BY ConstAssumption DEF TypeOK, Sessions
<1>2. Snapshot(v, model, revision, cache) \in Snapshots /\ Cached(v, model, cache) \in Caches
  BY <1>1, SnapshotType DEF TypeOK, Caches
<1>3. conn' \in [Conns -> Sessions]
  BY <1>2, SessionFields, BecomeType DEF HandlePull, TypeOK, Phases
<1> QED BY <1>2, <1>3 DEF HandlePull, TypeOK, Caches, workerVars

LEMMA HandleStalePushType == ASSUME TypeOK, NEW c \in Conns, HandleStalePush(c) PROVE TypeOK'
<1> DEFINE v == DefaultVariant
<1>1. v \in Variants
  BY ConstAssumption
<1>2. Snapshot(v, model, revision, cache) \in Snapshots /\ Cached(v, model, cache) \in Caches
  BY <1>1, SnapshotType DEF TypeOK, Caches
<1>3. conn' \in [Conns -> Sessions]
  BY <1>2, SessionFields, BecomeType DEF HandleStalePush, TypeOK, Phases
<1> QED BY <1>2, <1>3 DEF HandleStalePush, TypeOK, Caches, workerVars

LEMMA HandlePushType == ASSUME TypeOK, NEW c \in Conns, HandlePush(c) PROVE TypeOK'
<1> DEFINE v == VariantOf[conn[c].worker]
           m == Append(model, PushOf(c))
           s == Snapshot(v, m, revision + 1, InvalidatedCache)
<1>1. v \in Variants
  BY ConstAssumption DEF TypeOK, Sessions
<1>2. PushOf(c) \in Pushes
  BY DEF TypeOK, Sessions, PushOf, Pushes
<1>3. m \in Seq(Pushes)
  BY <1>2, AppendProperties DEF TypeOK
<1>a. revision + 1 \in Nat /\ inc \in Nat
  BY DEF TypeOK
<1>4. s \in Snapshots /\ Cached(v, m, InvalidatedCache) \in Caches
  <2> HIDE DEF v, m
  <2> QED BY <1>a, <1>1, <1>3, SnapshotType, InvalidatedCacheType
<1> HIDE DEF v, m, s
<1>5. Become(c, [conn[c] EXCEPT !.phase = IF CheckpointDue THEN "saving" ELSE "ready",
                                !.applied = TRUE, !.reply = s])
  BY DEF HandlePush, v, m, s
<1>6. conn' \in [Conns -> Sessions]
  BY <1>4, <1>5, SessionFields, BecomeType DEF TypeOK, Phases
<1>7. model' = m /\ cache' = Cached(v, m, InvalidatedCache) /\ revision' = revision + 1
  BY DEF HandlePush, v, m
<1>8. lastCkpt' \in Nat /\ streamOwner' \in Conns \cup {NoConn}
  BY DEF HandlePush, TypeOK
<1> QED BY <1>3, <1>4, <1>6, <1>7, <1>8 DEF HandlePush, TypeOK, Caches, workerVars

LEMMA SessionType ==
  ASSUME TypeOK, NEW c \in Conns,
         Admit(c) \/ AnswerBusy(c) \/ FailSession(c) \/ SaveCheckpoint(c) \/ EncodeReply(c)
  PROVE  TypeOK'
<1>0. /\ conn[c] \in Sessions /\ FreeSession \in Sessions
      /\ \A p \in Phases : [conn[c] EXCEPT !.phase = p] \in Sessions
  BY FreeSessionType, NoSnapshotType, SessionFields DEF TypeOK
<1>1. CASE Admit(c)
  <2>1. conn' \in [Conns -> Sessions]
    BY <1>0, <1>1, BecomeType DEF Admit, TypeOK, Phases
  <2> QED BY <1>1, <2>1 DEF Admit, TypeOK, serverVars, workerVars
<1>2. CASE AnswerBusy(c)
  <2>1. conn' \in [Conns -> Sessions]
    BY <1>0, <1>2, BecomeType DEF AnswerBusy, TypeOK, Phases
  <2> QED BY <1>2, <2>1 DEF AnswerBusy, TypeOK, serverVars, workerVars
<1>3. CASE FailSession(c)
  <2>1. conn' \in [Conns -> Sessions]
    BY <1>0, <1>3, BecomeType DEF FailSession, TypeOK, Phases
  <2>2. faults' \in [FaultKinds -> Nat]
    BY <1>3 DEF FailSession, TypeOK
  <2> QED BY <1>3, <2>1, <2>2 DEF FailSession, TypeOK, serverVars, workerVars
<1>4. CASE SaveCheckpoint(c)
  <2>1. disk' \in [model: Seq(Pushes), revision: Nat] /\ faults' \in [FaultKinds -> Nat]
    BY <1>4 DEF SaveCheckpoint, TypeOK
  <2>2. conn' \in [Conns -> Sessions]
    BY <1>0, <1>4, BecomeType DEF SaveCheckpoint, TypeOK, Phases
  <2> QED BY <1>4, <2>1, <2>2 DEF SaveCheckpoint, TypeOK, workerVars
<1>5. CASE EncodeReply(c)
  <2> DEFINE held == RetainedAt(conn[c].basis.revision)
             base == IF conn[c].offer /\ held # {} THEN served[CHOOSE i \in held : TRUE]
                                                   ELSE NoSnapshot
  <2>1. \A i \in held : served[i] \in Snapshots
    BY DEF TypeOK, RetainedAt
  <2>2. base \in Snapshots
    BY <2>1, NoSnapshotType
  <2> HIDE DEF base
  <2>3. Become(c, [conn[c] EXCEPT !.phase = "encoded", !.base = base])
    BY <1>5 DEF EncodeReply, base
  <2>4. conn' \in [Conns -> Sessions]
    BY <1>0, <2>2, <2>3, SessionFields, BecomeType DEF TypeOK, Phases
  <2> QED BY <1>5, <2>4 DEF EncodeReply, TypeOK, serverVars, workerVars
<1> QED BY <1>1, <1>2, <1>3, <1>4, <1>5

LEMMA SendReplyType == ASSUME TypeOK, NEW c \in Conns, SendReply(c) PROVE TypeOK'
<1>1. served' \in Seq(Snapshots)
  BY RetainType DEF SendReply, TypeOK, Sessions
<1>2. conn' \in [Conns -> Sessions]
  BY FreeSessionType, NoSnapshotType, SessionFields, BecomeType
  DEF SendReply, Finished, TypeOK, Phases
<1> QED BY <1>1, <1>2 DEF SendReply, TypeOK, workerVars

LEMMA ServerRestartType == ASSUME TypeOK, ServerRestart PROVE TypeOK'
<1>1. conn' \in [Conns -> Sessions]
  BY FreeSessionType, ZenonT(60) DEF ServerRestart, TypeOK, Sessions, Phases
<1>2. cache' \in [Variants -> [built: BOOLEAN, model: Seq(Pushes)]]
  BY InvalidatedCacheType DEF ServerRestart, Caches
<1> QED BY <1>1, <1>2, SMTT(30) DEF ServerRestart, TypeOK, workerVars

LEMMA WorkerType ==
  ASSUME TypeOK, NEW w \in Workers,
         Adopt(w) \/ RetryBusy(w) \/ CallFails(w) \/ CallTimesOut(w) \/ WorkerRestart(w)
  PROVE  TypeOK'
<1> USE FreeSessionType, NoSnapshotType
<1>0. \A h, b, r \in Snapshots : Rebuilt(h, b, r) \in Snapshots
  BY DEF Rebuilt, Snapshots
<1>1. CASE Adopt(w)
  <2>1. call[w] \in Conns /\ conn[call[w]] \in Sessions
    BY <1>1 DEF Adopt, TypeOK
  <2>2. Rebuilt(baseline[w], conn[call[w]].base, conn[call[w]].reply) \in Snapshots
    BY <1>0, <2>1 DEF TypeOK, Sessions
  <2>3. baseline' \in [Workers -> Snapshots]
    BY <1>1, <2>2 DEF Adopt, TypeOK
  <2>4. deltas' \in [Workers -> Nat] /\ resync' \in [Workers -> BOOLEAN]
    BY <1>1 DEF Adopt, TypeOK
  <2>5. call' \in [Workers -> Conns \cup {NoConn}] /\ conn' \in [Conns -> Sessions]
    BY <1>1, BecomeType DEF Adopt, EndCall, TypeOK
  <2>6. attempt' \in [Workers -> 0..BusyRetries]
    BY <1>1, ConstAssumption DEF Adopt, EndCall, TypeOK
  <2> QED BY <1>1, <2>3, <2>4, <2>5, <2>6 DEF Adopt, TypeOK, serverVars
<1>2. CASE RetryBusy(w)
  <2>1. call[w] \in Conns /\ conn[call[w]] \in Sessions
    BY <1>2 DEF RetryBusy, TypeOK
  <2>2. conn' \in [Conns -> Sessions]
    BY <1>2, <2>1, SessionFields, BecomeType DEF RetryBusy, TypeOK, Phases
  <2>3. attempt' \in [Workers -> 0..BusyRetries]
    <3>0. attempt[w] \in 0..BusyRetries /\ BusyRetries \in Nat /\ attempt[w] < BusyRetries
      BY <1>2, ConstAssumption DEF RetryBusy, MayRetry, TypeOK
    <3>1. attempt[w] + 1 \in 0..BusyRetries
      BY <3>0
    <3> QED BY <1>2, <3>1 DEF RetryBusy, TypeOK
  <2> QED BY <1>2, <2>2, <2>3 DEF RetryBusy, TypeOK, serverVars
<1>3. ASSUME DropExchange(w), conn' \in [Conns -> Sessions], faults' \in [FaultKinds -> Nat]
      PROVE  TypeOK'
  <2>1. resync' \in [Workers -> BOOLEAN]
    BY <1>3 DEF DropExchange, HasBaseline, TypeOK
  <2>2. call' \in [Workers -> Conns \cup {NoConn}]
    BY <1>3 DEF DropExchange, EndCall, TypeOK
  <2>3. attempt' \in [Workers -> 0..BusyRetries]
    BY <1>3, ConstAssumption DEF DropExchange, EndCall, TypeOK
  <2> QED BY <1>3, <2>1, <2>2, <2>3 DEF DropExchange, TypeOK, serverVars
<1>4. CASE CallFails(w)
  BY <1>3, <1>4, BecomeType DEF CallFails, TypeOK
<1>5. CASE CallTimesOut(w)
  <2>1. conn' \in [Conns -> Sessions] /\ faults' \in [FaultKinds -> Nat]
    BY <1>5, BecomeType DEF CallTimesOut, TypeOK
  <2> QED BY <1>3, <1>5, <2>1 DEF CallTimesOut
<1>6. CASE WorkerRestart(w)
  <2>1. conn' \in [Conns -> Sessions]
    BY <1>6 DEF WorkerRestart, TypeOK
  <2>2. attempt' \in [Workers -> 0..BusyRetries]
    BY <1>6, ConstAssumption DEF WorkerRestart, EndCall, TypeOK
  <2>3. /\ call' \in [Workers -> Conns \cup {NoConn}]
        /\ baseline' \in [Workers -> Snapshots]
        /\ faults' \in [FaultKinds -> Nat]
    BY <1>6 DEF WorkerRestart, EndCall, TypeOK
  <2>4. deltas' \in [Workers -> Nat] /\ resync' \in [Workers -> BOOLEAN]
    BY <1>6 DEF WorkerRestart, TypeOK
  <2> QED BY <1>6, <2>1, <2>2, <2>3, <2>4 DEF WorkerRestart, TypeOK, serverVars
<1> QED BY <1>1, <1>2, <1>4, <1>5, <1>6

LEMMA StartType ==
  ASSUME TypeOK, NEW w \in Workers, NEW c \in Conns, StartPush(w, c) \/ StartPull(w, c)
  PROVE  TypeOK'
<1>1. CASE StartPush(w, c)
  <2>a. pushes[w] \in 0..MaxPushes /\ MaxPushes \in Nat /\ pushes[w] < MaxPushes
    BY <1>1, ConstAssumption DEF StartPush, TypeOK
  <2>0. pushes[w] + 1 \in 0..MaxPushes /\ pushes[w] + 1 \in Nat
    BY <2>a
  <2>1. pushes' \in [Workers -> 0..MaxPushes]
    BY <1>1, <2>0 DEF StartPush, TypeOK
  <2> QED BY <1>1, <2>0, <2>1, RequestType DEF StartPush
<1>2. CASE StartPull(w, c)
  BY <1>2, RequestType DEF StartPull, TypeOK
<1> QED BY <1>1, <1>2

LEMMA TypeNext == TypeOK /\ [Next]_vars => TypeOK'
<1> SUFFICES ASSUME TypeOK, [Next]_vars PROVE TypeOK'
  OBVIOUS
<1>1. CASE UNCHANGED vars
  BY <1>1 DEF TypeOK, vars, serverVars, workerVars
<1>2. ASSUME NEW w \in Workers, NEW c \in Conns, StartPush(w, c) \/ StartPull(w, c)
      PROVE  TypeOK'
  BY <1>2, StartType
<1>3. ASSUME NEW c \in Conns, ServerStep(c) \/ FailSession(c)
      PROVE  TypeOK'
  BY <1>3, SessionType, HandlePullType, HandleStalePushType, HandlePushType, SendReplyType
  DEF ServerStep
<1>4. ASSUME NEW w \in Workers, WorkerStep(w) \/ CallTimesOut(w) \/ WorkerRestart(w)
      PROVE  TypeOK'
  BY <1>4, WorkerType DEF WorkerStep
<1>5. CASE ServerRestart
  BY <1>5, ServerRestartType
<1> QED BY <1>1, <1>2, <1>3, <1>4, <1>5 DEF Next

\* Every reachable state of the server and its workers is well typed.
THEOREM TypeCorrect == Spec => []TypeOK
  BY TypeInit, TypeNext, PTL DEF Spec

-----------------------------------------------------------------------------
(* A push is applied at most once. *)

\* No session turns into one that carries a push it did not carry.
NoNewPush == \A c \in Conns : PendingPush(c)' =>
  PendingPush(c) /\ conn'[c].push = conn[c].push /\ conn'[c].worker = conn[c].worker

\* Steps that start no push and touch neither log keep the invariant.
LEMMA OnceQuiet ==
  ASSUME OnceInv, NoNewPush, UNCHANGED <<model, disk, pushes>>
  PROVE  OnceInv'
<1>1. \A c \in Conns : PendingPush(c)' => PushOf(c)' = PushOf(c)
  BY DEF NoNewPush, PushOf
<1>2. Issued(model)' /\ Issued(disk.model)' /\ NoRepeat(model)' /\ NoRepeat(disk.model)'
  BY DEF OnceInv, Issued, NoRepeat
<1>3. \A c \in Conns : PendingPush(c)' =>
        /\ conn'[c].push <= pushes'[conn'[c].worker]
        /\ Absent(PushOf(c), model)' /\ Absent(PushOf(c), disk.model)'
  BY <1>1 DEF OnceInv, NoNewPush, Absent
<1>4. \A c, d \in Conns :
        PendingPush(c)' /\ PendingPush(d)' /\ PushOf(c)' = PushOf(d)' => c = d
  BY <1>1 DEF OnceInv, NoNewPush
<1> QED BY <1>2, <1>3, <1>4 DEF OnceInv

\* A session that keeps its push, is freed, or is no push adds none.
LEMMA BecomeNoNewPush ==
  ASSUME TypeOK, NEW c \in Conns, NEW s, Become(c, s),
         \/ s.phase \notin {"sent", "busy", "admitted"}
         \/ s.push = 0
         \/ PendingPush(c) /\ s.push = conn[c].push /\ s.worker = conn[c].worker
  PROVE  NoNewPush
<1>1. conn'[c] = s /\ \A d \in Conns \ {c} : conn'[d] = conn[d]
  BY DEF Become, TypeOK
<1> QED BY <1>1 DEF NoNewPush, PendingPush

LEMMA SetPhase ==
  ASSUME NEW s \in Sessions, NEW p
  PROVE  LET t == [s EXCEPT !.phase = p]
         IN  t.phase = p /\ t.push = s.push /\ t.worker = s.worker
  BY DEF Sessions

LEMMA SetReply ==
  ASSUME NEW s \in Sessions, NEW p, NEW r
  PROVE  /\ [s EXCEPT !.phase = p, !.reply = r].phase = p
         /\ [s EXCEPT !.phase = p, !.base = r].phase = p
         /\ [s EXCEPT !.phase = p, !.applied = TRUE, !.reply = r].phase = p
  BY DEF Sessions

LEMMA FreeIsNoPush == FreeSession.phase = "free" /\ FreeSession.push = 0
  BY DEF FreeSession

\* Sessions that commit nothing start no push either.
LEMMA QuietSession ==
  ASSUME TypeOK, NEW c \in Conns,
         \/ Admit(c) \/ AnswerBusy(c) \/ FailSession(c) \/ HandlePull(c)
         \/ HandleStalePush(c) \/ EncodeReply(c) \/ SendReply(c)
  PROVE  NoNewPush /\ UNCHANGED <<model, disk, pushes>>
<1> USE FreeIsNoPush
<1>0. conn[c] \in Sessions
  BY DEF TypeOK
<1>1. CASE Admit(c)
  <2>1. NoNewPush
    BY <1>0, <1>1, BecomeNoNewPush, SetPhase DEF Admit, InPhase, PendingPush
  <2> QED BY <1>1, <2>1 DEF Admit, serverVars, workerVars
<1>2. CASE AnswerBusy(c)
  <2>1. NoNewPush
    BY <1>0, <1>2, BecomeNoNewPush, SetPhase DEF AnswerBusy, InPhase, PendingPush
  <2> QED BY <1>2, <2>1 DEF AnswerBusy, serverVars, workerVars
<1>3. CASE FailSession(c)
  <2>1. NoNewPush
    BY <1>0, <1>3, BecomeNoNewPush, SetPhase DEF FailSession
  <2> QED BY <1>3, <2>1 DEF FailSession, serverVars, workerVars
<1>4. CASE HandlePull(c)
  <2> DEFINE t == [conn[c] EXCEPT !.phase = "ready",
                     !.reply = Snapshot(VariantOf[conn[c].worker], model, revision, cache)]
  <2>1. Become(c, t)
    BY <1>4 DEF HandlePull
  <2>2. t.phase = "ready"
    BY <1>0, SetReply
  <2>3. NoNewPush
    <3> HIDE DEF t
    <3> QED BY <2>1, <2>2, BecomeNoNewPush
  <2> QED BY <1>4, <2>3 DEF HandlePull, workerVars
<1>5. CASE HandleStalePush(c)
  <2> DEFINE t == [conn[c] EXCEPT !.phase = "ready",
                     !.reply = Snapshot(DefaultVariant, model, revision, cache)]
  <2>1. Become(c, t)
    BY <1>5 DEF HandleStalePush
  <2>2. t.phase = "ready"
    BY <1>0, SetReply
  <2>3. NoNewPush
    <3> HIDE DEF t
    <3> QED BY <2>1, <2>2, BecomeNoNewPush
  <2> QED BY <1>5, <2>3 DEF HandleStalePush, workerVars
<1>6. CASE EncodeReply(c)
  <2> DEFINE held == RetainedAt(conn[c].basis.revision)
             base == IF conn[c].offer /\ held # {} THEN served[CHOOSE i \in held : TRUE]
                                                   ELSE NoSnapshot
             t == [conn[c] EXCEPT !.phase = "encoded", !.base = base]
  <2>1. Become(c, t)
    BY <1>6 DEF EncodeReply
  <2>2. t.phase = "encoded"
    <3> HIDE DEF base
    <3> QED BY <1>0, SetReply
  <2>3. NoNewPush
    <3> HIDE DEF t
    <3> QED BY <2>1, <2>2, BecomeNoNewPush
  <2> QED BY <1>6, <2>3 DEF EncodeReply, serverVars, workerVars
<1>7. CASE SendReply(c)
  <2>1. NoNewPush
    BY <1>0, <1>7, BecomeNoNewPush, SetPhase DEF SendReply, Finished
  <2> QED BY <1>7, <2>1 DEF SendReply, workerVars
<1> QED BY <1>1, <1>2, <1>3, <1>4, <1>5, <1>6, <1>7

LEMMA QuietWorker ==
  ASSUME TypeOK, NEW w \in Workers,
         Adopt(w) \/ RetryBusy(w) \/ CallFails(w) \/ CallTimesOut(w) \/ WorkerRestart(w)
  PROVE  NoNewPush /\ UNCHANGED <<model, disk, pushes>>
<1> USE FreeIsNoPush
<1>1. CASE Adopt(w)
  <2>1. NoNewPush
    BY <1>1, BecomeNoNewPush DEF Adopt, TypeOK
  <2> QED BY <1>1, <2>1 DEF Adopt, serverVars
<1>2. CASE RetryBusy(w)
  <2>1. call[w] \in Conns /\ conn[call[w]] \in Sessions
    BY <1>2 DEF RetryBusy, TypeOK
  <2> DEFINE t == [conn[call[w]] EXCEPT !.phase = "sent"]
  <2>2. Become(call[w], t) /\ InPhase(call[w], "busy")
    BY <1>2 DEF RetryBusy
  <2>3. t.push = conn[call[w]].push /\ t.worker = conn[call[w]].worker
    BY <2>1, SetPhase
  <2>4. NoNewPush
    <3> HIDE DEF t
    <3> QED BY <2>1, <2>2, <2>3, BecomeNoNewPush DEF InPhase, PendingPush
  <2> QED BY <1>2, <2>4 DEF RetryBusy, serverVars
<1>3. CASE CallFails(w)
  <2>1. NoNewPush
    BY <1>3, BecomeNoNewPush DEF CallFails, TypeOK
  <2> QED BY <1>3, <2>1 DEF CallFails, DropExchange, serverVars
<1>4. CASE CallTimesOut(w)
  <2>1. call[w] \in Conns
    BY <1>4 DEF CallTimesOut, TypeOK
  <2>2. NoNewPush
    <3>1. conn'[call[w]] \in {FreeSession, conn[call[w]]}
          /\ \A d \in Conns \ {call[w]} : conn'[d] = conn[d]
      BY <1>4, <2>1 DEF CallTimesOut, Become, TypeOK
    <3> QED BY <3>1 DEF NoNewPush, PendingPush
  <2> QED BY <1>4, <2>2 DEF CallTimesOut, DropExchange, serverVars
<1>5. CASE WorkerRestart(w)
  <2>1. NoNewPush
    BY <1>5 DEF WorkerRestart, NoNewPush, PendingPush
  <2> QED BY <1>5, <2>1 DEF WorkerRestart, serverVars
<1> QED BY <1>1, <1>2, <1>3, <1>4, <1>5

\* A pull starts a session without a push.
LEMMA QuietPull ==
  ASSUME TypeOK, NEW w \in Workers, NEW c \in Conns, StartPull(w, c)
  PROVE  NoNewPush /\ UNCHANGED <<model, disk, pushes>>
<1> DEFINE t == [FreeSession EXCEPT !.phase = "sent", !.worker = w, !.push = 0,
                                    !.basis = baseline[w], !.offer = OffersDelta(w)]
<1>1. Become(c, t)
  BY DEF StartPull, Request
<1>2. t.push = 0
  BY FreeSessionType DEF Sessions
<1>3. NoNewPush
  <2> HIDE DEF t
  <2> QED BY <1>1, <1>2, BecomeNoNewPush
<1> QED BY <1>3 DEF StartPull, Request, serverVars

\* A new push has a number its worker never used.
LEMMA OnceStart ==
  ASSUME TypeOK, OnceInv, NEW w \in Workers, NEW c \in Conns,
         StartPush(w, c) \/ StartPull(w, c)
  PROVE  OnceInv'
<1>1. CASE StartPull(w, c)
  BY <1>1, QuietPull, OnceQuiet
<1>2. CASE StartPush(w, c)
  <2> DEFINE n == pushes[w] + 1
             p == [worker |-> w, n |-> n]
  <2>0. n \in Nat /\ pushes \in [Workers -> Nat]
    <3>1. pushes \in [Workers -> 0..MaxPushes] /\ MaxPushes \in Nat
      BY ConstAssumption DEF TypeOK
    <3>2. \A v \in Workers : pushes[v] \in 0..MaxPushes
      BY <3>1
    <3>3. \A v \in Workers : pushes[v] \in Nat
      BY <3>1, <3>2
    <3> QED BY <3>1, <3>3
  <2>1. /\ conn'[c].push = n /\ conn'[c].worker = w
        /\ \A d \in Conns \ {c} : conn'[d] = conn[d]
    BY <1>2, FreeSessionType DEF StartPush, Request, Become, Sessions, TypeOK
  <2>2. UNCHANGED <<model, disk>> /\ pushes' = [pushes EXCEPT ![w] = n]
    BY <1>2 DEF StartPush, Request, serverVars
  <2>3. \A log \in Seq(Pushes) : Issued(log) => Issued(log)' /\ Absent(p, log)
    <3> SUFFICES ASSUME NEW log \in Seq(Pushes), Issued(log), NEW i \in DOMAIN log
                 PROVE  log[i].n \in 1..pushes'[log[i].worker] /\ log[i] # p
      BY DEF Issued, Absent
    <3>1. log[i] \in Pushes /\ log[i].n \in 1..pushes[log[i].worker]
      BY DEF Issued
    <3>2. CASE log[i].worker = w
      BY <2>0, <2>2, <3>1, <3>2 DEF Pushes
    <3>3. CASE log[i].worker # w
      BY <2>0, <2>2, <3>1, <3>3 DEF Pushes
    <3> QED BY <3>2, <3>3
  <2>4. Issued(model)' /\ Issued(disk.model)' /\ Absent(p, model) /\ Absent(p, disk.model)
    BY <2>2, <2>3 DEF TypeOK, OnceInv, Issued
  <2>5. \A d \in Conns \ {c} : PendingPush(d)' => PendingPush(d) /\ PushOf(d)' = PushOf(d)
    BY <2>1 DEF PendingPush, PushOf
  <2>6. PushOf(c)' = p
    BY <2>1 DEF PushOf
  <2>7. \A d \in Conns \ {c} : PendingPush(d)' =>
          conn'[d].push <= pushes'[conn'[d].worker] /\ PushOf(d)' # p
    <3> SUFFICES ASSUME NEW d \in Conns \ {c}, PendingPush(d)'
                 PROVE  conn'[d].push <= pushes'[conn'[d].worker] /\ PushOf(d)' # p
      OBVIOUS
    <3>1. /\ conn[d] = conn'[d] /\ conn[d] \in Sessions
          /\ conn[d].push <= pushes[conn[d].worker]
      BY <2>1, <2>5 DEF OnceInv, TypeOK
    <3>2. conn[d].push \in Nat /\ conn[d].worker \in Workers
      BY <3>1 DEF Sessions
    <3>3. PushOf(d)' = [worker |-> conn[d].worker, n |-> conn[d].push]
      BY <3>1 DEF PushOf
    <3>4. CASE conn[d].worker = w
      BY <2>0, <2>2, <3>1, <3>2, <3>3, <3>4
    <3>5. CASE conn[d].worker # w
      BY <2>0, <2>2, <3>1, <3>2, <3>3, <3>5
    <3> QED BY <3>4, <3>5
  <2>8. \A d \in Conns : PendingPush(d)' =>
          /\ conn'[d].push <= pushes'[conn'[d].worker]
          /\ Absent(PushOf(d), model)' /\ Absent(PushOf(d), disk.model)'
    <3>1. conn'[c].push <= pushes'[conn'[c].worker]
      BY <2>0, <2>1, <2>2
    <3> QED BY <2>2, <2>4, <2>5, <2>6, <2>7, <3>1 DEF OnceInv, Absent
  <2>9. \A d, e \in Conns :
          PendingPush(d)' /\ PendingPush(e)' /\ PushOf(d)' = PushOf(e)' => d = e
    BY <2>5, <2>6, <2>7 DEF OnceInv
  <2>10. NoRepeat(model)' /\ NoRepeat(disk.model)'
    BY <2>2 DEF OnceInv, NoRepeat
  <2> QED BY <2>4, <2>8, <2>9, <2>10 DEF OnceInv
<1> QED BY <1>1, <1>2

\* A commit leaves the session without a push on its way.
LEMMA CommitLeaves ==
  ASSUME TypeOK, NEW c \in Conns, HandlePush(c)
  PROVE  ~PendingPush(c)' /\ \A d \in Conns \ {c} : conn'[d] = conn[d]
<1> DEFINE phase == IF CheckpointDue THEN "saving" ELSE "ready"
           reply == Snapshot(VariantOf[conn[c].worker], Append(model, PushOf(c)),
                             revision + 1, InvalidatedCache)
           t == [conn[c] EXCEPT !.phase = phase, !.applied = TRUE, !.reply = reply]
<1>1. Become(c, t)
  BY DEF HandlePush
<1>2. t.phase = phase
  <2> HIDE DEF phase, reply
  <2> QED BY SetReply DEF TypeOK
<1>3. conn'[c] = t /\ \A d \in Conns \ {c} : conn'[d] = conn[d]
  <2> HIDE DEF t
  <2> QED BY <1>1 DEF Become, TypeOK
<1> QED BY <1>2, <1>3 DEF PendingPush

\* The push leaves its session as it enters the log.
LEMMA OncePush == ASSUME TypeOK, OnceInv, NEW c \in Conns, HandlePush(c) PROVE OnceInv'
<1> DEFINE p == PushOf(c)
<1>1. PendingPush(c) /\ p \in Pushes
  BY DEF HandlePush, InPhase, PendingPush, PushOf, Pushes, TypeOK, Sessions
<1>2. model' = Append(model, p) /\ UNCHANGED <<disk, pushes>>
  BY DEF HandlePush, workerVars
<1>3. ~PendingPush(c)' /\ \A d \in Conns \ {c} : conn'[d] = conn[d]
  BY CommitLeaves
<1>4. NoNewPush /\ ~PendingPush(c)'
  BY <1>3 DEF NoNewPush, PendingPush
<1>5. \A i \in DOMAIN model' :
        \/ model'[i] = p /\ i = Len(model) + 1
        \/ i \in DOMAIN model /\ model'[i] = model[i]
  BY <1>1, <1>2 DEF TypeOK
<1>6. NoRepeat(model)'
  BY <1>1, <1>5 DEF OnceInv, NoRepeat, Absent
<1>7. p.n \in 1..pushes[p.worker]
  <2>1. conn[c] \in Sessions /\ conn[c].push # 0 /\ conn[c].push <= pushes[conn[c].worker]
    BY <1>1 DEF OnceInv, PendingPush, TypeOK
  <2>2. pushes[conn[c].worker] \in Nat
    BY <2>1, ConstAssumption DEF Sessions, TypeOK
  <2> QED BY <2>1, <2>2 DEF PushOf, Sessions
<1>8. Issued(model)' /\ Issued(disk.model)'
  BY <1>2, <1>5, <1>7 DEF OnceInv, Issued
<1>9. \A d \in Conns : PendingPush(d)' =>
        /\ PendingPush(d) /\ d # c /\ PushOf(d)' = PushOf(d)
        /\ conn'[d].push <= pushes'[conn'[d].worker]
  BY <1>2, <1>4 DEF OnceInv, NoNewPush, PushOf
<1>10. \A d \in Conns : PendingPush(d)' =>
         Absent(PushOf(d), model)' /\ Absent(PushOf(d), disk.model)'
  BY <1>1, <1>2, <1>5, <1>9 DEF OnceInv, Absent
<1>11. \A d, e \in Conns :
         PendingPush(d)' /\ PendingPush(e)' /\ PushOf(d)' = PushOf(e)' => d = e
  BY <1>9 DEF OnceInv
<1>12. NoRepeat(disk.model)'
  BY <1>2 DEF OnceInv, NoRepeat
<1> QED BY <1>6, <1>8, <1>9, <1>10, <1>11, <1>12 DEF OnceInv

LEMMA OnceSave == ASSUME TypeOK, OnceInv, NEW c \in Conns, SaveCheckpoint(c) PROVE OnceInv'
<1>1. conn[c] \in Sessions
  BY DEF TypeOK
<1>2. NoNewPush
  BY <1>1, BecomeNoNewPush, SetPhase DEF SaveCheckpoint
<1>3. UNCHANGED <<model, pushes>> /\ (disk'.model = model \/ disk' = disk)
  BY DEF SaveCheckpoint, workerVars
<1>4. \A d \in Conns : PendingPush(d)' =>
        /\ PendingPush(d) /\ PushOf(d)' = PushOf(d)
        /\ conn'[d].push <= pushes'[conn'[d].worker]
  BY <1>2, <1>3 DEF OnceInv, NoNewPush, PushOf
<1>5. Issued(model)' /\ Issued(disk.model)' /\ NoRepeat(model)' /\ NoRepeat(disk.model)'
  BY <1>3 DEF OnceInv, Issued, NoRepeat
<1>6. \A d \in Conns : PendingPush(d)' =>
        Absent(PushOf(d), model)' /\ Absent(PushOf(d), disk.model)'
  BY <1>3, <1>4 DEF OnceInv, Absent
<1>7. \A d, e \in Conns :
        PendingPush(d)' /\ PendingPush(e)' /\ PushOf(d)' = PushOf(e)' => d = e
  BY <1>4 DEF OnceInv
<1> QED BY <1>4, <1>5, <1>6, <1>7 DEF OnceInv

\* A restart breaks every connection, so nothing is left on its way.
LEMMA OnceRestart == ASSUME TypeOK, OnceInv, ServerRestart PROVE OnceInv'
<1>1. \A c \in Conns : ~PendingPush(c)'
  BY FreeIsNoPush DEF ServerRestart, PendingPush, TypeOK, Sessions
<1>2. model' = disk.model /\ UNCHANGED <<disk, pushes>>
  BY DEF ServerRestart, workerVars
<1>3. Issued(model)' /\ Issued(disk.model)' /\ NoRepeat(model)' /\ NoRepeat(disk.model)'
  BY <1>2 DEF OnceInv, Issued, NoRepeat
<1> QED BY <1>1, <1>3 DEF OnceInv

LEMMA OnceInit == Init => OnceInv
  BY FreeIsNoPush DEF Init, OnceInv, Issued, NoRepeat, Absent, PendingPush

LEMMA OnceNext == TypeOK /\ OnceInv /\ [Next]_vars => OnceInv'
<1> SUFFICES ASSUME TypeOK, OnceInv, [Next]_vars PROVE OnceInv'
  OBVIOUS
<1>1. CASE UNCHANGED vars
  <2>1. NoNewPush
    BY <1>1 DEF vars, NoNewPush, PendingPush
  <2> QED BY <1>1, <2>1, OnceQuiet DEF vars, serverVars, workerVars
<1>2. ASSUME NEW w \in Workers, NEW c \in Conns, StartPush(w, c) \/ StartPull(w, c)
      PROVE  OnceInv'
  BY <1>2, OnceStart
<1>3. ASSUME NEW c \in Conns, ServerStep(c) \/ FailSession(c) PROVE OnceInv'
  BY <1>3, QuietSession, OnceQuiet, OncePush, OnceSave DEF ServerStep
<1>4. ASSUME NEW w \in Workers, WorkerStep(w) \/ CallTimesOut(w) \/ WorkerRestart(w)
      PROVE  OnceInv'
  BY <1>4, QuietWorker, OnceQuiet DEF WorkerStep
<1>5. CASE ServerRestart
  BY <1>5, OnceRestart
<1> QED BY <1>1, <1>2, <1>3, <1>4, <1>5 DEF Next

\* However exchanges time out, are refused, lost or carried out late, and
\* however often the server restores a checkpoint, no push is applied twice.
THEOREM AppliedOnce == Spec => []AtMostOnce
<1>1. OnceInv => AtMostOnce
  BY DEF OnceInv, AtMostOnce
<1> QED BY <1>1, TypeInit, TypeNext, OnceInit, OnceNext, PTL DEF Spec

-----------------------------------------------------------------------------
(* The server implements PushLog: the log is its model, the saved log its  *)
(* checkpoint file's, and a push is spent from when it leaves its session, *)
(* applied or not.  A step that commits nothing drops the pushes it spends *)
(* (most spend none), HandlePush commits, SaveCheckpoint saves and         *)
(* ServerRestart recovers.  OnceInv is what makes a committed push new.    *)

\* What was decided stays decided when no push is started.
LEMMA SpentGrows ==
  ASSUME NoNewPush, UNCHANGED pushes
  PROVE  Spent' \in SUBSET AllPushes /\ Spent' = Spent \cup Spent'
<1>1. \A p : Undecided(p)' => Undecided(p)
  BY DEF Undecided, NoNewPush, PushOf
<1> QED BY <1>1 DEF Spent

LEMMA QuietRefines ==
  ASSUME NoNewPush, UNCHANGED <<model, disk, pushes>>
  PROVE  [PL!Next]_PL!logVars
<1>1. PL!Drop(Spent')
  BY SpentGrows DEF PL!Drop
<1> QED BY <1>1, SpentGrows DEF PL!Next

\* A push that is started is not yet spent, and its number was never used.
LEMMA StartRefines ==
  ASSUME TypeOK, NEW w \in Workers, NEW c \in Conns, StartPush(w, c)
  PROVE  UNCHANGED <<model, disk, Spent>>
<1> DEFINE n == pushes[w] + 1
           p == [worker |-> w, n |-> n]
<1>1. /\ conn'[c].push = n /\ conn'[c].worker = w /\ conn'[c].phase = "sent"
      /\ \A d \in Conns \ {c} : conn'[d] = conn[d]
  BY FreeSessionType DEF StartPush, Request, Become, Sessions, TypeOK
<1>2. conn[c].phase = "free" /\ UNCHANGED <<model, disk>> /\ pushes' = [pushes EXCEPT ![w] = n]
  BY DEF StartPush, Request, InPhase, serverVars
<1>3. \A v \in Workers : pushes[v] \in Nat
  BY ConstAssumption DEF TypeOK
<1>4. n # 0 /\ n \in Nat
  BY <1>3
<1>5. \A q : Undecided(q)' <=> Undecided(q) \/ q = p
  <2>1. PendingPush(c)' /\ ~PendingPush(c) /\ PushOf(c)' = p
    BY <1>1, <1>2, <1>4 DEF PendingPush, PushOf
  <2>2. \A d \in Conns \ {c} : (PendingPush(d)' <=> PendingPush(d)) /\ PushOf(d)' = PushOf(d)
    BY <1>1 DEF PendingPush, PushOf
  <2> QED BY <2>1, <2>2 DEF Undecided
<1>6. ASSUME NEW q \in AllPushes
      PROVE  q.n <= pushes'[q.worker] /\ q # p <=> q.n <= pushes[q.worker]
  <2>1. q = [worker |-> q.worker, n |-> q.n] /\ q.worker \in Workers /\ q.n \in Nat
    BY ConstAssumption DEF AllPushes
  <2>2. pushes'[w] = n /\ \A v \in Workers \ {w} : pushes'[v] = pushes[v]
    BY <1>2 DEF TypeOK
  <2>3. CASE q.worker = w
    <3>1. q # p <=> q.n # n
      BY <2>1, <2>3
    <3> QED BY <1>3, <2>1, <2>2, <2>3, <3>1
  <2>4. CASE q.worker # w
    BY <2>1, <2>2, <2>4
  <2> QED BY <2>3, <2>4
<1>7. Spent' = Spent
  BY <1>5, <1>6 DEF Spent
<1> QED BY <1>2, <1>7

\* A commit spends just the push it applies, which nothing spent before.
LEMMA PushRefines ==
  ASSUME TypeOK, OnceInv, NEW c \in Conns, HandlePush(c)
  PROVE  \E p \in AllPushes : PL!Commit(p)
<1>0. PICK p : p = PushOf(c)
  OBVIOUS
<1>1. PendingPush(c) /\ conn[c] \in Sessions
  BY DEF HandlePush, InPhase, PendingPush, TypeOK
<1>2. p \in AllPushes /\ p.n <= pushes[p.worker]
  <2>1. conn[c].push # 0 /\ conn[c].push \in Nat /\ conn[c].worker \in Workers
        /\ conn[c].push <= pushes[conn[c].worker]
    BY <1>1 DEF OnceInv, PendingPush, Sessions
  <2>2. pushes[conn[c].worker] \in 0..MaxPushes /\ MaxPushes \in Nat
    BY <2>1, ConstAssumption DEF TypeOK
  <2>3. conn[c].push \in 1..MaxPushes
    BY <2>1, <2>2
  <2> QED BY <1>0, <2>1, <2>3 DEF AllPushes, PushOf
<1>3. model' = Append(model, p) /\ UNCHANGED <<disk, pushes>>
  BY <1>0 DEF HandlePush, workerVars
<1>4. ~PendingPush(c)' /\ \A d \in Conns \ {c} : conn'[d] = conn[d]
  BY CommitLeaves
<1>5. Undecided(p) /\ ~Undecided(p)'
  <2>1. \A d \in Conns \ {c} : PendingPush(d)' => PendingPush(d) /\ PushOf(d)' = PushOf(d)
    BY <1>4 DEF PendingPush, PushOf
  <2> QED BY <1>0, <1>1, <1>4, <2>1 DEF Undecided, OnceInv
<1>6. \A q : q # p => (Undecided(q)' <=> Undecided(q))
  <2>1. \A d \in Conns \ {c} : (PendingPush(d)' <=> PendingPush(d)) /\ PushOf(d)' = PushOf(d)
    BY <1>4 DEF PendingPush, PushOf
  <2> QED BY <1>0, <1>4, <2>1 DEF Undecided
<1>7. p \notin Spent /\ Spent' = Spent \cup {p}
  BY <1>2, <1>3, <1>5, <1>6 DEF Spent
<1> QED BY <1>2, <1>3, <1>7 DEF PL!Commit

\* A save replaces the saved log by the present one, or changes nothing.
LEMMA SaveRefines ==
  ASSUME TypeOK, NEW c \in Conns, SaveCheckpoint(c)
  PROVE  [PL!Next]_PL!logVars
<1>1. UNCHANGED <<model, pushes>> /\ (disk'.model = model \/ UNCHANGED disk)
  BY DEF SaveCheckpoint, workerVars
<1>2. /\ conn[c].phase = "saving" /\ conn'[c].phase = "ready"
      /\ \A d \in Conns \ {c} : conn'[d] = conn[d]
  <2>1. PICK t : t = [conn[c] EXCEPT !.phase = "ready"]
    OBVIOUS
  <2>2. Become(c, t) /\ conn[c].phase = "saving"
    BY <2>1 DEF SaveCheckpoint, InPhase
  <2>3. t.phase = "ready"
    BY <2>1, SetPhase DEF TypeOK
  <2> QED BY <2>2, <2>3 DEF Become, TypeOK
<1>3. \A d \in Conns :
        (PendingPush(d)' <=> PendingPush(d)) /\ (PendingPush(d) => PushOf(d)' = PushOf(d))
  BY <1>2 DEF PendingPush, PushOf
<1>4. \A p : Undecided(p)' <=> Undecided(p)
  BY <1>3 DEF Undecided
<1>5. Spent' = Spent
  BY <1>1, <1>4 DEF Spent
<1> QED BY <1>1, <1>5 DEF PL!Next, PL!Save, PL!logVars

LEMMA RestartRefines ==
  ASSUME TypeOK, ServerRestart
  PROVE  \E S \in SUBSET AllPushes : PL!Recover(S)
<1>1. NoNewPush /\ UNCHANGED <<disk, pushes>> /\ model' = disk.model
  <2>1. ASSUME NEW c \in Conns PROVE conn'[c].phase \in {"free", "closed"}
    <3>1. conn'[c] = FreeSession \/ conn'[c] = [conn[c] EXCEPT !.phase = "closed"]
      BY DEF ServerRestart
    <3>2. CASE conn'[c] = FreeSession
      BY <3>2, FreeIsNoPush
    <3>3. CASE conn'[c] = [conn[c] EXCEPT !.phase = "closed"]
      BY <3>3, SetPhase DEF TypeOK
    <3> QED BY <3>1, <3>2, <3>3
  <2> QED BY <2>1 DEF NoNewPush, PendingPush, ServerRestart, workerVars
<1>2. PL!Recover(Spent')
  BY <1>1, SpentGrows DEF PL!Recover
<1> QED BY <1>1, <1>2, SpentGrows

LEMMA RefinesInit == Init => PL!Init
<1> SUFFICES ASSUME Init PROVE PL!Init
  OBVIOUS
<1>1. model = <<>> /\ disk.model = <<>> /\ \A w \in Workers : pushes[w] = 0
  BY DEF Init
<1>2. \A p \in AllPushes : p.worker \in Workers /\ p.n \in Nat /\ p.n > 0
  BY ConstAssumption DEF AllPushes
<1>3. Spent = {}
  BY <1>1, <1>2 DEF Spent
<1> QED BY <1>1, <1>3 DEF PL!Init

\* Each step of the server and its workers is one of the log, or none.
LEMMA RefinesNext ==
  ASSUME TypeOK, OnceInv, [Next]_vars
  PROVE  [PL!Next]_PL!logVars
<1>1. CASE UNCHANGED vars
  <2>1. NoNewPush /\ UNCHANGED <<model, disk, pushes>>
    BY <1>1 DEF NoNewPush, PendingPush, vars, serverVars, workerVars
  <2> QED BY <2>1, QuietRefines
<1>2. ASSUME NEW w \in Workers, NEW c \in Conns, StartPush(w, c) \/ StartPull(w, c)
      PROVE  [PL!Next]_PL!logVars
  <2>1. CASE StartPush(w, c)
    BY <2>1, StartRefines DEF PL!logVars
  <2>2. CASE StartPull(w, c)
    BY <2>2, QuietPull, QuietRefines
  <2> QED BY <1>2, <2>1, <2>2
<1>3. ASSUME NEW c \in Conns, ServerStep(c) \/ FailSession(c)
      PROVE  [PL!Next]_PL!logVars
  <2>1. CASE HandlePush(c)
    BY <2>1, PushRefines DEF PL!Next
  <2>2. CASE SaveCheckpoint(c)
    BY <2>2, SaveRefines
  <2>3. CASE ~HandlePush(c) /\ ~SaveCheckpoint(c)
    BY <1>3, <2>3, QuietSession, QuietRefines DEF ServerStep
  <2> QED BY <2>1, <2>2, <2>3
<1>4. ASSUME NEW w \in Workers, WorkerStep(w) \/ CallTimesOut(w) \/ WorkerRestart(w)
      PROVE  [PL!Next]_PL!logVars
  BY <1>4, QuietWorker, QuietRefines DEF WorkerStep
<1>5. CASE ServerRestart
  BY <1>5, RestartRefines DEF PL!Next
<1> QED BY <1>1, <1>2, <1>3, <1>4, <1>5 DEF Next

\* The parameter server implements the push log: whatever is retried, lost,
\* late or restored, a push is folded in at most once, a dropped push stays
\* dropped, and recovery returns to a log that was saved as a whole.
THEOREM ServerImplementsPushLog == Spec => PushLogSpec
  BY TypeInit, TypeNext, OnceInit, OnceNext, RefinesInit, RefinesNext, PTL
  DEF Spec, PushLogSpec, PL!Spec

-----------------------------------------------------------------------------
(***************************************************************************)
(* What a snapshot says is true: every snapshot the present server process *)
(* built is the model at the revision it is labelled with, and only a      *)
(* restored checkpoint can make a push stale.  FaithInv adds to            *)
(* SnapshotFaithful that the revision counts the log, that a built cache   *)
(* entry is the present model, and the date of every snapshot.             *)
(***************************************************************************)

\* The snapshots some session, the ring or a worker holds.
Held(s) ==
  \/ \E c \in Conns : s = conn[c].reply \/ s = conn[c].basis
  \/ \E i \in DOMAIN served : s = served[i]
  \/ \E w \in Workers : s = baseline[w]

LogInv ==
  /\ revision = Len(model) /\ disk.revision = Len(disk.model)
  /\ \A v \in Variants : cache[v].built => cache[v].model = model

LEMMA FaithParts == FaithInv <=> LogInv /\ \A s : Held(s) => Genuine(s)
  BY DEF FaithInv, LogInv, Held

LEMMA HeldType == ASSUME TypeOK, NEW s, Held(s) PROVE s \in Snapshots
  BY DEF TypeOK, Held, Sessions

\* What holds of a step that only moves snapshots about and builds true ones.
LEMMA FaithStep ==
  ASSUME TypeOK, FaithInv, LogInv',
         \A s \in Snapshots : Genuine(s) => Genuine(s)',
         \A s : Held(s)' => Held(s) \/ Genuine(s)'
  PROVE  FaithInv'
<1>1. \A s : Held(s)' => Genuine(s)'
  BY FaithParts, HeldType
<1> QED BY <1>1 DEF FaithInv, LogInv, Held

LEMMA NoSnapshotGenuine == TypeOK => Genuine(NoSnapshot)
  BY DEF TypeOK, NoSnapshot, Genuine, Dated, Faithful

LEMMA GenuineKept ==
  ASSUME UNCHANGED <<model, revision, inc>>
  PROVE  \A s \in Snapshots : Genuine(s) => Genuine(s)'
  BY DEF Genuine, Dated, Faithful, IsPast

\* The log only grows, so what was a past model stays one.
LEMMA GenuineGrows ==
  ASSUME TypeOK, LogInv, NEW p \in Pushes, model' = Append(model, p),
         revision' = revision + 1, UNCHANGED inc
  PROVE  \A s \in Snapshots : Genuine(s) => Genuine(s)'
<1> SUFFICES ASSUME NEW s \in Snapshots, Genuine(s) PROVE Genuine(s)'
  OBVIOUS
<1>1. s.revision \in Nat /\ s.inc \in Nat /\ revision \in Nat /\ inc \in Nat
  BY DEF TypeOK, Snapshots
<1>2. Dated(s)'
  BY <1>1 DEF Genuine, Dated
<1>3. ASSUME IsPast(s) PROVE IsPast(s)'
  <2>1. s.revision <= revision' /\ s.revision \in 0..Len(model)
    BY <1>1, <1>3 DEF IsPast, LogInv
  <2>2. SubSeq(model', 1, s.revision) = SubSeq(model, 1, s.revision)
    BY <2>1 DEF TypeOK
  <2> QED BY <1>3, <2>1, <2>2 DEF IsPast
<1> QED BY <1>2, <1>3 DEF Genuine, Faithful

\* A snapshot of the present model through a faithful cache is genuine.
LEMMA BuiltGenuine ==
  ASSUME TypeOK, NEW v \in Variants, NEW ca \in Caches, revision = Len(model),
         ca[v].built => ca[v].model = model
  PROVE  /\ Genuine(Snapshot(v, model, revision, ca))
         /\ Cached(v, model, ca)[v].model = model
<1>1. SnapshotModel(v, model, ca) = model
  BY DEF SnapshotModel
<1>2. SubSeq(model, 1, revision) = model
  BY DEF TypeOK
<1>3. /\ Snapshot(v, model, revision, ca).revision = revision
      /\ Snapshot(v, model, revision, ca).model = model
      /\ Snapshot(v, model, revision, ca).inc = inc
  BY <1>1 DEF Snapshot
<1>4. revision \in Nat /\ inc \in Nat
  BY DEF TypeOK
<1> QED BY <1>1, <1>2, <1>3, <1>4 DEF Genuine, Dated, Faithful, IsPast, Cached, Caches

\* The only snapshots a step adds when one session becomes s.
LEMMA HeldBecome ==
  ASSUME NEW c \in Conns, NEW s, s = conn'[c], \A d \in Conns \ {c} : conn'[d] = conn[d],
         UNCHANGED <<served, baseline>>,
         Held(s.reply) \/ Genuine(s.reply)', Held(s.basis) \/ Genuine(s.basis)'
  PROVE  \A t : Held(t)' => Held(t) \/ Genuine(t)'
  BY DEF Held

LEMMA BecomeValue ==
  ASSUME TypeOK, NEW c \in Conns, NEW s, Become(c, s)
  PROVE  conn'[c] = s /\ \A d \in Conns \ {c} : conn'[d] = conn[d]
  BY DEF Become, TypeOK

LEMMA KeptFields ==
  ASSUME NEW s \in Sessions, NEW p, NEW r, NEW a
  PROVE  /\ [s EXCEPT !.phase = p].reply = s.reply /\ [s EXCEPT !.phase = p].basis = s.basis
         /\ [s EXCEPT !.phase = p, !.base = r].reply = s.reply
         /\ [s EXCEPT !.phase = p, !.base = r].basis = s.basis
         /\ [s EXCEPT !.phase = p, !.reply = r].reply = r
         /\ [s EXCEPT !.phase = p, !.reply = r].basis = s.basis
         /\ [s EXCEPT !.phase = p, !.applied = a, !.reply = r].reply = r
         /\ [s EXCEPT !.phase = p, !.applied = a, !.reply = r].basis = s.basis
  BY DEF Sessions

LEMMA FreeFields == FreeSession.reply = NoSnapshot /\ FreeSession.basis = NoSnapshot
  BY DEF FreeSession

-----------------------------------------------------------------------------
(* FaithInv is inductive. *)

\* Steps of a session that build no snapshot and commit nothing.
LEMMA FaithSession ==
  ASSUME TypeOK, FaithInv, NEW c \in Conns,
         \/ Admit(c) \/ AnswerBusy(c) \/ FailSession(c) \/ SaveCheckpoint(c) \/ EncodeReply(c)
  PROVE  FaithInv'
<1>0. conn[c] \in Sessions /\ LogInv
  BY FaithParts DEF TypeOK
<1>1. /\ UNCHANGED <<model, revision, cache, inc, served, baseline>>
      /\ disk' = disk \/ disk' = [model |-> model, revision |-> revision]
  BY DEF Admit, AnswerBusy, FailSession, SaveCheckpoint, EncodeReply, serverVars, workerVars
<1>2. LogInv'
  BY <1>0, <1>1 DEF LogInv
<1>3. /\ conn'[c].reply \in {conn[c].reply, NoSnapshot}
      /\ conn'[c].basis \in {conn[c].basis, NoSnapshot}
      /\ \A d \in Conns \ {c} : conn'[d] = conn[d]
  <2>1. CASE Admit(c) \/ AnswerBusy(c) \/ FailSession(c) \/ SaveCheckpoint(c)
    <3> DEFINE t(phase) == [conn[c] EXCEPT !.phase = phase]
    <3>1. \/ Become(c, FreeSession) \/ Become(c, t("busy")) \/ Become(c, t("closed"))
          \/ Become(c, t("admitted")) \/ Become(c, t("ready"))
      BY <2>1 DEF Admit, AnswerBusy, FailSession, SaveCheckpoint
    <3>2. \A phase : t(phase).reply = conn[c].reply /\ t(phase).basis = conn[c].basis
      BY <1>0, KeptFields
    <3> HIDE DEF t
    <3> QED BY <3>1, <3>2, BecomeValue, FreeFields
  <2>2. CASE EncodeReply(c)
    <3> DEFINE held == RetainedAt(conn[c].basis.revision)
               base == IF conn[c].offer /\ held # {} THEN served[CHOOSE i \in held : TRUE]
                                                     ELSE NoSnapshot
               t == [conn[c] EXCEPT !.phase = "encoded", !.base = base]
    <3>1. Become(c, t)
      BY <2>2 DEF EncodeReply
    <3>2. t.reply = conn[c].reply /\ t.basis = conn[c].basis
      <4> HIDE DEF base
      <4> QED BY <1>0, KeptFields
    <3> HIDE DEF t
    <3> QED BY <3>1, <3>2, BecomeValue
  <2> QED BY <2>1, <2>2
<1>4. \A t \in Snapshots : Genuine(t) => Genuine(t)'
  BY <1>1, GenuineKept
<1>5. PICK s : s = conn'[c]
  OBVIOUS
<1>6. /\ Held(s.reply) \/ Genuine(s.reply)'
      /\ Held(s.basis) \/ Genuine(s.basis)'
  <2>1. Held(conn[c].reply) /\ Held(conn[c].basis)
    BY DEF Held
  <2>2. Genuine(NoSnapshot)'
    BY <1>4, NoSnapshotGenuine, NoSnapshotType DEF NoSnapshot
  <2>3. \A t : t = NoSnapshot => Genuine(t)'
    BY <2>2
  <2> QED BY <1>3, <1>5, <2>1, <2>3
<1>7. \A t : Held(t)' => Held(t) \/ Genuine(t)'
  BY <1>1, <1>3, <1>5, <1>6, HeldBecome
<1> QED BY <1>2, <1>4, <1>7, FaithStep

\* A request answered without a commit, with the snapshot new of variant v.
LEMMA FaithAnswer ==
  ASSUME TypeOK, FaithInv, NEW c \in Conns, NEW v \in Variants, NEW new,
         new = Snapshot(v, model, revision, cache),
         Become(c, [conn[c] EXCEPT !.phase = "ready", !.reply = new]),
         cache' = Cached(v, model, cache),
         UNCHANGED <<model, revision, disk, inc, served, baseline>>
  PROVE  FaithInv'
<1>0. conn[c] \in Sessions /\ LogInv /\ cache \in Caches
  BY FaithParts DEF TypeOK, Caches
<1>1. Genuine(new) /\ cache'[v].model = model
  BY <1>0, BuiltGenuine DEF LogInv
<1>2. new \in Snapshots
  BY <1>0, SnapshotType DEF TypeOK
<1>3. \A s \in Snapshots : Genuine(s) => Genuine(s)'
  BY GenuineKept
<1>4. LogInv'
  <2>1. \A u \in Variants \ {v} : cache'[u] = cache[u]
    BY <1>0 DEF Cached, Caches
  <2> QED BY <1>0, <1>1, <2>1 DEF LogInv
<1> DEFINE t == [conn[c] EXCEPT !.phase = "ready", !.reply = new]
<1>5. t.reply = new /\ t.basis = conn[c].basis
  BY <1>0, KeptFields
<1>6. conn'[c] = t /\ \A d \in Conns \ {c} : conn'[d] = conn[d]
  BY BecomeValue
<1>7. PICK s : s = conn'[c]
  OBVIOUS
<1>8. Genuine(s.reply)' /\ Held(s.basis)
  <2>1. s.reply = new /\ s.basis = conn[c].basis
    BY <1>5, <1>6, <1>7
  <2> QED BY <1>1, <1>2, <1>3, <2>1 DEF Held
<1>9. \A u : Held(u)' => Held(u) \/ Genuine(u)'
  <2> HIDE DEF t
  <2> QED BY <1>6, <1>7, <1>8, HeldBecome
<1> QED BY <1>3, <1>4, <1>9, FaithStep

LEMMA FaithNoCommit ==
  ASSUME TypeOK, FaithInv, NEW c \in Conns, HandlePull(c) \/ HandleStalePush(c)
  PROVE  FaithInv'
<1>1. conn[c].worker \in Workers
  BY DEF TypeOK, Sessions
<1>2. CASE HandlePull(c)
  <2>1. PICK v : v = VariantOf[conn[c].worker]
    OBVIOUS
  <2>2. PICK new : new = Snapshot(v, model, revision, cache)
    OBVIOUS
  <2>3. Become(c, [conn[c] EXCEPT !.phase = "ready", !.reply = new])
        /\ cache' = Cached(v, model, cache) /\ v \in Variants
    BY <1>1, <1>2, <2>1, <2>2, ConstAssumption DEF HandlePull
  <2> QED BY <1>2, <2>2, <2>3, FaithAnswer DEF HandlePull, workerVars
<1>3. CASE HandleStalePush(c)
  <2>1. PICK new : new = Snapshot(DefaultVariant, model, revision, cache)
    OBVIOUS
  <2>2. Become(c, [conn[c] EXCEPT !.phase = "ready", !.reply = new])
        /\ cache' = Cached(DefaultVariant, model, cache) /\ DefaultVariant \in Variants
    BY <1>3, <2>1, ConstAssumption DEF HandleStalePush
  <2> QED BY <1>3, <2>1, <2>2, FaithAnswer DEF HandleStalePush, workerVars
<1> QED BY <1>2, <1>3

\* A commit: the log grows by the push, and the reply is its new state.
LEMMA FaithPush == ASSUME TypeOK, FaithInv, NEW c \in Conns, HandlePush(c) PROVE FaithInv'
<1>0. /\ conn[c] \in Sessions /\ conn[c].push # 0 /\ conn[c].worker \in Workers
      /\ LogInv /\ TypeOK'
  BY FaithParts, HandlePushType DEF HandlePush, TypeOK, Sessions
<1>1. PICK p : p = PushOf(c)
  OBVIOUS
<1>2. PICK v : v = VariantOf[conn[c].worker]
  OBVIOUS
<1>3. p \in Pushes /\ v \in Variants
  BY <1>0, <1>1, <1>2, ConstAssumption DEF PushOf, Pushes, Sessions
<1>4. PICK new : new = Snapshot(v, Append(model, p), revision + 1, InvalidatedCache)
  OBVIOUS
<1>5. /\ model' = Append(model, p) /\ revision' = revision + 1
      /\ cache' = Cached(v, model', InvalidatedCache)
      /\ UNCHANGED <<disk, inc, served, baseline>>
  BY <1>1, <1>2 DEF HandlePush, workerVars
<1>6. \A s \in Snapshots : Genuine(s) => Genuine(s)'
  BY <1>0, <1>3, <1>5, GenuineGrows
<1>7. revision' = Len(model')
  BY <1>0, <1>3, <1>5 DEF LogInv, TypeOK
<1>8. InvalidatedCache \in Caches /\ \A u \in Variants : ~InvalidatedCache[u].built
  BY DEF InvalidatedCache, Caches
<1>9. LogInv'
  <2>1. SnapshotModel(v, model', InvalidatedCache) = model'
    BY <1>3, <1>8 DEF SnapshotModel
  <2>2. \A u \in Variants : cache'[u].built => cache'[u].model = model'
    BY <1>5, <1>8, <2>1 DEF Cached, Caches
  <2> QED BY <1>0, <1>5, <1>7, <2>2 DEF LogInv
<1>10. Genuine(new)'
  <2>1. new = [model |-> model', revision |-> revision', variant |-> Shown(v, model'),
               inc |-> inc, exact |-> TRUE]
    BY <1>3, <1>4, <1>5, <1>8 DEF Snapshot, SnapshotModel
  <2>2. new.model = model' /\ new.revision = revision' /\ new.inc = inc'
    BY <1>5, <2>1
  <2>3. SubSeq(model', 1, revision') = model' /\ revision' \in Nat /\ inc' \in Nat
    BY <1>0, <1>7 DEF TypeOK
  <2> HIDE DEF Snapshots
  <2> QED BY <2>2, <2>3 DEF Genuine, Dated, Faithful, IsPast
<1> DEFINE phase == IF CheckpointDue THEN "saving" ELSE "ready"
           t == [conn[c] EXCEPT !.phase = phase, !.applied = TRUE, !.reply = new]
<1>11. Become(c, t)
  BY <1>1, <1>2, <1>4 DEF HandlePush
<1>12. t.reply = new /\ t.basis = conn[c].basis
  <2> HIDE DEF phase
  <2> QED BY <1>0, KeptFields
<1>13. PICK s : s = conn'[c]
  OBVIOUS
<1> HIDE DEF t
<1>14. s = t /\ \A d \in Conns \ {c} : conn'[d] = conn[d]
  BY <1>11, <1>13, BecomeValue
<1>15. Genuine(s.reply)' /\ Held(s.basis)
  BY <1>10, <1>12, <1>14 DEF Held
<1>16. \A u : Held(u)' => Held(u) \/ Genuine(u)'
  BY <1>5, <1>13, <1>14, <1>15, HeldBecome
<1> QED BY <1>6, <1>9, <1>16, FaithStep

\* The ring takes in the snapshot the session replied with.
LEMMA FaithSend == ASSUME TypeOK, FaithInv, NEW c \in Conns, SendReply(c) PROVE FaithInv'
<1>0. conn[c] \in Sessions /\ conn[c].reply \in Snapshots /\ LogInv
  BY FaithParts DEF TypeOK, Sessions
<1>1. /\ UNCHANGED <<model, revision, cache, disk, inc, baseline>>
      /\ served' = Retain(conn[c].reply)
  BY DEF SendReply, workerVars
<1>2. \A s \in Snapshots : Genuine(s) => Genuine(s)'
  BY <1>1, GenuineKept
<1>3. /\ conn'[c].reply \in {conn[c].reply, NoSnapshot}
      /\ conn'[c].basis \in {conn[c].basis, NoSnapshot}
      /\ \A d \in Conns \ {c} : conn'[d] = conn[d]
  <2> DEFINE t == [conn[c] EXCEPT !.phase = "answered"]
  <2>1. Become(c, t) \/ Become(c, FreeSession)
    BY DEF SendReply, Finished
  <2>2. t.reply = conn[c].reply /\ t.basis = conn[c].basis
    BY <1>0, KeptFields
  <2> HIDE DEF t
  <2> QED BY <2>1, <2>2, BecomeValue, FreeFields
<1>4. \A i \in DOMAIN served' :
        served'[i] = conn[c].reply \/ \E j \in DOMAIN served : served'[i] = served[j]
  BY <1>0, <1>1, RetainType DEF TypeOK
<1>5. \A s : Held(s)' => Held(s) \/ s = NoSnapshot
  BY <1>1, <1>3, <1>4 DEF Held
<1>6. \A s : s = NoSnapshot => Genuine(s)'
  BY <1>2, NoSnapshotGenuine, NoSnapshotType
<1>7. LogInv'
  BY <1>0, <1>1 DEF LogInv
<1> QED BY <1>2, <1>5, <1>6, <1>7, FaithStep

\* The new process built none of the snapshots that are about.
LEMMA FaithRestart == ASSUME TypeOK, FaithInv, ServerRestart PROVE FaithInv'
<1>1. /\ model' = disk.model /\ revision' = disk.revision /\ UNCHANGED <<disk, baseline>>
      /\ inc' = inc + 1 /\ served' = <<>> /\ cache' = InvalidatedCache
  BY DEF ServerRestart, workerVars
<1>2. LogInv'
  BY <1>1, FaithParts DEF LogInv, InvalidatedCache
<1>3. \A s \in Snapshots : Genuine(s) => Genuine(s)'
  <2> SUFFICES ASSUME NEW s \in Snapshots, Genuine(s) PROVE Genuine(s)'
    OBVIOUS
  <2>1. s.inc \in Nat /\ inc \in Nat /\ s.inc <= inc
    BY DEF Genuine, Dated, TypeOK, Snapshots
  <2>2. s.inc <= inc' /\ s.inc # inc'
    BY <1>1, <2>1
  <2> QED BY <2>2 DEF Genuine, Dated, Faithful
<1>4. \A c \in Conns : /\ conn'[c].reply \in {conn[c].reply, NoSnapshot}
                       /\ conn'[c].basis \in {conn[c].basis, NoSnapshot}
  <2> SUFFICES ASSUME NEW c \in Conns
               PROVE  /\ conn'[c].reply \in {conn[c].reply, NoSnapshot}
                      /\ conn'[c].basis \in {conn[c].basis, NoSnapshot}
    OBVIOUS
  <2> DEFINE t == [conn[c] EXCEPT !.phase = "closed"]
  <2>1. conn'[c] = t \/ conn'[c] = FreeSession
    BY DEF ServerRestart
  <2>2. t.reply = conn[c].reply /\ t.basis = conn[c].basis
    BY KeptFields DEF TypeOK
  <2> HIDE DEF t
  <2> QED BY <2>1, <2>2, FreeFields
<1>5. \A s : Held(s)' => Held(s) \/ s = NoSnapshot
  BY <1>1, <1>4 DEF Held
<1>6. \A s : s = NoSnapshot => Genuine(s)'
  BY <1>3, NoSnapshotGenuine, NoSnapshotType
<1> QED BY <1>2, <1>3, <1>5, <1>6, FaithStep

-----------------------------------------------------------------------------
\* Whatever the worker adopts is the reply, or the reply marked inexact.
LEMMA FaithAdopt == ASSUME TypeOK, FaithInv, NEW w \in Workers, Adopt(w) PROVE FaithInv'
<1> DEFINE r == conn[call[w]].reply
           b == Rebuilt(baseline[w], conn[call[w]].base, r)
<1>0. call[w] \in Conns /\ conn[call[w]] \in Sessions /\ LogInv
  BY FaithParts DEF Adopt, TypeOK
<1>1. /\ UNCHANGED <<model, revision, cache, disk, inc, served>>
      /\ baseline' = [baseline EXCEPT ![w] = b]
  BY DEF Adopt, serverVars
<1>2. \A s \in Snapshots : Genuine(s) => Genuine(s)'
  BY <1>1, GenuineKept
<1>3. r \in Snapshots /\ Genuine(r)
  BY <1>0, FaithParts DEF Held, Sessions
<1>4. PICK s : s = b
  OBVIOUS
<1>5. s \in Snapshots /\ Genuine(s)
  BY <1>3, <1>4 DEF Rebuilt, Snapshots, Genuine, Dated, Faithful
<1>6. conn'[call[w]] = FreeSession /\ \A d \in Conns \ {call[w]} : conn'[d] = conn[d]
  BY <1>0 DEF Adopt, Become, TypeOK
<1>7. baseline'[w] = s /\ \A v \in Workers \ {w} : baseline'[v] = baseline[v]
  <2> HIDE DEF b
  <2> QED BY <1>1, <1>4 DEF TypeOK
<1>8. \A u : Held(u)' => Held(u) \/ u = NoSnapshot \/ u = s
  BY <1>0, <1>1, <1>6, <1>7, FreeFields DEF Held
<1>9. \A u : u = NoSnapshot \/ u = s => Genuine(u)'
  BY <1>2, <1>5, NoSnapshotGenuine, NoSnapshotType
<1>10. LogInv'
  BY <1>0, <1>1 DEF LogInv
<1> QED BY <1>2, <1>8, <1>9, <1>10, FaithStep

\* Every other step of a worker only drops or copies snapshots.
LEMMA FaithWorker ==
  ASSUME TypeOK, FaithInv, NEW w \in Workers,
         \/ RetryBusy(w) \/ CallFails(w) \/ CallTimesOut(w) \/ WorkerRestart(w)
         \/ \E c \in Conns : StartPush(w, c) \/ StartPull(w, c)
  PROVE  FaithInv'
<1>0. LogInv
  BY FaithParts
<1>1. /\ UNCHANGED <<model, revision, cache, disk, inc, served>>
      /\ \A v \in Workers : baseline'[v] \in {baseline[v], NoSnapshot}
  BY DEF RetryBusy, CallFails, CallTimesOut, DropExchange, WorkerRestart, StartPush, StartPull,
         Request, serverVars, TypeOK
<1>2. \A s \in Snapshots : Genuine(s) => Genuine(s)'
  BY <1>1, GenuineKept
<1>3. \A d \in Conns : /\ conn'[d].reply \in {conn[d].reply, NoSnapshot}
                       /\ conn'[d].basis \in {conn[d].basis, NoSnapshot, baseline[w]}
  <2>1. CASE RetryBusy(w)
    <3> DEFINE t == [conn[call[w]] EXCEPT !.phase = "sent"]
    <3>1. Become(call[w], t) /\ call[w] \in Conns
      BY <2>1 DEF RetryBusy, TypeOK
    <3>2. t.reply = conn[call[w]].reply /\ t.basis = conn[call[w]].basis
      BY <3>1, KeptFields DEF TypeOK
    <3> HIDE DEF t
    <3> QED BY <3>1, <3>2, BecomeValue
  <2>2. CASE CallFails(w) \/ CallTimesOut(w)
    <3>1. call[w] \in Conns /\ (Become(call[w], FreeSession) \/ Become(call[w], conn[call[w]]))
      BY <2>2 DEF CallFails, CallTimesOut, TypeOK
    <3> QED BY <3>1, BecomeValue, FreeFields
  <2>3. CASE WorkerRestart(w)
    BY <2>3, FreeFields DEF WorkerRestart
  <2>4. ASSUME NEW c \in Conns, StartPush(w, c) \/ StartPull(w, c)
        PROVE  \A d \in Conns : /\ conn'[d].reply \in {conn[d].reply, NoSnapshot}
                                /\ conn'[d].basis \in {conn[d].basis, NoSnapshot, baseline[w]}
    <3> DEFINE t(n) == [FreeSession EXCEPT !.phase = "sent", !.worker = w, !.push = n,
                                           !.basis = baseline[w], !.offer = OffersDelta(w)]
    <3>1. Become(c, t(0)) \/ Become(c, t(pushes[w] + 1))
      BY <2>4 DEF StartPush, StartPull, Request
    <3>2. \A n : t(n).reply = NoSnapshot /\ t(n).basis = baseline[w]
      BY FreeSessionType, FreeFields DEF Sessions
    <3> HIDE DEF t
    <3> QED BY <3>1, <3>2, BecomeValue
  <2> QED BY <2>1, <2>2, <2>3, <2>4
<1>4. \A s : Held(s)' => Held(s) \/ s = NoSnapshot
  BY <1>1, <1>3 DEF Held
<1>5. \A s : s = NoSnapshot => Genuine(s)'
  BY <1>2, NoSnapshotGenuine, NoSnapshotType
<1>6. LogInv'
  BY <1>0, <1>1 DEF LogInv
<1> QED BY <1>2, <1>4, <1>5, <1>6, FaithStep

LEMMA FaithInit == Init => FaithInv
  BY NoSnapshotGenuine, TypeInit, FreeFields DEF Init, FaithInv

LEMMA FaithNext == TypeOK /\ FaithInv /\ [Next]_vars => FaithInv'
<1> SUFFICES ASSUME TypeOK, FaithInv, [Next]_vars PROVE FaithInv'
  OBVIOUS
<1>1. CASE UNCHANGED vars
  BY <1>1 DEF vars, serverVars, workerVars, FaithInv, Genuine, Dated, Faithful, IsPast
<1>2. ASSUME NEW w \in Workers, NEW c \in Conns, StartPush(w, c) \/ StartPull(w, c)
      PROVE  FaithInv'
  BY <1>2, FaithWorker
<1>3. ASSUME NEW c \in Conns, ServerStep(c) \/ FailSession(c) PROVE FaithInv'
  BY <1>3, FaithSession, FaithNoCommit, FaithPush, FaithSend DEF ServerStep
<1>4. ASSUME NEW w \in Workers, WorkerStep(w) \/ CallTimesOut(w) \/ WorkerRestart(w)
      PROVE  FaithInv'
  BY <1>4, FaithAdopt, FaithWorker DEF WorkerStep
<1>5. CASE ServerRestart
  BY <1>5, FaithRestart
<1> QED BY <1>1, <1>2, <1>3, <1>4, <1>5 DEF Next

\* A snapshot handed out by the present server process, whether in a reply,
\* in the delta ring or with a worker, is the model at its revision.
THEOREM SnapshotsFaithful == Spec => []SnapshotFaithful
<1>1. FaithInv => SnapshotFaithful
  BY DEF FaithInv, SnapshotFaithful, Genuine
<1> QED BY <1>1, TypeInit, TypeNext, FaithInit, FaithNext, PTL DEF Spec

\* Only a push whose baseline an earlier server process handed out is ever
\* rejected as stale.
THEOREM RejectedAfterRestore == Spec => []RejectOnlyAfterRestore
<1>1. TypeOK /\ FaithInv => RejectOnlyAfterRestore
  <2> SUFFICES ASSUME TypeOK, FaithInv, NEW c \in Conns, Stale(c)
               PROVE  conn[c].basis.inc < inc
    BY DEF RejectOnlyAfterRestore
  <2>1. /\ conn[c].basis.revision \in Nat /\ conn[c].basis.inc \in Nat
        /\ revision \in Nat /\ inc \in Nat
    BY DEF TypeOK, Sessions, Snapshots
  <2>2. Dated(conn[c].basis)
    BY DEF FaithInv, Genuine
  <2> QED BY <2>1, <2>2 DEF Dated, Stale
<1> QED BY <1>1, TypeInit, TypeNext, FaithInit, FaithNext, PTL DEF Spec

-----------------------------------------------------------------------------
(***************************************************************************)
(* What workers hold stays close to the model: a baseline never goes back, *)
(* a wrong one is refreshed in time, deltas fit the baselines they are     *)
(* added to, and the checkpoint is not far behind.                         *)
(***************************************************************************)

(* What a step does to a session. *)

LEMMA MovedValues ==
  ASSUME NEW s \in Sessions, NEW p
  PROVE  LET t == [s EXCEPT !.phase = p] IN
         /\ t.phase = p /\ t.worker = s.worker /\ t.basis = s.basis /\ t.offer = s.offer
         /\ t.base = s.base /\ t.reply = s.reply
  BY DEF Sessions

LEMMA AnswerValues ==
  ASSUME NEW s \in Sessions, NEW p, NEW r
  PROVE  /\ LET t == [s EXCEPT !.phase = p, !.reply = r] IN
            /\ t.phase = p /\ t.worker = s.worker /\ t.basis = s.basis /\ t.offer = s.offer
            /\ t.base = s.base /\ t.reply = r
         /\ LET t == [s EXCEPT !.phase = p, !.applied = TRUE, !.reply = r] IN
            /\ t.phase = p /\ t.worker = s.worker /\ t.basis = s.basis /\ t.offer = s.offer
            /\ t.base = s.base /\ t.reply = r
  BY DEF Sessions

LEMMA EncodeValues ==
  ASSUME NEW s \in Sessions, NEW p, NEW b
  PROVE  LET t == [s EXCEPT !.phase = p, !.base = b] IN
         /\ t.phase = p /\ t.worker = s.worker /\ t.basis = s.basis /\ t.offer = s.offer
         /\ t.base = b /\ t.reply = s.reply
  BY DEF Sessions

\* A session that only moves on, or ends.
Moved(c) ==
  \/ conn'[c] = FreeSession /\ ~Waiting(c)
  \/ \E p \in Phases \ {"free"} :
       /\ conn'[c] = [conn[c] EXCEPT !.phase = p]
       /\ p \in Replied => conn[c].phase \in Replied

\* A session that is answered: with a snapshot of the present revision.
AnsweredWith(c, p, r) ==
  /\ \/ conn'[c] = [conn[c] EXCEPT !.phase = p, !.reply = r]
     \/ conn'[c] = [conn[c] EXCEPT !.phase = p, !.applied = TRUE, !.reply = r]
  /\ r.exact /\ r.inc = inc /\ r.revision = revision' /\ revision' >= revision

Replies(c) == \E p \in {"saving", "ready"}, r \in Snapshots : AnsweredWith(c, p, r)

\* A session whose reply is encoded against what the ring holds.
Encodes(c) ==
  \E b \in Snapshots :
    /\ conn[c].phase \in Replied
    /\ conn'[c] = [conn[c] EXCEPT !.phase = "encoded", !.base = b]
    /\ \/ b = NoSnapshot
       \/ /\ conn[c].offer
          /\ \E i \in DOMAIN served : b = served[i] /\ b.revision = conn[c].basis.revision

LEMMA MovedStep ==
  ASSUME TypeOK, NEW c \in Conns,
         Admit(c) \/ AnswerBusy(c) \/ FailSession(c) \/ SaveCheckpoint(c) \/ SendReply(c)
  PROVE  /\ Moved(c) /\ \A d \in Conns \ {c} : conn'[d] = conn[d]
         /\ UNCHANGED <<model, revision, inc, lastCkpt, workerVars>>
<1>1. UNCHANGED <<model, revision, inc, lastCkpt, workerVars>>
  BY DEF Admit, AnswerBusy, FailSession, SaveCheckpoint, SendReply, serverVars
<1>2. ASSUME NEW s, Become(c, s)
      PROVE  conn'[c] = s /\ \A d \in Conns \ {c} : conn'[d] = conn[d]
  BY <1>2, BecomeValue
<1>3. \E s : /\ Become(c, s)
             /\ \/ s = FreeSession /\ ~Waiting(c)
                \/ \E p \in Phases \ {"free"} :
                     /\ s = [conn[c] EXCEPT !.phase = p]
                     /\ p \in Replied => conn[c].phase \in Replied
  <2>1. CASE Admit(c)
    BY <2>1 DEF Admit, Phases, Replied
  <2>2. CASE AnswerBusy(c)
    BY <2>2 DEF AnswerBusy, Phases, Replied
  <2>3. CASE FailSession(c)
    BY <2>3 DEF FailSession, Phases, Replied
  <2>4. CASE SaveCheckpoint(c)
    BY <2>4 DEF SaveCheckpoint, InPhase, Phases, Replied
  <2>5. CASE SendReply(c)
    BY <2>5 DEF SendReply, Finished, InPhase, Phases, Replied
  <2> QED BY <2>1, <2>2, <2>3, <2>4, <2>5
<1> QED BY <1>1, <1>2, <1>3 DEF Moved

LEMMA ReplyStep ==
  ASSUME TypeOK, NEW c \in Conns, HandlePull(c) \/ HandleStalePush(c) \/ HandlePush(c)
  PROVE  /\ Replies(c) /\ \A d \in Conns \ {c} : conn'[d] = conn[d]
         /\ UNCHANGED <<inc, workerVars, served, disk>>
<1>0. /\ conn[c].worker \in Workers /\ revision \in Nat /\ inc \in Nat
      /\ cache \in Caches /\ InvalidatedCache \in Caches /\ PushOf(c) \in Pushes
      /\ DefaultVariant \in Variants
  BY InvalidatedCacheType, ConstAssumption DEF TypeOK, Sessions, Caches, PushOf, Pushes
<1>1. UNCHANGED <<inc, workerVars, served, disk>>
  BY DEF HandlePull, HandleStalePush, HandlePush
<1>2. ASSUME NEW s, Become(c, s)
      PROVE  conn'[c] = s /\ \A d \in Conns \ {c} : conn'[d] = conn[d]
  BY <1>2, BecomeValue
<1>3. CASE HandlePull(c)
  <2>1. PICK v : v = VariantOf[conn[c].worker]
    OBVIOUS
  <2>2. PICK r : r = Snapshot(v, model, revision, cache)
    OBVIOUS
  <2>3. r \in Snapshots
    BY <1>0, <2>1, <2>2, SnapshotType, ConstAssumption DEF TypeOK
  <2>4. r.exact /\ r.inc = inc /\ r.revision = revision
    BY <2>2 DEF Snapshot
  <2>5. Become(c, [conn[c] EXCEPT !.phase = "ready", !.reply = r]) /\ revision' = revision
    BY <1>3, <2>1, <2>2 DEF HandlePull
  <2>6. conn'[c] = [conn[c] EXCEPT !.phase = "ready", !.reply = r]
        /\ \A d \in Conns \ {c} : conn'[d] = conn[d]
    BY <1>2, <2>5
  <2>7. AnsweredWith(c, "ready", r)
    BY <1>0, <2>4, <2>5, <2>6 DEF AnsweredWith
  <2> QED BY <1>1, <2>3, <2>6, <2>7 DEF Replies
<1>4. CASE HandleStalePush(c)
  <2>2. PICK r : r = Snapshot(DefaultVariant, model, revision, cache)
    OBVIOUS
  <2>3. r \in Snapshots
    BY <1>0, <2>2, SnapshotType DEF TypeOK
  <2>4. r.exact /\ r.inc = inc /\ r.revision = revision
    BY <2>2 DEF Snapshot
  <2>5. Become(c, [conn[c] EXCEPT !.phase = "ready", !.reply = r]) /\ revision' = revision
    BY <1>4, <2>2 DEF HandleStalePush
  <2>6. conn'[c] = [conn[c] EXCEPT !.phase = "ready", !.reply = r]
        /\ \A d \in Conns \ {c} : conn'[d] = conn[d]
    BY <1>2, <2>5
  <2>7. AnsweredWith(c, "ready", r)
    BY <1>0, <2>4, <2>5, <2>6 DEF AnsweredWith
  <2> QED BY <1>1, <2>3, <2>6, <2>7 DEF Replies
<1>5. CASE HandlePush(c)
  <2>1. PICK v, m : v = VariantOf[conn[c].worker] /\ m = Append(model, PushOf(c))
    OBVIOUS
  <2>2. PICK r : r = Snapshot(v, m, revision + 1, InvalidatedCache)
    OBVIOUS
  <2>a. m \in Seq(Pushes) /\ v \in Variants /\ revision + 1 \in Nat
    BY <1>0, <2>1, ConstAssumption DEF TypeOK
  <2>3. r \in Snapshots
    BY <1>0, <2>a, <2>2, SnapshotType
  <2>4. r.exact /\ r.inc = inc /\ r.revision = revision + 1
    BY <2>2 DEF Snapshot
  <2>5. PICK p \in {"saving", "ready"} : p = IF CheckpointDue THEN "saving" ELSE "ready"
    OBVIOUS
  <2>6. Become(c, [conn[c] EXCEPT !.phase = p, !.applied = TRUE, !.reply = r])
        /\ revision' = revision + 1
    BY <1>5, <2>1, <2>2, <2>5 DEF HandlePush
  <2>7. conn'[c] = [conn[c] EXCEPT !.phase = p, !.applied = TRUE, !.reply = r]
        /\ \A d \in Conns \ {c} : conn'[d] = conn[d]
    BY <1>2, <2>6
  <2>8. AnsweredWith(c, p, r)
    BY <1>0, <2>4, <2>6, <2>7 DEF AnsweredWith
  <2> QED BY <1>1, <2>3, <2>7, <2>8 DEF Replies
<1> QED BY <1>3, <1>4, <1>5

LEMMA EncodeStep ==
  ASSUME TypeOK, NEW c \in Conns, EncodeReply(c)
  PROVE  /\ Encodes(c) /\ \A d \in Conns \ {c} : conn'[d] = conn[d]
         /\ UNCHANGED <<serverVars, workerVars>>
<1> DEFINE held == RetainedAt(conn[c].basis.revision)
<1>1. PICK b : b = IF conn[c].offer /\ held # {} THEN served[CHOOSE i \in held : TRUE]
                                                 ELSE NoSnapshot
  OBVIOUS
<1>2. Become(c, [conn[c] EXCEPT !.phase = "encoded", !.base = b]) /\ conn[c].phase \in Replied
  BY <1>1 DEF EncodeReply, InPhase, Replied
<1>3. b = NoSnapshot \/ (conn[c].offer /\ \E i \in held : b = served[i])
  BY <1>1
<1>4. \A i \in held : /\ i \in DOMAIN served /\ served[i] \in Snapshots
                      /\ served[i].revision = conn[c].basis.revision
  BY DEF RetainedAt, TypeOK
<1>5. UNCHANGED <<serverVars, workerVars>>
  BY DEF EncodeReply
<1> HIDE DEF held
<1>6. b \in Snapshots
  BY <1>3, <1>4, NoSnapshotType
<1>7. conn'[c] = [conn[c] EXCEPT !.phase = "encoded", !.base = b]
      /\ \A d \in Conns \ {c} : conn'[d] = conn[d]
  BY <1>2, BecomeValue
<1> QED BY <1>2, <1>3, <1>4, <1>5, <1>6, <1>7 DEF Encodes

LEMMA ServerSteps ==
  ASSUME TypeOK, NEW c \in Conns, ServerStep(c) \/ FailSession(c)
  PROVE  /\ Moved(c) \/ Replies(c) \/ Encodes(c)
         /\ \A d \in Conns \ {c} : conn'[d] = conn[d]
         /\ UNCHANGED <<inc, workerVars>>
  BY MovedStep, ReplyStep, EncodeStep DEF ServerStep, serverVars

\* The caller's fields of a session last as long as somebody waits on it.
LEMMA CallerKept ==
  ASSUME TypeOK, NEW c \in Conns, Moved(c) \/ Replies(c) \/ Encodes(c), Waiting(c)
  PROVE  /\ conn'[c].phase # "free" /\ conn'[c].worker = conn[c].worker
         /\ conn'[c].basis = conn[c].basis /\ conn'[c].offer = conn[c].offer
<1>0. conn[c] \in Sessions
  BY DEF TypeOK
<1>1. CASE Moved(c)
  <2>1. PICK p \in Phases \ {"free"} : conn'[c] = [conn[c] EXCEPT !.phase = p]
    BY <1>1 DEF Moved
  <2>2. p # "free"
    OBVIOUS
  <2> QED BY <1>0, <2>1, <2>2, MovedValues
<1>2. CASE Replies(c)
  <2>1. PICK p \in {"saving", "ready"}, r \in Snapshots : AnsweredWith(c, p, r)
    BY <1>2 DEF Replies
  <2>2. p # "free"
    OBVIOUS
  <2>3. CASE conn'[c] = [conn[c] EXCEPT !.phase = p, !.reply = r]
    BY <1>0, <2>2, <2>3, AnswerValues
  <2>4. CASE conn'[c] = [conn[c] EXCEPT !.phase = p, !.applied = TRUE, !.reply = r]
    BY <1>0, <2>2, <2>4, AnswerValues
  <2> QED BY <2>1, <2>3, <2>4 DEF AnsweredWith
<1>3. CASE Encodes(c)
  <2>1. PICK b \in Snapshots : conn'[c] = [conn[c] EXCEPT !.phase = "encoded", !.base = b]
    BY <1>3 DEF Encodes
  <2> QED BY <1>0, <2>1, EncodeValues
<1> QED BY <1>1, <1>2, <1>3

-----------------------------------------------------------------------------
(* The session a worker waits on is its own. *)

\* Two workers never wait on one session.
LEMMA OwnCall ==
  ASSUME CallInv, NEW v \in Workers, NEW w \in Workers, v # w, call[w] # NoConn
  PROVE  call[v] # call[w]
  BY DEF CallInv

\* A step that ends the call of w and touches no session another worker waits on.
LEMMA CallEnds ==
  ASSUME TypeOK, CallInv, NEW w \in Workers, EndCall(w),
         \A v \in Workers \ {w} : baseline'[v] = baseline[v] /\ deltas'[v] = deltas[v],
         \A d \in Conns : d # call[w] => conn'[d] = conn[d]
  PROVE  CallInv'
<1>1. call'[w] = NoConn /\ \A v \in Workers \ {w} : call'[v] = call[v]
  BY DEF EndCall, TypeOK
<1>2. \A v \in Workers \ {w} : call[v] # NoConn => call[v] \in Conns /\ call[v] # call[w]
  BY OwnCall DEF TypeOK
<1> QED BY <1>1, <1>2 DEF CallInv

LEMMA CallRequest ==
  ASSUME TypeOK, CallInv, NEW w \in Workers, NEW c \in Conns, NEW n, Request(w, c, n)
  PROVE  CallInv'
<1> DEFINE t == [FreeSession EXCEPT !.phase = "sent", !.worker = w, !.push = n,
                                    !.basis = baseline[w], !.offer = OffersDelta(w)]
<1>1. conn'[c] = t /\ \A d \in Conns \ {c} : conn'[d] = conn[d]
  <2>1. Become(c, t)
    BY DEF Request
  <2> HIDE DEF t
  <2> QED BY <2>1, BecomeValue
<1>2. t.phase = "sent" /\ t.worker = w /\ t.basis = baseline[w] /\ t.offer = OffersDelta(w)
  BY FreeSessionType DEF Sessions
<1>3. /\ UNCHANGED <<baseline, deltas>> /\ conn[c].phase = "free"
      /\ call' = [call EXCEPT ![w] = c]
  BY DEF Request, InPhase
<1> HIDE DEF t
<1>4. call'[w] = c /\ \A v \in Workers \ {w} : call'[v] = call[v]
  BY <1>3 DEF TypeOK
<1>5. \A v \in Workers : call[v] # NoConn => call[v] \in Conns \ {c}
  BY <1>3 DEF CallInv, TypeOK
<1>6. OffersDelta(w) => deltas[w] < DeltaRefresh
  BY DEF OffersDelta
<1>7. ASSUME NEW v \in Workers, call'[v] # NoConn
      PROVE  LET s == conn'[call'[v]] IN
             /\ s.phase # "free" /\ s.worker = v /\ s.basis = baseline'[v]
             /\ s.offer => deltas'[v] < DeltaRefresh
  <2>1. CASE v = w
    BY <1>1, <1>2, <1>3, <1>4, <1>6, <2>1
  <2>2. CASE v # w
    BY <1>1, <1>3, <1>4, <1>5, <1>7, <2>2 DEF CallInv
  <2> QED BY <2>1, <2>2
<1> QED BY <1>7 DEF CallInv

LEMMA CallServer ==
  ASSUME TypeOK, CallInv, NEW c \in Conns, ServerStep(c) \/ FailSession(c)
  PROVE  CallInv'
<1>1. /\ Moved(c) \/ Replies(c) \/ Encodes(c)
      /\ \A d \in Conns \ {c} : conn'[d] = conn[d]
      /\ UNCHANGED <<baseline, deltas, call>>
  BY ServerSteps DEF workerVars
<1>2. ASSUME NEW w \in Workers, call[w] # NoConn
      PROVE  /\ conn'[call[w]].phase # "free" /\ conn'[call[w]].worker = conn[call[w]].worker
             /\ conn'[call[w]].basis = conn[call[w]].basis
             /\ conn'[call[w]].offer = conn[call[w]].offer
  <2>1. CASE call[w] = c
    BY <1>1, <2>1, CallerKept DEF Waiting
  <2>2. CASE call[w] # c
    BY <1>1, <1>2, <2>2 DEF CallInv, TypeOK
  <2> QED BY <2>1, <2>2
<1> QED BY <1>1, <1>2 DEF CallInv

LEMMA CallWorker ==
  ASSUME TypeOK, CallInv, NEW w \in Workers,
         WorkerStep(w) \/ CallTimesOut(w) \/ WorkerRestart(w)
  PROVE  CallInv'
<1>1. CASE Adopt(w)
  <2>1. \A d \in Conns : d # call[w] => conn'[d] = conn[d]
    BY <1>1 DEF Adopt, Become, TypeOK
  <2>2. \A v \in Workers \ {w} : baseline'[v] = baseline[v] /\ deltas'[v] = deltas[v]
    BY <1>1 DEF Adopt, TypeOK
  <2>3. EndCall(w)
    BY <1>1 DEF Adopt
  <2> QED BY <2>1, <2>2, <2>3, CallEnds
<1>2. CASE RetryBusy(w)
  <2>1. call[w] \in Conns /\ conn[call[w]] \in Sessions /\ UNCHANGED <<baseline, deltas, call>>
    BY <1>2 DEF RetryBusy, TypeOK
  <2>2. PICK t : t = [conn[call[w]] EXCEPT !.phase = "sent"]
    OBVIOUS
  <2>3. conn'[call[w]] = t /\ \A d \in Conns \ {call[w]} : conn'[d] = conn[d]
    <3>1. Become(call[w], t)
      BY <1>2, <2>2 DEF RetryBusy
    <3> QED BY <2>1, <3>1, BecomeValue
  <2>4. /\ t.phase = "sent" /\ t.worker = conn[call[w]].worker
        /\ t.basis = conn[call[w]].basis /\ t.offer = conn[call[w]].offer
    BY <2>1, <2>2, MovedValues
  <2> QED BY <2>1, <2>3, <2>4 DEF CallInv, TypeOK
<1>3. CASE CallFails(w) \/ CallTimesOut(w)
  <2>1. \A d \in Conns : d # call[w] => conn'[d] = conn[d]
    BY <1>3 DEF CallFails, CallTimesOut, Become, TypeOK
  <2>2. EndCall(w) /\ UNCHANGED <<baseline, deltas>>
    BY <1>3 DEF CallFails, CallTimesOut, DropExchange
  <2> QED BY <2>1, <2>2, CallEnds
<1>4. CASE WorkerRestart(w)
  <2>1. \A d \in Conns : d # call[w] => conn'[d] = conn[d]
    BY <1>4 DEF WorkerRestart
  <2>2. EndCall(w) /\ \A v \in Workers \ {w} : baseline'[v] = baseline[v] /\ deltas'[v] = deltas[v]
    BY <1>4 DEF WorkerRestart, TypeOK
  <2> QED BY <2>1, <2>2, CallEnds
<1> QED BY <1>1, <1>2, <1>3, <1>4 DEF WorkerStep

LEMMA CallRestart == ASSUME TypeOK, CallInv, ServerRestart PROVE CallInv'
<1>1. UNCHANGED <<baseline, deltas, call>>
  BY DEF ServerRestart, workerVars
<1>2. ASSUME NEW w \in Workers, call[w] # NoConn
      PROVE  /\ conn'[call[w]].phase # "free" /\ conn'[call[w]].worker = conn[call[w]].worker
             /\ conn'[call[w]].basis = conn[call[w]].basis
             /\ conn'[call[w]].offer = conn[call[w]].offer
  <2>1. call[w] \in Conns /\ conn[call[w]] \in Sessions /\ Waiting(call[w])
    BY <1>2 DEF TypeOK, Waiting
  <2>2. conn'[call[w]] = [conn[call[w]] EXCEPT !.phase = "closed"]
    BY <2>1 DEF ServerRestart
  <2> QED BY <2>1, <2>2, MovedValues
<1> QED BY <1>1, <1>2 DEF CallInv

LEMMA CallNext == TypeOK /\ CallInv /\ [Next]_vars => CallInv'
<1> SUFFICES ASSUME TypeOK, CallInv, [Next]_vars PROVE CallInv'
  OBVIOUS
<1>1. CASE UNCHANGED vars
  BY <1>1 DEF vars, workerVars, CallInv
<1>2. ASSUME NEW w \in Workers, NEW c \in Conns, StartPush(w, c) \/ StartPull(w, c)
      PROVE  CallInv'
  BY <1>2, CallRequest DEF StartPush, StartPull
<1>3. ASSUME NEW c \in Conns, ServerStep(c) \/ FailSession(c) PROVE CallInv'
  BY <1>3, CallServer
<1>4. ASSUME NEW w \in Workers, WorkerStep(w) \/ CallTimesOut(w) \/ WorkerRestart(w)
      PROVE  CallInv'
  BY <1>4, CallWorker
<1>5. CASE ServerRestart
  BY <1>5, CallRestart
<1> QED BY <1>1, <1>2, <1>3, <1>4, <1>5 DEF Next

-----------------------------------------------------------------------------
(* A reply is at least as new as what the worker held when it asked. *)

LEMMA FreeSessionGood == GoodSession(FreeSession)
  BY DEF GoodSession, FreeSession, NoSnapshot, Real, Replied

\* The session of a step stays a good one.
LEMMA GoodKept ==
  ASSUME TypeOK, FaithInv, NEW c \in Conns, GoodSession(conn[c]),
         Moved(c) \/ Replies(c) \/ Encodes(c)
  PROVE  GoodSession(conn'[c])
<1>0. conn[c] \in Sessions
  BY DEF TypeOK
<1>1. CASE conn'[c] = FreeSession
  BY <1>1, FreeSessionGood
<1>2. ASSUME NEW p \in Phases, conn'[c] = [conn[c] EXCEPT !.phase = p],
             p \in Replied => conn[c].phase \in Replied
      PROVE  GoodSession(conn'[c])
  BY <1>0, <1>2, MovedValues DEF GoodSession
<1>3. CASE Moved(c)
  BY <1>1, <1>2, <1>3 DEF Moved
<1>4. CASE Replies(c)
  <2>1. PICK p \in {"saving", "ready"}, r \in Snapshots : AnsweredWith(c, p, r)
    BY <1>4 DEF Replies
  <2>2. /\ conn'[c].basis = conn[c].basis /\ conn'[c].offer = conn[c].offer
        /\ conn'[c].base = conn[c].base /\ conn'[c].reply = r
    <3>1. CASE conn'[c] = [conn[c] EXCEPT !.phase = p, !.reply = r]
      BY <1>0, <3>1, AnswerValues
    <3>2. CASE conn'[c] = [conn[c] EXCEPT !.phase = p, !.applied = TRUE, !.reply = r]
      BY <1>0, <3>2, AnswerValues
    <3> QED BY <2>1, <3>1, <3>2 DEF AnsweredWith
  <2>3. r.exact /\ r.inc = inc /\ r.revision = revision' /\ revision' >= revision
    BY <2>1 DEF AnsweredWith
  <2>4. Dated(conn[c].basis)
    BY DEF FaithInv, Genuine
  <2>5. /\ inc # 0 /\ revision \in Nat /\ conn[c].basis.revision \in Nat
        /\ r.revision \in Nat
    BY <1>0 DEF TypeOK, Sessions, Snapshots
  <2>6. r.inc = conn[c].basis.inc => r.revision >= conn[c].basis.revision
    BY <2>3, <2>4, <2>5 DEF Dated
  <2> QED BY <2>2, <2>3, <2>5, <2>6 DEF GoodSession
<1>5. CASE Encodes(c)
  <2>1. PICK b \in Snapshots :
          /\ conn[c].phase \in Replied
          /\ conn'[c] = [conn[c] EXCEPT !.phase = "encoded", !.base = b]
          /\ b = NoSnapshot \/ conn[c].offer
    BY <1>5 DEF Encodes
  <2>2. /\ conn'[c].basis = conn[c].basis /\ conn'[c].offer = conn[c].offer
        /\ conn'[c].base = b /\ conn'[c].reply = conn[c].reply
    BY <1>0, <2>1, EncodeValues
  <2> QED BY <2>1, <2>2 DEF GoodSession
<1> QED BY <1>3, <1>4, <1>5

LEMMA ReplyServer ==
  ASSUME TypeOK, FaithInv, ReplyInv, NEW c \in Conns, ServerStep(c) \/ FailSession(c)
  PROVE  ReplyInv'
<1>1. /\ Moved(c) \/ Replies(c) \/ Encodes(c)
      /\ \A d \in Conns \ {c} : conn'[d] = conn[d]
      /\ UNCHANGED baseline
  BY ServerSteps DEF workerVars
<1>2. \A d \in Conns : GoodSession(conn'[d])
  BY <1>1, GoodKept DEF ReplyInv
<1>3. \A i \in DOMAIN served' : served'[i].exact /\ served'[i].inc # 0
  <2>1. CASE SendReply(c)
    <3>1. conn[c].reply \in Snapshots /\ served \in Seq(Snapshots)
      BY DEF TypeOK, Sessions
    <3>2. served' = Retain(conn[c].reply) /\ conn[c].phase \in Replied
      BY <2>1 DEF SendReply, InPhase, Replied
    <3>3. conn[c].reply.exact /\ conn[c].reply.inc # 0
      BY <3>2 DEF ReplyInv, GoodSession
    <3> QED BY <3>1, <3>2, <3>3, RetainType DEF ReplyInv
  <2>2. CASE ~SendReply(c)
    <3>1. UNCHANGED served
      BY <2>2 DEF ServerStep, Admit, AnswerBusy, FailSession, HandlePull, HandleStalePush,
                  HandlePush, SaveCheckpoint, EncodeReply, serverVars
    <3> QED BY <3>1 DEF ReplyInv
  <2> QED BY <2>1, <2>2
<1> QED BY <1>1, <1>2, <1>3 DEF ReplyInv

LEMMA ReplyWorker ==
  ASSUME TypeOK, ReplyInv, NEW w \in Workers,
         \/ WorkerStep(w) \/ CallTimesOut(w) \/ WorkerRestart(w)
         \/ \E c \in Conns : StartPush(w, c) \/ StartPull(w, c)
  PROVE  ReplyInv'
<1>1. UNCHANGED served
  BY DEF WorkerStep, Adopt, RetryBusy, CallFails, CallTimesOut, DropExchange, WorkerRestart,
         StartPush, StartPull, Request, serverVars
<1>2. \A v \in Workers : Real(baseline'[v])
  <2>1. CASE Adopt(w)
    <3>1. call[w] \in Conns /\ conn[call[w]].phase = "answered"
      BY <2>1 DEF Adopt, TypeOK
    <3>2. GoodSession(conn[call[w]]) /\ conn[call[w]].reply.inc # 0
      BY <3>1 DEF ReplyInv, GoodSession, Replied
    <3>3. PICK b : b = Rebuilt(baseline[w], conn[call[w]].base, conn[call[w]].reply)
      OBVIOUS
    <3>4. conn[call[w]].reply \in Snapshots
      BY <3>1 DEF TypeOK, Sessions
    <3>5. b.inc # 0
      BY <3>2, <3>3, <3>4 DEF Rebuilt, Snapshots
    <3>6. baseline' = [baseline EXCEPT ![w] = b]
      BY <2>1, <3>3 DEF Adopt
    <3>7. baseline'[w] = b /\ \A v \in Workers \ {w} : baseline'[v] = baseline[v]
      BY <3>6 DEF TypeOK
    <3> QED BY <3>5, <3>7 DEF ReplyInv, Real
  <2>2. CASE ~Adopt(w)
    <3>1. \A v \in Workers : baseline'[v] \in {baseline[v], NoSnapshot}
      BY <2>2 DEF WorkerStep, RetryBusy, CallFails, CallTimesOut, DropExchange, WorkerRestart,
                  StartPush, StartPull, Request, TypeOK
    <3> QED BY <3>1 DEF ReplyInv, Real
  <2> QED BY <2>1, <2>2
<1>3. \A d \in Conns : GoodSession(conn'[d])
  <2>1. CASE Adopt(w) \/ CallFails(w) \/ CallTimesOut(w) \/ WorkerRestart(w)
    <3>1. \A d \in Conns : conn'[d] \in {conn[d], FreeSession}
      BY <2>1 DEF Adopt, CallFails, CallTimesOut, WorkerRestart, Become, TypeOK
    <3> QED BY <3>1, FreeSessionGood DEF ReplyInv
  <2>2. CASE RetryBusy(w)
    <3>1. call[w] \in Conns /\ conn[call[w]] \in Sessions
      BY <2>2 DEF RetryBusy, TypeOK
    <3>2. PICK t : t = [conn[call[w]] EXCEPT !.phase = "sent"]
      OBVIOUS
    <3>3. conn'[call[w]] = t /\ \A d \in Conns \ {call[w]} : conn'[d] = conn[d]
      <4>1. Become(call[w], t)
        BY <2>2, <3>2 DEF RetryBusy
      <4> QED BY <3>1, <4>1, BecomeValue
    <3>4. GoodSession(t)
      BY <3>1, <3>2, MovedValues DEF ReplyInv, GoodSession, Replied
    <3> QED BY <3>3, <3>4 DEF ReplyInv
  <2>3. ASSUME NEW c \in Conns, StartPush(w, c) \/ StartPull(w, c)
        PROVE  \A d \in Conns : GoodSession(conn'[d])
    <3> DEFINE t(n) == [FreeSession EXCEPT !.phase = "sent", !.worker = w, !.push = n,
                                           !.basis = baseline[w], !.offer = OffersDelta(w)]
    <3>1. Become(c, t(0)) \/ Become(c, t(pushes[w] + 1))
      BY <2>3 DEF StartPush, StartPull, Request
    <3>2. \A n : /\ t(n).phase = "sent" /\ t(n).basis = baseline[w] /\ t(n).offer = OffersDelta(w)
                 /\ t(n).reply = FreeSession.reply /\ t(n).base = FreeSession.base
      BY FreeSessionType DEF Sessions
    <3>3. FreeSession.reply.exact /\ FreeSession.base = NoSnapshot
      BY DEF FreeSession, NoSnapshot
    <3>4. OffersDelta(w) => baseline[w].inc # 0
      BY DEF OffersDelta, HasBaseline
    <3> HIDE DEF t
    <3>5. \A n : GoodSession(t(n))
      BY <3>2, <3>3, <3>4 DEF GoodSession, ReplyInv, Replied
    <3> QED BY <3>1, <3>5, BecomeValue DEF ReplyInv
  <2> QED BY <2>1, <2>2, <2>3 DEF WorkerStep
<1> QED BY <1>1, <1>2, <1>3 DEF ReplyInv

LEMMA ReplyRestart == ASSUME TypeOK, ReplyInv, ServerRestart PROVE ReplyInv'
<1>1. UNCHANGED baseline /\ served' = <<>>
  BY DEF ServerRestart, workerVars
<1>2. ASSUME NEW c \in Conns PROVE GoodSession(conn'[c])
  <2>1. \/ conn'[c] = FreeSession
        \/ conn'[c] = [conn[c] EXCEPT !.phase = "closed"]
    BY DEF ServerRestart
  <2>2. conn[c] \in Sessions /\ GoodSession(conn[c])
    BY DEF TypeOK, ReplyInv
  <2>3. CASE conn'[c] = [conn[c] EXCEPT !.phase = "closed"]
    BY <2>2, <2>3, MovedValues DEF GoodSession, Replied
  <2> QED BY <2>1, <2>3, FreeSessionGood
<1> QED BY <1>1, <1>2 DEF ReplyInv

LEMMA ReplyNext == TypeOK /\ FaithInv /\ ReplyInv /\ [Next]_vars => ReplyInv'
<1> SUFFICES ASSUME TypeOK, FaithInv, ReplyInv, [Next]_vars PROVE ReplyInv'
  OBVIOUS
<1>1. CASE UNCHANGED vars
  BY <1>1 DEF vars, serverVars, workerVars, ReplyInv
<1>2. ASSUME NEW w \in Workers, NEW c \in Conns, StartPush(w, c) \/ StartPull(w, c)
      PROVE  ReplyInv'
  BY <1>2, ReplyWorker
<1>3. ASSUME NEW c \in Conns, ServerStep(c) \/ FailSession(c) PROVE ReplyInv'
  BY <1>3, ReplyServer
<1>4. ASSUME NEW w \in Workers, WorkerStep(w) \/ CallTimesOut(w) \/ WorkerRestart(w)
      PROVE  ReplyInv'
  BY <1>4, ReplyWorker
<1>5. CASE ServerRestart
  BY <1>5, ReplyRestart
<1> QED BY <1>1, <1>2, <1>3, <1>4, <1>5 DEF Next

LEMMA HeldInit == Init => CallInv /\ ReplyInv
  BY FreeSessionGood DEF Init, CallInv, ReplyInv, Real

\* A baseline changes by an adoption, or is dropped.
LEMMA BaselineStep ==
  ASSUME TypeOK, CallInv, ReplyInv, [Next]_vars, NEW w \in Workers,
         baseline'[w].inc = baseline[w].inc
  PROVE  baseline'[w].revision >= baseline[w].revision
<1>0. baseline[w] \in Snapshots /\ baseline[w].revision \in Nat
  BY DEF TypeOK, Snapshots
<1>1. CASE baseline'[w] = baseline[w]
  BY <1>0, <1>1
<1>2. CASE baseline'[w] = NoSnapshot
  BY <1>0, <1>2 DEF ReplyInv, Real, NoSnapshot
<1>3. CASE Adopt(w)
  <2> DEFINE s == conn[call[w]]
  <2>1. call[w] \in Conns /\ s.phase = "answered" /\ s.basis = baseline[w]
    BY <1>3 DEF Adopt, TypeOK, CallInv
  <2>2. s.reply.inc = baseline[w].inc => s.reply.revision >= baseline[w].revision
    BY <2>1 DEF ReplyInv, GoodSession, Replied
  <2>3. s.reply \in Snapshots
    BY <2>1 DEF TypeOK, Sessions
  <2>4. PICK b : b = Rebuilt(baseline[w], s.base, s.reply)
    OBVIOUS
  <2>5. b.inc = s.reply.inc /\ b.revision = s.reply.revision
    BY <2>3, <2>4 DEF Rebuilt, Snapshots
  <2>6. baseline'[w] = b
    BY <1>3, <2>4 DEF Adopt, TypeOK
  <2> QED BY <2>2, <2>5, <2>6
<1>4. baseline'[w] \in {baseline[w], NoSnapshot} \/ Adopt(w)
  <2>1. CASE UNCHANGED vars
    BY <2>1 DEF vars, workerVars
  <2>2. ASSUME NEW v \in Workers, NEW c \in Conns, StartPush(v, c) \/ StartPull(v, c)
        PROVE  baseline'[w] = baseline[w]
    BY <2>2 DEF StartPush, StartPull, Request
  <2>3. ASSUME NEW c \in Conns, ServerStep(c) \/ FailSession(c) PROVE baseline'[w] = baseline[w]
    BY <2>3, ServerSteps DEF workerVars
  <2>4. ASSUME NEW v \in Workers, WorkerStep(v) \/ CallTimesOut(v) \/ WorkerRestart(v)
        PROVE  baseline'[w] \in {baseline[w], NoSnapshot} \/ Adopt(w)
    <3>1. CASE Adopt(v) /\ v # w
      BY <3>1 DEF Adopt, TypeOK
    <3>2. CASE RetryBusy(v) \/ CallFails(v) \/ CallTimesOut(v) \/ WorkerRestart(v)
      BY <3>2 DEF RetryBusy, CallFails, CallTimesOut, DropExchange, WorkerRestart, TypeOK
    <3> QED BY <2>4, <3>1, <3>2 DEF WorkerStep
  <2>5. CASE ServerRestart
    BY <2>5 DEF ServerRestart, workerVars
  <2> QED BY <2>1, <2>2, <2>3, <2>4, <2>5 DEF Next
<1> QED BY <1>1, <1>2, <1>3, <1>4

\* However late a reply is and however often an exchange is repeated, a worker
\* never adopts an older snapshot of the server process it last heard from.
THEOREM BaselinesAdvance == Spec => BaselineAdvances
<1>1. TypeOK /\ CallInv /\ ReplyInv /\ [Next]_vars =>
        [\A w \in Workers :
           baseline'[w].inc = baseline[w].inc => baseline'[w].revision >= baseline[w].revision]_vars
  BY BaselineStep
<1> QED
  BY <1>1, TypeInit, TypeNext, FaithInit, FaithNext, HeldInit, CallNext, ReplyNext, PTL
  DEF Spec, BaselineAdvances

-----------------------------------------------------------------------------
(* A wrong baseline is refreshed in time. *)

LEMMA HoldingStep ==
  ASSUME [Next]_vars
  PROVE  UNCHANGED <<baseline, deltas>> \/ \E w \in Workers : Adopt(w) \/ WorkerRestart(w)
<1>1. CASE UNCHANGED vars
  BY <1>1 DEF vars, workerVars
<1>2. ASSUME NEW w \in Workers, NEW c \in Conns, StartPush(w, c) \/ StartPull(w, c)
      PROVE  UNCHANGED <<baseline, deltas>>
  BY <1>2 DEF StartPush, StartPull, Request
<1>3. ASSUME NEW c \in Conns, ServerStep(c) \/ FailSession(c) PROVE UNCHANGED <<baseline, deltas>>
  BY <1>3 DEF ServerStep, Admit, AnswerBusy, FailSession, HandlePull, HandleStalePush,
              HandlePush, SaveCheckpoint, EncodeReply, SendReply, workerVars
<1>4. ASSUME NEW w \in Workers, WorkerStep(w) \/ CallTimesOut(w)
      PROVE  UNCHANGED <<baseline, deltas>> \/ Adopt(w)
  BY <1>4 DEF WorkerStep, RetryBusy, CallFails, CallTimesOut, DropExchange
<1>5. CASE ServerRestart
  BY <1>5 DEF ServerRestart, workerVars
<1> QED BY <1>1, <1>2, <1>3, <1>4, <1>5 DEF Next

LEMMA SkewNext ==
  ASSUME TypeOK, CallInv, ReplyInv, SkewBounded, [Next]_vars
  PROVE  SkewBounded'
<1>1. CASE UNCHANGED <<baseline, deltas>>
  BY <1>1 DEF SkewBounded
<1>2. ASSUME NEW w \in Workers, WorkerRestart(w) PROVE SkewBounded'
  <2>1. /\ baseline' = [baseline EXCEPT ![w] = NoSnapshot]
        /\ deltas' = [deltas EXCEPT ![w] = 0]
    BY <1>2 DEF WorkerRestart
  <2>2. NoSnapshot.exact = TRUE /\ 0 <= DeltaRefresh
    BY ConstAssumption DEF NoSnapshot
  <2>3. baseline'[w].exact = TRUE /\ deltas'[w] <= DeltaRefresh
    BY <2>1, <2>2 DEF TypeOK
  <2>4. \A v \in Workers \ {w} : baseline'[v] = baseline[v] /\ deltas'[v] = deltas[v]
    BY <2>1 DEF TypeOK
  <2> QED BY <2>3, <2>4 DEF SkewBounded
<1>3. ASSUME NEW w \in Workers, Adopt(w) PROVE SkewBounded'
  <2> DEFINE s == conn[call[w]]
             d == IF s.base = NoSnapshot THEN 0 ELSE deltas[w] + 1
  <2>1. call[w] \in Conns /\ GoodSession(s) /\ (s.offer => deltas[w] < DeltaRefresh)
    BY <1>3 DEF Adopt, TypeOK, CallInv, ReplyInv
  <2>2. PICK b : b = Rebuilt(baseline[w], s.base, s.reply)
    OBVIOUS
  <2>3. baseline' = [baseline EXCEPT ![w] = b] /\ deltas' = [deltas EXCEPT ![w] = d]
    BY <1>3, <2>2 DEF Adopt
  <2>4. deltas[w] \in Nat /\ DeltaRefresh \in Nat
    BY ConstAssumption DEF TypeOK
  <2>5. d <= DeltaRefresh
    BY <2>1, <2>4 DEF GoodSession
  <2>6. ~b.exact => d > 0
    BY <2>1, <2>2, <2>4 DEF Rebuilt, GoodSession
  <2> HIDE DEF d
  <2>7. baseline'[w] = b /\ deltas'[w] = d
    BY <2>3 DEF TypeOK
  <2>8. \A v \in Workers \ {w} : baseline'[v] = baseline[v] /\ deltas'[v] = deltas[v]
    BY <2>3 DEF TypeOK
  <2> QED BY <2>5, <2>6, <2>7, <2>8 DEF SkewBounded
<1> QED BY <1>1, <1>2, <1>3, HoldingStep

-----------------------------------------------------------------------------
(* Deltas fit the baselines they are added to, until the server is restored. *)

\* The server builds one snapshot variant, as the base class does.
SingleVariant == \A v \in Variants : v = DefaultVariant

\* Two snapshots of the first server process at the same revision are the same.
LEMMA SameSnapshot ==
  ASSUME SingleVariant, TypeOK, inc = 1, NEW s \in Snapshots, NEW t \in Snapshots,
         Genuine(s), Genuine(t), s.exact, t.exact, s.inc # 0, t.inc # 0,
         s.revision = t.revision
  PROVE  s = t
<1>1. s.inc = 1 /\ t.inc = 1
  BY DEF Genuine, Dated, Snapshots
<1>2. s.model = t.model
  BY <1>1 DEF Genuine, Faithful, IsPast
<1>3. s.variant = t.variant
  BY DEF SingleVariant, Snapshots
<1> QED BY <1>1, <1>2, <1>3 DEF Snapshots

LEMMA FreeSessionExact == ExactSession(FreeSession)
  BY DEF ExactSession, FreeSession, NoSnapshot

LEMMA ExactKept ==
  ASSUME SingleVariant, TypeOK, FaithInv, ReplyInv, inc = 1, NEW c \in Conns,
         ExactSession(conn[c]), Moved(c) \/ Replies(c) \/ Encodes(c)
  PROVE  ExactSession(conn'[c])
<1>0. conn[c] \in Sessions
  BY DEF TypeOK
<1>1. CASE conn'[c] = FreeSession
  BY <1>1, FreeSessionExact
<1>2. ASSUME NEW p \in Phases, conn'[c] = [conn[c] EXCEPT !.phase = p]
      PROVE  ExactSession(conn'[c])
  BY <1>0, <1>2, MovedValues DEF ExactSession
<1>3. CASE Moved(c)
  BY <1>1, <1>2, <1>3 DEF Moved
<1>4. CASE Replies(c)
  <2>1. PICK p \in {"saving", "ready"}, r \in Snapshots : AnsweredWith(c, p, r)
    BY <1>4 DEF Replies
  <2>2. CASE conn'[c] = [conn[c] EXCEPT !.phase = p, !.reply = r]
    BY <1>0, <2>2, AnswerValues DEF ExactSession
  <2>3. CASE conn'[c] = [conn[c] EXCEPT !.phase = p, !.applied = TRUE, !.reply = r]
    BY <1>0, <2>3, AnswerValues DEF ExactSession
  <2> QED BY <2>1, <2>2, <2>3 DEF AnsweredWith
<1>5. CASE Encodes(c)
  <2>1. PICK b \in Snapshots :
          /\ conn'[c] = [conn[c] EXCEPT !.phase = "encoded", !.base = b]
          /\ \/ b = NoSnapshot
             \/ /\ conn[c].offer
                /\ \E i \in DOMAIN served : b = served[i] /\ b.revision = conn[c].basis.revision
    BY <1>5 DEF Encodes
  <2>2. conn'[c].basis = conn[c].basis /\ conn'[c].base = b
    BY <1>0, <2>1, EncodeValues
  <2>3. ASSUME conn[c].offer,
               NEW i \in DOMAIN served, b = served[i], b.revision = conn[c].basis.revision
        PROVE  b = conn[c].basis
    <3>1. conn[c].basis \in Snapshots /\ Genuine(conn[c].basis) /\ Genuine(b)
      BY <1>0, <2>3 DEF FaithInv, Sessions
    <3>2. conn[c].basis.inc # 0 /\ conn[c].basis.exact
      BY <2>3 DEF ReplyInv, GoodSession, ExactSession
    <3>3. b.exact /\ b.inc # 0
      BY <2>3 DEF ReplyInv
    <3> QED BY <2>3, <3>1, <3>2, <3>3, SameSnapshot
  <2>4. b \in {NoSnapshot, conn[c].basis}
    BY <2>1, <2>3
  <2> QED BY <2>2, <2>4 DEF ExactSession
<1> QED BY <1>3, <1>4, <1>5

LEMMA ExactWorker ==
  ASSUME TypeOK, CallInv, ReplyInv, inc = 1, ExactInv, NEW w \in Workers,
         \/ WorkerStep(w) \/ CallTimesOut(w) \/ WorkerRestart(w)
         \/ \E c \in Conns : StartPush(w, c) \/ StartPull(w, c)
  PROVE  ExactInv'
<1>0. \A v \in Workers : baseline[v].exact
  BY DEF ExactInv
<1>1. \A v \in Workers : baseline'[v].exact
  <2>1. CASE Adopt(w)
    <3>1. call[w] \in Conns /\ conn[call[w]].basis = baseline[w]
      BY <2>1 DEF Adopt, TypeOK, CallInv
    <3>2. conn[call[w]].base \in {NoSnapshot, baseline[w]} /\ conn[call[w]].reply.exact
      BY <3>1 DEF ExactInv, ExactSession, ReplyInv, GoodSession
    <3>3. PICK b : b = Rebuilt(baseline[w], conn[call[w]].base, conn[call[w]].reply)
      OBVIOUS
    <3>4. b.exact
      BY <3>2, <3>3 DEF Rebuilt
    <3>5. baseline'[w] = b /\ \A v \in Workers \ {w} : baseline'[v] = baseline[v]
      BY <2>1, <3>3 DEF Adopt, TypeOK
    <3> QED BY <1>0, <3>4, <3>5
  <2>2. CASE ~Adopt(w)
    <3>1. \A v \in Workers : baseline'[v] \in {baseline[v], NoSnapshot}
      BY <2>2 DEF WorkerStep, RetryBusy, CallFails, CallTimesOut, DropExchange, WorkerRestart,
                  StartPush, StartPull, Request, TypeOK
    <3>2. NoSnapshot.exact
      BY DEF NoSnapshot
    <3> QED BY <1>0, <3>1, <3>2
  <2> QED BY <2>1, <2>2
<1>2. \A d \in Conns : ExactSession(conn'[d])
  <2>1. CASE Adopt(w) \/ CallFails(w) \/ CallTimesOut(w) \/ WorkerRestart(w)
    <3>1. \A d \in Conns : conn'[d] \in {conn[d], FreeSession}
      BY <2>1 DEF Adopt, CallFails, CallTimesOut, WorkerRestart, Become, TypeOK
    <3> QED BY <3>1, FreeSessionExact DEF ExactInv
  <2>2. CASE RetryBusy(w)
    <3>1. call[w] \in Conns /\ conn[call[w]] \in Sessions
      BY <2>2 DEF RetryBusy, TypeOK
    <3>2. PICK t : t = [conn[call[w]] EXCEPT !.phase = "sent"]
      OBVIOUS
    <3>3. conn'[call[w]] = t /\ \A d \in Conns \ {call[w]} : conn'[d] = conn[d]
      <4>1. Become(call[w], t)
        BY <2>2, <3>2 DEF RetryBusy
      <4> QED BY <3>1, <4>1, BecomeValue
    <3>4. ExactSession(t)
      BY <3>1, <3>2, MovedValues DEF ExactInv, ExactSession
    <3> QED BY <3>3, <3>4 DEF ExactInv
  <2>3. ASSUME NEW c \in Conns, StartPush(w, c) \/ StartPull(w, c)
        PROVE  \A d \in Conns : ExactSession(conn'[d])
    <3> DEFINE t(n) == [FreeSession EXCEPT !.phase = "sent", !.worker = w, !.push = n,
                                           !.basis = baseline[w], !.offer = OffersDelta(w)]
    <3>1. Become(c, t(0)) \/ Become(c, t(pushes[w] + 1))
      BY <2>3 DEF StartPush, StartPull, Request
    <3>2. \A n : t(n).basis = baseline[w] /\ t(n).base = FreeSession.base
      BY FreeSessionType DEF Sessions
    <3>3. FreeSession.base = NoSnapshot
      BY DEF FreeSession
    <3> HIDE DEF t
    <3>4. \A n : ExactSession(t(n))
      BY <1>0, <3>2, <3>3 DEF ExactSession
    <3> QED BY <3>1, <3>4, BecomeValue DEF ExactInv
  <2> QED BY <2>1, <2>2, <2>3 DEF WorkerStep
<1> QED BY <1>1, <1>2 DEF ExactInv

LEMMA ExactNext ==
  ASSUME SingleVariant, TypeOK, FaithInv, CallInv, ReplyInv, ExactInv, [Next]_vars
  PROVE  ExactInv'
<1>1. CASE ServerRestart
  <2>1. inc' # 1
    BY <1>1 DEF ServerRestart, TypeOK
  <2> QED BY <2>1 DEF ExactInv
<1>2. CASE inc # 1 /\ ~ServerRestart
  <2>1. UNCHANGED inc
    BY <1>2, ServerSteps
    DEF Next, vars, serverVars, WorkerStep, Adopt, RetryBusy, CallFails, CallTimesOut, DropExchange,
        WorkerRestart, StartPush, StartPull, Request
  <2> QED BY <1>2, <2>1 DEF ExactInv
<1>3. CASE inc = 1
  <2>1. CASE UNCHANGED vars
    BY <1>3, <2>1 DEF vars, serverVars, workerVars, ExactInv
  <2>2. ASSUME NEW w \in Workers, NEW c \in Conns, StartPush(w, c) \/ StartPull(w, c)
        PROVE  ExactInv'
    BY <1>3, <2>2, ExactWorker
  <2>3. ASSUME NEW c \in Conns, ServerStep(c) \/ FailSession(c) PROVE ExactInv'
    <3>1. /\ Moved(c) \/ Replies(c) \/ Encodes(c)
          /\ \A d \in Conns \ {c} : conn'[d] = conn[d]
          /\ UNCHANGED baseline
      BY <2>3, ServerSteps DEF workerVars
    <3>2. \A d \in Conns : ExactSession(conn'[d])
      BY <1>3, <3>1, ExactKept DEF ExactInv
    <3> QED BY <1>3, <3>1, <3>2 DEF ExactInv
  <2>4. ASSUME NEW w \in Workers, WorkerStep(w) \/ CallTimesOut(w) \/ WorkerRestart(w)
        PROVE  ExactInv'
    BY <1>3, <2>4, ExactWorker
  <2> QED BY <1>1, <2>1, <2>2, <2>3, <2>4 DEF Next
<1> QED BY <1>1, <1>2, <1>3

LEMMA ExactGivesContinuity ==
  ASSUME TypeOK, FaithInv, ReplyInv, ExactInv
  PROVE  PushContinuity /\ DeltaExact
<1>1. DeltaExact
  BY DEF ExactInv, DeltaExact
<1>2. ASSUME inc = 1, NEW c \in Conns, ~Stale(c)
      PROVE  conn[c].basis.exact /\ IsPrefix(conn[c].basis.model, model)
  <2> DEFINE b == conn[c].basis
  <2>0. b \in Snapshots /\ b.exact /\ Genuine(b) /\ Real(b) /\ model \in Seq(Pushes)
    BY <1>2 DEF TypeOK, Sessions, ExactInv, ExactSession, FaithInv, ReplyInv, GoodSession
  <2>1. CASE b = NoSnapshot
    <3>1. b.model = <<>>
      BY <2>1 DEF NoSnapshot
    <3> QED BY <2>0, <3>1 DEF IsPrefix
  <2>2. CASE b.inc # 0
    <3>1. b.inc = 1 /\ b.revision \in Nat /\ revision = Len(model)
      BY <1>2, <2>0, <2>2 DEF Genuine, Dated, Snapshots, FaithInv
    <3>2. b.revision <= revision /\ b.model = SubSeq(model, 1, b.revision)
      BY <1>2, <2>0, <3>1 DEF Genuine, Faithful, IsPast
    <3>3. Len(b.model) = b.revision
      BY <2>0, <3>1, <3>2
    <3>4. SubSeq(b.model, 1, Len(b.model)) = b.model
      BY <2>0 DEF Snapshots
    <3> QED BY <2>0, <3>1, <3>2, <3>3, <3>4 DEF IsPrefix
  <2> QED BY <2>0, <2>1, <2>2 DEF Real
<1> QED BY <1>1, <1>2 DEF PushContinuity

-----------------------------------------------------------------------------
(* The checkpoint is not far behind the model. *)

MaxSaves == Max({p["save"] : p \in FaultPlans})

LEMMA MaxSavesIsMax == MaxSaves \in Nat /\ \A p \in FaultPlans : p["save"] <= MaxSaves
<1> DEFINE S == {p["save"] : p \in FaultPlans}
<1>1. S \subseteq Nat
  <2>1. ASSUME NEW p \in FaultPlans PROVE p["save"] \in Nat
    BY ConstAssumption DEF FaultKinds
  <2> QED BY <2>1
<1>2. PICK p \in FaultPlans : \A q \in FaultPlans : q["save"] <= p["save"]
  BY PlansAssumption
<1>3. p["save"] \in S /\ \A y \in S : p["save"] >= y
  BY <1>1, <1>2
<1>4. MaxSaves \in S /\ \A y \in S : MaxSaves >= y
  <2> HIDE DEF S
  <2>1. \E x \in S : \A y \in S : x >= y
    BY <1>3
  <2>2. (CHOOSE x \in S : \A y \in S : x >= y) \in S
        /\ \A y \in S : (CHOOSE x \in S : \A y_1 \in S : x >= y_1) >= y
    BY <2>1
  <2> QED BY <2>2 DEF MaxSaves, Max, S
<1> QED BY <1>1, <1>4

\* Only a failed save uses up the saves that may fail.
LEMMA OtherFaults ==
  ASSUME TypeOK,
         \/ UNCHANGED faults
         \/ \E kind \in {"call", "server", "worker"} : faults' = [faults EXCEPT ![kind] = @ - 1]
  PROVE  faults'["save"] = faults["save"]
<1>1. DOMAIN faults = FaultKinds /\ "save" \in FaultKinds
  BY DEF TypeOK, FaultKinds
<1> QED BY <1>1

\* The failed saves are counted from none on.
LEMMA FailedSavesType ==
  ASSUME TypeOK
  PROVE  /\ faults["save"] \in Nat /\ MaxSaves \in Nat
         /\ FailedSaves = MaxSaves - faults["save"] /\ FailedSaves \in Int
<1>1. faults["save"] \in Nat
  BY DEF TypeOK, FaultKinds
<1>2. MaxSaves \in Nat
  BY MaxSavesIsMax
<1>3. FailedSaves = MaxSaves - faults["save"]
  BY DEF FailedSaves, MaxSaves
<1> QED BY <1>1, <1>2, <1>3

\* Steps that leave model, file, claim and lock alone, and start no save.
LEMMA LagQuiet ==
  ASSUME LagInv, UNCHANGED <<model, revision, lastCkpt, disk, streamOwner>>,
         faults'["save"] = faults["save"],
         \A c \in Conns : conn'[c].phase = "saving" => conn[c].phase = "saving"
  PROVE  LagInv'
  BY DEF LagInv, FailedSaves

LEMMA LagSession ==
  ASSUME TypeOK, LagInv, NEW c \in Conns,
         \/ Admit(c) \/ AnswerBusy(c) \/ FailSession(c) \/ HandlePull(c)
         \/ HandleStalePush(c) \/ EncodeReply(c) \/ SendReply(c)
  PROVE  LagInv'
<1>0. conn[c] \in Sessions /\ FreeSession.phase = "free"
  BY DEF TypeOK, FreeSession
<1>1. /\ UNCHANGED <<model, revision, lastCkpt, disk, streamOwner>>
      /\ UNCHANGED faults \/ faults' = [faults EXCEPT !["call"] = @ - 1]
  BY DEF Admit, AnswerBusy, FailSession, HandlePull, HandleStalePush, EncodeReply, SendReply,
         serverVars
<1>2. \E t : Become(c, t) /\ t.phase # "saving"
  <2>1. CASE Admit(c) \/ AnswerBusy(c) \/ FailSession(c) \/ SendReply(c)
    <3> DEFINE t(phase) == [conn[c] EXCEPT !.phase = phase]
    <3>1. \/ Become(c, FreeSession) \/ Become(c, t("busy")) \/ Become(c, t("closed"))
          \/ Become(c, t("admitted")) \/ Become(c, t("answered"))
      BY <2>1 DEF Admit, AnswerBusy, FailSession, SendReply, Finished
    <3>2. \A phase : t(phase).phase = phase
      BY <1>0, SetPhase
    <3> HIDE DEF t
    <3> QED BY <1>0, <3>1, <3>2
  <2>2. CASE HandlePull(c) \/ HandleStalePush(c)
    <3> DEFINE t(r) == [conn[c] EXCEPT !.phase = "ready", !.reply = r]
    <3>1. \E r : Become(c, t(r))
      BY <2>2 DEF HandlePull, HandleStalePush
    <3>2. \A r : t(r).phase = "ready"
      BY <1>0, SetReply
    <3> HIDE DEF t
    <3> QED BY <3>1, <3>2
  <2>3. CASE EncodeReply(c)
    <3> DEFINE t(b) == [conn[c] EXCEPT !.phase = "encoded", !.base = b]
    <3>1. \E b : Become(c, t(b))
      BY <2>3 DEF EncodeReply
    <3>2. \A b : t(b).phase = "encoded"
      BY <1>0, SetReply
    <3> HIDE DEF t
    <3> QED BY <3>1, <3>2
  <2> QED BY <2>1, <2>2, <2>3
<1>3. \A d \in Conns : conn'[d].phase = "saving" => conn[d].phase = "saving"
  BY <1>2, BecomeValue
<1>4. faults'["save"] = faults["save"]
  BY <1>1, OtherFaults
<1> QED BY <1>1, <1>3, <1>4, LagQuiet

LEMMA LagWorker ==
  ASSUME TypeOK, LagInv, NEW w \in Workers,
         \/ WorkerStep(w) \/ CallTimesOut(w) \/ WorkerRestart(w)
         \/ \E c \in Conns : StartPush(w, c) \/ StartPull(w, c)
  PROVE  LagInv'
<1>0. FreeSession.phase = "free"
  BY DEF FreeSession
<1>1. /\ UNCHANGED <<model, revision, lastCkpt, disk, streamOwner>>
      /\ \/ UNCHANGED faults
         \/ \E kind \in {"call", "worker"} : faults' = [faults EXCEPT ![kind] = @ - 1]
  BY DEF WorkerStep, Adopt, RetryBusy, CallFails, CallTimesOut, DropExchange, WorkerRestart,
         StartPush, StartPull, Request, serverVars
<1>2. \A d \in Conns : conn'[d].phase = "saving" => conn[d].phase = "saving"
  <2>1. CASE Adopt(w) \/ CallFails(w) \/ CallTimesOut(w) \/ WorkerRestart(w)
    <3>1. \A d \in Conns : conn'[d] \in {conn[d], FreeSession}
      BY <2>1 DEF Adopt, CallFails, CallTimesOut, WorkerRestart, Become, TypeOK
    <3> QED BY <1>0, <3>1
  <2>2. CASE RetryBusy(w)
    <3>1. call[w] \in Conns /\ conn[call[w]] \in Sessions
      BY <2>2 DEF RetryBusy, TypeOK
    <3>2. PICK t : t = [conn[call[w]] EXCEPT !.phase = "sent"]
      OBVIOUS
    <3>3. t.phase = "sent"
      BY <3>1, <3>2, SetPhase
    <3>4. conn'[call[w]] = t /\ \A d \in Conns \ {call[w]} : conn'[d] = conn[d]
      <4>1. Become(call[w], t)
        BY <2>2, <3>2 DEF RetryBusy
      <4> QED BY <3>1, <4>1, BecomeValue
    <3> QED BY <3>3, <3>4
  <2>3. ASSUME NEW c \in Conns, StartPush(w, c) \/ StartPull(w, c)
        PROVE  \A d \in Conns : conn'[d].phase = "saving" => conn[d].phase = "saving"
    <3> DEFINE t(n) == [FreeSession EXCEPT !.phase = "sent", !.worker = w, !.push = n,
                                           !.basis = baseline[w], !.offer = OffersDelta(w)]
    <3>1. Become(c, t(0)) \/ Become(c, t(pushes[w] + 1))
      BY <2>3 DEF StartPush, StartPull, Request
    <3>2. \A n : t(n).phase = "sent"
      BY FreeSessionType DEF Sessions
    <3> HIDE DEF t
    <3> QED BY <3>1, <3>2, BecomeValue
  <2> QED BY <2>1, <2>2, <2>3 DEF WorkerStep
<1>3. faults'["save"] = faults["save"]
  BY <1>1, OtherFaults
<1> QED BY <1>1, <1>2, <1>3, LagQuiet

\* A commit makes at most one more, or claims the checkpoint it completes.
LEMMA LagPush ==
  ASSUME TypeOK, LogInv, LagInv, NEW c \in Conns, HandlePush(c)
  PROVE  LagInv'
<1> DEFINE due == CheckpointDue
           F == CheckpointEvery * FailedSaves
<1>0. /\ revision \in Nat /\ lastCkpt \in Nat /\ disk.revision \in Nat
      /\ model \in Seq(Pushes) /\ disk.model \in Seq(Pushes)
      /\ CheckpointEvery \in Nat \ {0} /\ conn[c] \in Sessions
  BY ConstAssumption DEF TypeOK
<1>1. F \in Int
  BY <1>0, FailedSavesType
<1>2. /\ revision' = revision + 1 /\ model' = Append(model, PushOf(c))
      /\ lastCkpt' = IF due THEN revision + 1 ELSE lastCkpt
      /\ streamOwner = NoConn /\ streamOwner' = IF due THEN c ELSE NoConn
      /\ UNCHANGED <<disk, faults>>
  BY DEF HandlePush
<1>3. /\ disk.revision <= revision /\ disk.model = SubSeq(model, 1, disk.revision)
      /\ lastCkpt <= revision /\ revision - lastCkpt < CheckpointEvery
      /\ FailedSaves >= 0
  BY DEF LagInv
<1>4. lastCkpt - disk.revision <= F
  <2>1. F + 0 = F
    BY <1>1
  <2> QED BY <1>2, <2>1 DEF LagInv
<1>5. \A d \in Conns : conn[d].phase # "saving"
  BY <1>2, ConstAssumption DEF LagInv
<1>6. due <=> revision + 1 - lastCkpt >= CheckpointEvery
  BY DEF CheckpointDue
<1>7. F' = F /\ FailedSaves' = FailedSaves
  BY <1>2 DEF FailedSaves
<1>8. PushOf(c) \in Pushes
  BY <1>0 DEF PushOf, Pushes, Sessions
<1>9. \A d \in Conns : conn'[d].phase = "saving" => streamOwner' = d
  <2> DEFINE t(r) == [conn[c] EXCEPT !.phase = IF due THEN "saving" ELSE "ready",
                                     !.applied = TRUE, !.reply = r]
  <2>1. \E r : Become(c, t(r))
    BY DEF HandlePush
  <2>2. \A r : t(r).phase = IF due THEN "saving" ELSE "ready"
    BY <1>0, SetReply
  <2> HIDE DEF t, due
  <2> QED BY <1>2, <1>5, <2>1, <2>2, BecomeValue
<1>10. disk'.revision <= revision' /\ disk'.model = SubSeq(model', 1, disk'.revision)
  <2>1. disk.revision \in 0..Len(model)
    BY <1>0, <1>3 DEF LogInv
  <2>2. SubSeq(Append(model, PushOf(c)), 1, disk.revision) = SubSeq(model, 1, disk.revision)
    BY <1>0, <1>8, <2>1
  <2>3. disk.revision <= revision + 1
    BY <1>0, <1>3
  <2> QED BY <1>2, <1>3, <2>2, <2>3
<1> HIDE DEF due, F
<1>11. lastCkpt' <= revision' /\ revision' - lastCkpt' < CheckpointEvery
  BY <1>0, <1>2, <1>3, <1>6
<1>12. streamOwner' # NoConn => revision' = lastCkpt'
  BY <1>2
<1>13. lastCkpt' - disk.revision <= F + (IF streamOwner' = NoConn THEN 0 ELSE CheckpointEvery)
  <2>1. c # NoConn
    BY ConstAssumption
  <2>2. CASE due
    <3>1. streamOwner' # NoConn /\ lastCkpt' = revision + 1
      BY <1>2, <2>1, <2>2
    <3>2. lastCkpt' - disk.revision <= F + CheckpointEvery
      BY <1>0, <1>1, <1>3, <1>4, <3>1
    <3> QED BY <3>1, <3>2
  <2>3. CASE ~due
    <3>1. streamOwner' = NoConn /\ lastCkpt' = lastCkpt /\ F + 0 = F
      BY <1>1, <1>2, <2>3
    <3> QED BY <1>4, <3>1
  <2> QED BY <2>2, <2>3
<1>14. lastCkpt' - disk'.revision
         <= CheckpointEvery * FailedSaves' + (IF streamOwner' = NoConn THEN 0 ELSE CheckpointEvery)
  BY <1>2, <1>7, <1>13 DEF F
<1> QED BY <1>3, <1>7, <1>9, <1>10, <1>11, <1>12, <1>14 DEF LagInv

\* The claimed state is written, or its save is one more that failed.
LEMMA LagSave ==
  ASSUME TypeOK, LogInv, LagInv, NEW c \in Conns, SaveCheckpoint(c)
  PROVE  LagInv'
<1>0. /\ revision \in Nat /\ lastCkpt \in Nat /\ disk.revision \in Nat
      /\ model \in Seq(Pushes) /\ CheckpointEvery \in Nat \ {0} /\ conn[c] \in Sessions
  BY ConstAssumption DEF TypeOK
<1>1. /\ streamOwner = c /\ streamOwner' = NoConn /\ UNCHANGED <<model, revision, lastCkpt>>
      /\ c # NoConn
  BY ConstAssumption DEF SaveCheckpoint, LagInv, InPhase
<1>2. revision = lastCkpt /\ FailedSaves >= 0 /\ FailedSaves \in Int
  BY <1>1, FailedSavesType DEF LagInv
<1>3. \A d \in Conns : conn'[d].phase # "saving"
  <2>1. PICK t : t = [conn[c] EXCEPT !.phase = "ready"]
    OBVIOUS
  <2>2. Become(c, t)
    BY <2>1 DEF SaveCheckpoint
  <2>3. t.phase = "ready"
    BY <1>0, <2>1, SetPhase
  <2>4. \A d \in Conns \ {c} : conn[d].phase # "saving"
    BY <1>1 DEF LagInv
  <2> QED BY <2>2, <2>3, <2>4, BecomeValue
<1>4. CASE disk' = [model |-> model, revision |-> revision] /\ UNCHANGED faults
  <2>1. disk'.revision = revision /\ disk'.model = model /\ FailedSaves' = FailedSaves
    BY <1>4 DEF FailedSaves
  <2>2. SubSeq(model, 1, revision) = model
    BY <1>0 DEF LogInv
  <2>3. CheckpointEvery * FailedSaves >= 0 /\ CheckpointEvery * FailedSaves \in Int
    BY <1>0, <1>2
  <2>4. disk'.revision <= revision' /\ disk'.model = SubSeq(model', 1, disk'.revision)
    BY <1>0, <1>1, <2>1, <2>2
  <2>5. lastCkpt' <= revision' /\ revision' - lastCkpt' < CheckpointEvery
    BY <1>0, <1>1, <1>2
  <2>6. lastCkpt' - disk'.revision <= CheckpointEvery * FailedSaves' + 0
    <3> DEFINE F == CheckpointEvery * FailedSaves
    <3>1. F >= 0 /\ F \in Int
      BY <2>3
    <3>2. CheckpointEvery * FailedSaves' = F
      BY <2>1
    <3> HIDE DEF F
    <3> QED BY <1>0, <1>1, <1>2, <2>1, <3>1, <3>2
  <2> QED BY <1>1, <1>2, <1>3, <2>1, <2>4, <2>5, <2>6 DEF LagInv
<1>5. CASE /\ faults["save"] > 0 /\ UNCHANGED disk
           /\ faults' = [faults EXCEPT !["save"] = @ - 1]
  <2>1. faults'["save"] = faults["save"] - 1
    BY <1>5 DEF TypeOK, FaultKinds
  <2>2. FailedSaves' = MaxSaves - faults'["save"]
    BY DEF FailedSaves, MaxSaves
  <2>3. FailedSaves' = FailedSaves + 1
    BY <2>1, <2>2, FailedSavesType
  <2>4. CheckpointEvery * (FailedSaves + 1) = CheckpointEvery * FailedSaves + CheckpointEvery
    BY <1>0, <1>2
  <2>5. lastCkpt - disk.revision <= CheckpointEvery * FailedSaves + CheckpointEvery
    BY <1>1 DEF LagInv
  <2>6. lastCkpt' - disk'.revision <= CheckpointEvery * FailedSaves' + 0
    <3> DEFINE F == CheckpointEvery * FailedSaves'
    <3>1. F = CheckpointEvery * FailedSaves + CheckpointEvery
      BY <2>3, <2>4
    <3>2. F \in Int /\ F + 0 = F
      BY <1>0, <1>2, <2>3
    <3>3. lastCkpt - disk.revision <= F
      BY <2>5, <3>1
    <3> HIDE DEF F
    <3>4. lastCkpt' - disk'.revision <= F + 0
      BY <1>1, <1>5, <3>2, <3>3
    <3> QED BY <3>4 DEF F
  <2>7. /\ disk'.revision <= revision' /\ disk'.model = SubSeq(model', 1, disk'.revision)
        /\ lastCkpt' <= revision' /\ revision' - lastCkpt' < CheckpointEvery
    BY <1>1, <1>5 DEF LagInv
  <2>8. FailedSaves' >= 0
    BY <1>2, <2>3
  <2> QED BY <1>1, <1>3, <2>6, <2>7, <2>8 DEF LagInv
<1> QED BY <1>4, <1>5 DEF SaveCheckpoint

\* A restored server has the file's state, and claims it.
LEMMA LagRestart == ASSUME TypeOK, LogInv, LagInv, ServerRestart PROVE LagInv'
<1>0. /\ disk.revision \in Nat /\ disk.model \in Seq(Pushes) /\ disk.revision = Len(disk.model)
      /\ CheckpointEvery \in Nat \ {0} /\ FailedSaves \in Int
  BY ConstAssumption, FailedSavesType DEF TypeOK, LogInv
<1>1. /\ model' = disk.model /\ revision' = disk.revision /\ lastCkpt' = disk.revision
      /\ UNCHANGED disk /\ streamOwner' = NoConn
      /\ faults' = [faults EXCEPT !["server"] = @ - 1]
  BY DEF ServerRestart
<1>2. faults'["save"] = faults["save"]
  BY <1>1, OtherFaults
<1>3. FailedSaves' = FailedSaves /\ FailedSaves >= 0
  BY <1>2 DEF FailedSaves, LagInv
<1>4. CheckpointEvery * FailedSaves >= 0 /\ CheckpointEvery * FailedSaves \in Int
  BY <1>0, <1>3
<1>5. SubSeq(disk.model, 1, disk.revision) = disk.model
  BY <1>0
<1>6. ASSUME NEW c \in Conns PROVE conn'[c].phase # "saving"
  <2>1. \/ conn'[c] = FreeSession
        \/ conn'[c] = [conn[c] EXCEPT !.phase = "closed"]
    BY DEF ServerRestart
  <2>2. conn[c] \in Sessions /\ FreeSession.phase = "free"
    BY DEF TypeOK, FreeSession
  <2>3. CASE conn'[c] = [conn[c] EXCEPT !.phase = "closed"]
    BY <2>2, <2>3, SetPhase
  <2> QED BY <2>1, <2>2, <2>3
<1>7. lastCkpt' - disk'.revision <= CheckpointEvery * FailedSaves' + 0
  <2> DEFINE F == CheckpointEvery * FailedSaves
  <2>1. F >= 0 /\ F \in Int /\ CheckpointEvery * FailedSaves' = F
    BY <1>3, <1>4
  <2> HIDE DEF F
  <2> QED BY <1>0, <1>1, <2>1
<1>8. /\ disk'.revision <= revision' /\ disk'.model = SubSeq(model', 1, disk'.revision)
      /\ lastCkpt' <= revision' /\ revision' - lastCkpt' < CheckpointEvery
  BY <1>0, <1>1, <1>5
<1> QED BY <1>1, <1>3, <1>6, <1>7, <1>8 DEF LagInv

LEMMA LagInit == Init => LagInv
<1> SUFFICES ASSUME Init PROVE LagInv
  OBVIOUS
<1>1. faults["save"] <= MaxSaves /\ faults["save"] \in Nat /\ MaxSaves \in Nat
  <2>1. faults \in FaultPlans /\ faults["save"] <= MaxSaves /\ MaxSaves \in Nat
    BY MaxSavesIsMax DEF Init
  <2>2. faults["save"] \in Nat
    BY <2>1, ConstAssumption DEF FaultKinds
  <2> QED BY <2>1, <2>2
<1>2. FailedSaves = MaxSaves - faults["save"]
  BY DEF FailedSaves, MaxSaves
<1>3. FailedSaves >= 0 /\ FailedSaves \in Int
  BY <1>1, <1>2
<1>4. CheckpointEvery \in Nat \ {0}
  BY ConstAssumption
<1>5. CheckpointEvery * FailedSaves >= 0 /\ CheckpointEvery * FailedSaves \in Int
  BY <1>3, <1>4
<1>6. \A c \in Conns : conn[c].phase # "saving"
  BY DEF Init, FreeSession
<1>7. /\ model = <<>> /\ disk.model = <<>> /\ revision = 0 /\ disk.revision = 0 /\ lastCkpt = 0
      /\ streamOwner = NoConn
  BY DEF Init
<1>8. SubSeq(model, 1, disk.revision) = disk.model
  BY <1>7
<1>9. lastCkpt - disk.revision <= CheckpointEvery * FailedSaves + 0
  <2> DEFINE F == CheckpointEvery * FailedSaves
  <2>1. F >= 0 /\ F \in Int
    BY <1>5
  <2> HIDE DEF F
  <2>2. lastCkpt - disk.revision <= F + 0
    BY <1>7, <2>1
  <2> QED BY <2>2 DEF F
<1> QED BY <1>3, <1>4, <1>6, <1>7, <1>8, <1>9 DEF LagInv

LEMMA LagNext ==
  ASSUME TypeOK, LogInv, LagInv, [Next]_vars
  PROVE  LagInv'
<1>1. CASE UNCHANGED vars
  BY <1>1, LagQuiet DEF vars, serverVars
<1>2. ASSUME NEW w \in Workers, NEW c \in Conns, StartPush(w, c) \/ StartPull(w, c)
      PROVE  LagInv'
  BY <1>2, LagWorker
<1>3. ASSUME NEW c \in Conns, ServerStep(c) \/ FailSession(c) PROVE LagInv'
  BY <1>3, LagSession, LagPush, LagSave DEF ServerStep
<1>4. ASSUME NEW w \in Workers, WorkerStep(w) \/ CallTimesOut(w) \/ WorkerRestart(w)
      PROVE  LagInv'
  BY <1>4, LagWorker
<1>5. CASE ServerRestart
  BY <1>5, LagRestart
<1> QED BY <1>1, <1>2, <1>3, <1>4, <1>5 DEF Next

LEMMA LagBound == TypeOK /\ LagInv => CheckpointLag
<1> SUFFICES ASSUME TypeOK, LagInv PROVE CheckpointLag
  OBVIOUS
<1> DEFINE F == CheckpointEvery * FailedSaves
<1>1. /\ revision \in Nat /\ lastCkpt \in Nat /\ disk.revision \in Nat
      /\ CheckpointEvery \in Nat \ {0} /\ FailedSaves \in Int
  BY ConstAssumption, FailedSavesType DEF TypeOK
<1>2. CheckpointEvery * (1 + FailedSaves) = CheckpointEvery + F /\ F \in Int
  BY <1>1
<1>3. /\ disk.revision <= revision /\ disk.model = SubSeq(model, 1, disk.revision)
      /\ lastCkpt <= revision /\ revision - lastCkpt < CheckpointEvery
      /\ streamOwner # NoConn => revision = lastCkpt
      /\ lastCkpt - disk.revision <= F + (IF streamOwner = NoConn THEN 0 ELSE CheckpointEvery)
  BY DEF LagInv
<1> HIDE DEF F
<1>4. revision - disk.revision < CheckpointEvery + F + (IF streamOwner = NoConn THEN 0 ELSE 1)
  BY <1>1, <1>2, <1>3
<1> QED BY <1>2, <1>3, <1>4 DEF CheckpointLag

-----------------------------------------------------------------------------
\* What holds whatever variants the server builds: a wrong baseline is
\* refreshed, and the checkpoint keeps up, up to the saves that failed.
THEOREM SkewAndLagBounded == Spec => [](SkewBounded /\ CheckpointLag)
<1>1. Init => SkewBounded
  BY ConstAssumption DEF Init, SkewBounded, NoSnapshot
<1>2. FaithInv => LogInv
  BY FaithParts
<1> QED
  BY <1>1, <1>2, TypeInit, TypeNext, FaithInit, FaithNext, HeldInit, CallNext, ReplyNext, SkewNext,
     LagInit, LagNext, LagBound, PTL DEF Spec

\* What workers, the ring and the file hold stays close to the model, if the
\* server builds one variant of its snapshots.
THEOREM HeldIsSound == SingleVariant /\ Spec => []HeldSound
<1> SUFFICES ASSUME SingleVariant PROVE Spec => []HeldSound
  OBVIOUS
<1>1. Init => SkewBounded /\ ExactInv
  BY ConstAssumption, FreeSessionExact DEF Init, SkewBounded, NoSnapshot, ExactInv
<1>2. FaithInv => LogInv
  BY FaithParts
<1>3. TypeOK /\ FaithInv /\ CallInv /\ ReplyInv /\ ExactInv /\ [Next]_vars => ExactInv'
  BY ExactNext
<1>4. TypeOK /\ FaithInv /\ ReplyInv /\ ExactInv /\ SkewBounded /\ LagInv => HeldSound
  BY ExactGivesContinuity, LagBound DEF HeldSound
<1> QED
  BY <1>1, <1>2, <1>3, <1>4, TypeInit, TypeNext, FaithInit, FaithNext, HeldInit, CallNext,
     ReplyNext, SkewNext, LagInit, LagNext, PTL DEF Spec
=============================================================================
