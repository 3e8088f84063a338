---------------------------- MODULE WaitersProofs ----------------------------
(***************************************************************************)
(* Proofs about those who wait: workers for their cohort, and the stages   *)
(* of a served model for their weights.  For any number of workers and any *)
(* min_replicas, nobody passes the gate before the server has heard of a   *)
(* second worker, and without faults the count never drops below the       *)
(* cohort that came together.  For any number of stages, files, models,    *)
(* submissions and crashes, what ensure_shard returns and fetch_stage      *)
(* leaves behind is whole.                                                 *)
(***************************************************************************)
EXTENDS CohortGate, StageWeights, FiniteSetTheorems, TLAPS

-----------------------------------------------------------------------------
(* The cohort gate. *)

Req(kind, w) == [kind |-> kind, id |-> w]

LEMMA TypeInit == Init => TypeOK
<1> SUFFICES ASSUME Init PROVE TypeOK
  OBVIOUS
<1> QED BY CohortAssumption, FS_CardinalityType DEF Init, TypeOK, Phases, Unknown

\* A count is at most twice the number of workers.
LEMMA CountType ==
  ASSUME TypeOK
  PROVE  Count \in 0..2 * Cardinality(Workers)
<1>1. Active \subseteq Workers /\ finished \subseteq Workers
  BY DEF TypeOK, Active
<1>2. /\ Cardinality(Active) \in Nat /\ Cardinality(Active) <= Cardinality(Workers)
      /\ Cardinality(finished) \in Nat /\ Cardinality(finished) <= Cardinality(Workers)
      /\ Cardinality(Workers) \in Nat
  BY <1>1, CohortAssumption, FS_Subset, FS_CardinalityType
<1> QED BY <1>2 DEF Count

LEMMA SpendType ==
  ASSUME TypeOK, NEW kind \in FaultKinds, Spend(kind)
  PROVE  faults' \in [FaultKinds -> Nat]
  BY DEF TypeOK, Spend

LEMMA TypeStep ==
  ASSUME TypeOK, [Next]_vars
  PROVE  TypeOK'
<1> USE DEF TypeOK, Phases, Goto, server, worker
<1>k. {"crash", "request", "server"} \subseteq FaultKinds
  BY DEF FaultKinds
<1>c. Cardinality(Workers) \in Nat
  BY CohortAssumption, FS_CardinalityType
<1>1. ASSUME NEW w \in Workers, Enter(w) PROVE TypeOK'
  BY <1>1 DEF Enter
<1>2. ASSUME NEW w \in Workers, SendBeat(w) PROVE TypeOK'
  BY <1>2 DEF SendBeat
<1>3. ASSUME NEW w \in Workers, Probe(w) PROVE TypeOK'
  BY <1>3, CountType DEF Probe
<1>4. ASSUME NEW w \in Workers, PassGate(w) PROVE TypeOK'
  BY <1>4 DEF PassGate
<1>5. ASSUME NEW w \in Workers, ProbeFails(w) PROVE TypeOK'
  BY <1>5, <1>k, <1>c, SpendType DEF ProbeFails
<1>6. ASSUME NEW w \in Workers, ProbeAgain(w) PROVE TypeOK'
  BY <1>6 DEF ProbeAgain
<1>7. ASSUME NEW w \in Workers, GiveUp(w) PROVE TypeOK'
  BY <1>7 DEF GiveUp, Leave, LastWords
<1>8. ASSUME NEW w \in Workers, Boundary(w) PROVE TypeOK'
  BY <1>8, CohortAssumption DEF Boundary, MoreBoundaries
<1>9. ASSUME NEW w \in Workers, AnnounceDone(w) PROVE TypeOK'
  BY <1>9 DEF AnnounceDone, KeepsBeating
<1>10. ASSUME NEW w \in Workers, StopHeartbeat(w) PROVE TypeOK'
  BY <1>10, <1>k, SpendType DEF StopHeartbeat, Stopped
<1>11. ASSUME NEW w \in Workers, Crash(w) PROVE TypeOK'
  BY <1>11, <1>k, SpendType DEF Crash, Leave, LastWords
<1>12. ASSUME NEW w \in Workers, Heartbeat(w) PROVE TypeOK'
  BY <1>12 DEF Heartbeat
<1>13. ASSUME NEW w \in Workers, Done(w) PROVE TypeOK'
  BY <1>13 DEF Done
<1>14. ASSUME NEW w \in Workers, Expire(w) PROVE TypeOK'
  BY <1>14, <1>k, SpendType DEF Expire
<1>15. CASE LoseRequest
  BY <1>15, <1>k, SpendType DEF LoseRequest
<1>16. CASE Evict
  BY <1>16 DEF Evict
<1>17. CASE ServerRestart
  BY <1>17, <1>k, SpendType DEF ServerRestart
<1>18. CASE UNCHANGED vars
  BY <1>18 DEF vars
<1> QED
  BY <1>1, <1>2, <1>3, <1>4, <1>5, <1>6, <1>7, <1>8, <1>9, <1>10, <1>11, <1>12, <1>13,
     <1>14, <1>15, <1>16, <1>17, <1>18 DEF Next, TrainingStep

\* Every reachable state is well typed, for any number of workers.
THEOREM CohortTypeCorrect == Spec => []TypeOK
  BY TypeInit, TypeStep, PTL DEF Spec

-----------------------------------------------------------------------------
(* Nobody starts alone. *)

Heard == \A w \in Workers : heartbeats[w] = "fresh" \/ w \in finished => w \in joined

\* /done is only said on the way out.
SaidOnExit ==
  \A w \in Workers : w \in finished \/ Req("done", w) \in wire => phase[w] \in {"exiting", "left"}

Others(w) == joined \ {w} # {}

SeenOthers == \A w \in Workers : seen[w] >= MinReplicas => Others(w)

SoloInv == Heard /\ SaidOnExit /\ SeenOthers /\ NeverSolo

\* A count of two comes from somebody else.
LEMMA CountOthers ==
  ASSUME TypeOK, Heard, NEW w \in Workers, w \notin finished, Count >= MinReplicas
  PROVE  Others(w)
<1> SUFFICES ASSUME joined \subseteq {w} PROVE FALSE
  BY DEF Others
<1>1. Active \subseteq {w} /\ finished = {}
  BY DEF TypeOK, Heard, Active
<1>2. Cardinality(Active) <= 1 /\ Cardinality(Active) \in Nat
  <2>1. IsFiniteSet({w}) /\ Cardinality({w}) = 1
    BY FS_Singleton
  <2>2. IsFiniteSet(Active) /\ Cardinality(Active) <= Cardinality({w})
    BY <1>1, <2>1, FS_Subset
  <2> QED BY <2>1, <2>2, FS_CardinalityType
<1>3. Cardinality(finished) = 0
  BY <1>1, FS_EmptySet
<1>4. MinReplicas \in Nat /\ MinReplicas >= 2
  BY CohortAssumption, FS_CardinalityType
<1> QED BY <1>2, <1>3, <1>4 DEF Count

LEMMA SoloInit == Init => SoloInv
<1> SUFFICES ASSUME Init PROVE SoloInv
  OBVIOUS
<1>1. MinReplicas \in Nat /\ MinReplicas >= 2
  BY CohortAssumption, FS_CardinalityType
<1> QED BY <1>1 DEF Init, SoloInv, Heard, SaidOnExit, SeenOthers, NeverSolo, Unknown

LEMMA SoloStep ==
  ASSUME TypeOK, SoloInv, [Next]_vars
  PROVE  SoloInv'
<1> USE DEF TypeOK, SoloInv, Heard, SaidOnExit, SeenOthers, NeverSolo, Others, Goto, server,
            worker, Phases, Req
<1>m. MinReplicas \in Nat /\ MinReplicas >= 2
  BY CohortAssumption, FS_CardinalityType
<1>1. ASSUME NEW w \in Workers, Enter(w) PROVE SoloInv'
  BY <1>1 DEF Enter
<1>2. ASSUME NEW w \in Workers, SendBeat(w) PROVE SoloInv'
  BY <1>2 DEF SendBeat
<1>3. ASSUME NEW w \in Workers, Probe(w) PROVE SoloInv'
  <2>1. Count >= MinReplicas => Others(w)
    BY <1>3, CountOthers DEF Probe
  <2> QED BY <1>3, <2>1 DEF Probe
<1>4. ASSUME NEW w \in Workers, PassGate(w) PROVE SoloInv'
  BY <1>4, <1>m DEF PassGate, Enough, Unknown
<1>5. ASSUME NEW w \in Workers, ProbeFails(w) PROVE SoloInv'
  BY <1>5, <1>m DEF ProbeFails
<1>6. ASSUME NEW w \in Workers, ProbeAgain(w) PROVE SoloInv'
  BY <1>6, <1>m DEF ProbeAgain, Unknown, Short
<1>7. ASSUME NEW w \in Workers, GiveUp(w) PROVE SoloInv'
  BY <1>7, <1>m DEF GiveUp, Leave, LastWords, Unknown, Short
<1>8. ASSUME NEW w \in Workers, Boundary(w) PROVE SoloInv'
  BY <1>8 DEF Boundary
<1>9. ASSUME NEW w \in Workers, AnnounceDone(w) PROVE SoloInv'
  BY <1>9 DEF AnnounceDone
<1>10. ASSUME NEW w \in Workers, StopHeartbeat(w) PROVE SoloInv'
  BY <1>10 DEF StopHeartbeat
<1>11. ASSUME NEW w \in Workers, Crash(w) PROVE SoloInv'
  BY <1>11, <1>m DEF Crash, Leave, LastWords, Unknown
<1>12. ASSUME NEW w \in Workers, Heartbeat(w) PROVE SoloInv'
  BY <1>12 DEF Heartbeat
<1>13. ASSUME NEW w \in Workers, Done(w) PROVE SoloInv'
  BY <1>13 DEF Done
<1>14. ASSUME NEW w \in Workers, Expire(w) PROVE SoloInv'
  BY <1>14 DEF Expire
<1>15. CASE LoseRequest
  BY <1>15 DEF LoseRequest
<1>16. CASE Evict
  BY <1>16 DEF Evict
<1>17. CASE ServerRestart
  BY <1>17 DEF ServerRestart
<1>18. CASE UNCHANGED vars
  BY <1>18 DEF vars
<1> QED
  BY <1>1, <1>2, <1>3, <1>4, <1>5, <1>6, <1>7, <1>8, <1>9, <1>10, <1>11, <1>12, <1>13,
     <1>14, <1>15, <1>16, <1>17, <1>18 DEF Next, TrainingStep

\* A worker trains only when the server has heard of another one.
THEOREM NobodyStartsAlone == Spec => []NeverSolo
<1>1. TypeOK /\ SoloInv /\ [Next]_vars => (TypeOK /\ SoloInv)'
  BY TypeStep, SoloStep
<1>2. SoloInv => NeverSolo
  BY DEF SoloInv
<1> QED BY TypeInit, SoloInit, <1>1, <1>2, PTL DEF Spec

-----------------------------------------------------------------------------
(* The cohort stays together. *)

NoFault == faults = MaxFaults /\ \A w \in Workers : phase[w] # "lost"

FaultsLeft == \A k \in FaultKinds : faults[k] <= MaxFaults[k]

\* Nobody is heard of before it came in.
Outside ==
  \A w \in Workers :
    phase[w] = "outside" => w \notin joined /\ Req("beat", w) \notin wire /\ ~beating[w]

Accounted == \A w \in joined : heartbeats[w] = "fresh" \/ w \in finished

StillBeats ==
  \A w \in Workers :
    phase[w] \in {"gate", "training", "exiting"} => beating[w]

SaidBeforeLeaving ==
  \A w \in Workers :
    /\ phase[w] = "exiting" => Req("done", w) \in wire \/ w \in finished
    /\ phase[w] = "left" => w \in finished

KeptInv ==
  FaultsLeft /\ (NoFault => Outside /\ Accounted /\ StillBeats /\ SaidBeforeLeaving)

LEMMA KeptInit == Init => KeptInv
<1> SUFFICES ASSUME Init PROVE KeptInv
  OBVIOUS
<1> QED
  BY CohortAssumption
  DEF Init, KeptInv, FaultsLeft, NoFault, Outside, Accounted, StillBeats, SaidBeforeLeaving

\* A fault that happened is remembered.
LEMMA SpendSeen ==
  ASSUME TypeOK, FaultsLeft, NEW kind \in FaultKinds, Spend(kind)
  PROVE  FaultsLeft' /\ faults' # MaxFaults
<1>1. faults \in [FaultKinds -> Nat] /\ MaxFaults \in [FaultKinds -> Nat]
  BY CohortAssumption DEF TypeOK
<1>2. faults' = [faults EXCEPT ![kind] = @ - 1] /\ faults[kind] <= MaxFaults[kind]
  BY DEF Spend, FaultsLeft
<1>3. faults'[kind] = faults[kind] - 1 /\ faults[kind] - 1 < MaxFaults[kind]
  BY <1>1, <1>2
<1>4. faults'[kind] # MaxFaults[kind]
  BY <1>1, <1>3
<1>5. FaultsLeft'
  BY <1>1, <1>2 DEF FaultsLeft
<1> QED BY <1>4, <1>5

LEMMA KeptStep ==
  ASSUME TypeOK, SaidOnExit, KeptInv, [Next]_vars
  PROVE  KeptInv'
<1> USE DEF TypeOK, KeptInv, NoFault, Outside, Accounted, StillBeats, SaidBeforeLeaving,
            Goto, server, worker, Phases, Req
<1>k. {"crash", "request", "server"} \subseteq FaultKinds
  BY DEF FaultKinds
<1>f. \A k \in FaultKinds : Spend(k) => FaultsLeft' /\ faults' # MaxFaults
  BY SpendSeen
<1>u. UNCHANGED faults => FaultsLeft'
  BY DEF FaultsLeft
<1>1. ASSUME NEW w \in Workers, Enter(w) PROVE KeptInv'
  BY <1>1, <1>u DEF Enter
<1>2. ASSUME NEW w \in Workers, SendBeat(w) PROVE KeptInv'
  BY <1>2, <1>u DEF SendBeat
<1>3. ASSUME NEW w \in Workers, Probe(w) PROVE KeptInv'
  BY <1>3, <1>u DEF Probe
<1>4. ASSUME NEW w \in Workers, PassGate(w) PROVE KeptInv'
  BY <1>4, <1>u DEF PassGate
<1>5. ASSUME NEW w \in Workers, ProbeFails(w) PROVE KeptInv'
  BY <1>5, <1>k, <1>f DEF ProbeFails
<1>6. ASSUME NEW w \in Workers, ProbeAgain(w) PROVE KeptInv'
  BY <1>6, <1>u DEF ProbeAgain
<1>7. ASSUME NEW w \in Workers, GiveUp(w) PROVE KeptInv'
  BY <1>7, <1>u DEF GiveUp, Leave
<1>8. ASSUME NEW w \in Workers, Boundary(w) PROVE KeptInv'
  BY <1>8, <1>u DEF Boundary
<1>9. ASSUME NEW w \in Workers, AnnounceDone(w) PROVE KeptInv'
  BY <1>9, <1>u DEF AnnounceDone, KeepsBeating
<1>10. ASSUME NEW w \in Workers, StopHeartbeat(w) PROVE KeptInv'
  BY <1>10, <1>u, <1>k, <1>f DEF StopHeartbeat, Stopped
<1>11. ASSUME NEW w \in Workers, Crash(w) PROVE KeptInv'
  BY <1>11, <1>k, <1>f DEF Crash, Leave
<1>12. ASSUME NEW w \in Workers, Heartbeat(w) PROVE KeptInv'
  BY <1>12, <1>u DEF Heartbeat
<1>13. ASSUME NEW w \in Workers, Done(w) PROVE KeptInv'
  BY <1>13, <1>u DEF Done, SaidOnExit
<1>14. ASSUME NEW w \in Workers, Expire(w) PROVE KeptInv'
  <2>1. CASE beating[w]
    BY <1>14, <2>1, <1>k, <1>f DEF Expire
  <2>2. CASE ~beating[w]
    BY <1>14, <2>2, <1>u DEF Expire
  <2> QED BY <2>1, <2>2
<1>15. CASE LoseRequest
  BY <1>15, <1>k, <1>f DEF LoseRequest
<1>16. CASE Evict
  BY <1>16, <1>u DEF Evict
<1>17. CASE ServerRestart
  BY <1>17, <1>k, <1>f DEF ServerRestart
<1>18. CASE UNCHANGED vars
  BY <1>18, <1>u DEF vars
<1> QED
  BY <1>1, <1>2, <1>3, <1>4, <1>5, <1>6, <1>7, <1>8, <1>9, <1>10, <1>11, <1>12, <1>13,
     <1>14, <1>15, <1>16, <1>17, <1>18 DEF Next, TrainingStep

LEMMA KeptCount == TypeOK /\ KeptInv => CohortKept
<1> SUFFICES ASSUME TypeOK, KeptInv, NoFault, joined = Workers
             PROVE  Count >= Cardinality(Workers)
  BY DEF CohortKept, NoFault
<1>1. Active \cup finished = Workers
  BY DEF TypeOK, KeptInv, Accounted, Active
<1>2. IsFiniteSet(Active) /\ IsFiniteSet(finished)
  BY <1>1, CohortAssumption, FS_Subset
<1>3. /\ IsFiniteSet(Active \cap finished)
      /\ Cardinality(Workers) =
           Cardinality(Active) + Cardinality(finished) - Cardinality(Active \cap finished)
  BY <1>1, <1>2, FS_Union, FS_Subset
<1>4. /\ Cardinality(Active) \in Nat /\ Cardinality(finished) \in Nat
      /\ Cardinality(Active \cap finished) \in Nat
  BY <1>2, <1>3, FS_CardinalityType
<1> QED BY <1>3, <1>4 DEF Count

\* Without faults the gate counts every worker that came, training or done.
THEOREM CohortStays == Spec => []CohortKept
<1>1. TypeOK /\ SoloInv /\ KeptInv /\ [Next]_vars => (TypeOK /\ SoloInv /\ KeptInv)'
  BY TypeStep, SoloStep, KeptStep DEF SoloInv
<1> QED BY TypeInit, SoloInit, KeptInit, KeptCount, <1>1, PTL DEF Spec

-----------------------------------------------------------------------------
(* The weights of a stage. *)

Safe == WeightsTypeOK /\ HistoryInv /\ DirectoryInv /\ CalmInv /\ FetchInv /\ DestVerified

-----------------------------------------------------------------------------
(* Lemmas about the constants and the history of submissions. *)

\* The numbers of stages and files are what they are said to be.
LEMMA NumberedThings ==
  /\ Cardinality(Stages) \in Nat \ {0} /\ Cardinality(Files) \in Nat \ {0}
  /\ Stages = 1..Cardinality(Stages) /\ Files = 1..Cardinality(Files)
  <1>1. Cardinality(Stages) \in Nat /\ Cardinality(Files) \in Nat
    BY StageAssumption, FS_CardinalityType
  <1>2. Cardinality(Stages) # 0 /\ Cardinality(Files) # 0
    BY StageAssumption, FS_EmptySet
  <1> QED BY <1>1, <1>2, StageAssumption

\* A process that is informed without having held the lock was asked for the
\* only model there ever was.
LEMMA OnlyModel ==
  ASSUME HistoryInv, Cardinality(asked) = 1
  PROVE  asked = {want}
  <1>1. PICK m : asked = {m} BY FS_Singleton DEF HistoryInv
  <1> QED BY <1>1 DEF HistoryInv

\* At most one process works on the directory.
LEMMA OneAtWork ==
  ASSUME WeightsTypeOK, NEW s \in Stages, NEW t \in Stages, pc[s] \in Working, pc[t] \in Working
  PROVE  s = t
  BY DEF WeightsTypeOK, Working

\* A step is one of these.
LEMMA StepIsOne ==
  ASSUME [WeightsNext]_weightVars
  PROVE  \/ \E s \in Stages : ShardStep(s)
         \/ \E s \in Stages : Dies(s)
         \/ \E s \in Stages : Restart(s)
         \/ FetchStep \/ FetchDies
         \/ \E m \in Models : Resubmit(m)
         \/ \E m \in Models : Publish(m)
         \/ UNCHANGED weightVars
  BY DEF WeightsNext

-----------------------------------------------------------------------------
(* Each part of the invariant is kept. *)

LEMMA SafeInit == WeightsInit => Safe
  <1> SUFFICES ASSUME NEW how \in {"shard", "fetch"}, WeightsInitAs(how) PROVE Safe
    BY DEF WeightsInit
  <1> USE NumberedThings, StageAssumption DEF WeightsInitAs
  <1>1. WeightsTypeOK
    <2>1. pc \in [Stages -> Steps] BY DEF Steps
    <2>2. \A s \in Stages : lock = s <=> pc[s] \in {"holder", "clears", "shards", "signs", "leaves"}
      BY Zenon
    <2>3. next \in 1..(Cardinality(Stages) + 1) /\ left \in Nat /\ crashes \in 0..MaxCrashes
      OBVIOUS
    <2> QED BY <2>1, <2>2, <2>3 DEF WeightsTypeOK
  <1>2. HistoryInv
    <2>1. IsFiniteSet({want}) BY FS_Singleton
    <2> QED BY <2>1 DEF HistoryInv, Working
  <1>3. DirectoryInv BY DEF DirectoryInv, Signed, Working
  <1>4. CalmInv BY DEF CalmInv
  <1>5. FetchInv BY DEF FetchInv
  <1>6. DestVerified BY DEF DestVerified
  <1> QED BY <1>1, <1>2, <1>3, <1>4, <1>5, <1>6 DEF Safe

\* A download: what is in place before the present file has been verified.
LEMMA FetchKeepsInv ==
  ASSUME WeightsTypeOK, FetchInv, DestVerified, [WeightsNext]_weightVars
  PROVE  FetchInv' /\ DestVerified'
  <1> USE NumberedThings, StageAssumption DEF FetchSet
  <1> DEFINE FetchType == [step: {"down", "started", "looks", "reads", "verifies", "loaded"},
                           read: Models \cup {None}, file: 1..(Cardinality(Files) + 1)]
  <1>0. /\ fetch \in FetchType /\ want \in Models
        /\ part \in [Files -> Models \cup {None, Torn}] /\ dest \in [Files -> Models \cup {None, Torn}]
    BY DEF FetchInv, WeightsTypeOK
  <1>1. CASE UNCHANGED fetchVars BY <1>1 DEF fetchVars, FetchInv, DestVerified
  <1>2. CASE ReadManifest
    <2>1. fetch' = [step |-> "looks", read |-> want, file |-> 1] BY <1>0, <1>2 DEF ReadManifest
    <2> QED BY <1>0, <1>2, <2>1 DEF ReadManifest, FetchInv, DestVerified
  <1>3. CASE LookAt
    <2> DEFINE f == fetch.file
    <2>1. f \in Files /\ fetch.step = "looks" /\ part' = part BY <1>3 DEF LookAt
    <2>2. CASE IsGood(f)
      <3>1. fetch' = [step |-> "looks", read |-> fetch.read, file |-> f + 1] /\ dest' = dest
        BY <1>0, <1>3, <2>2 DEF LookAt
      <3>2. \A g \in Files : g < f + 1 => g < f \/ g = f BY <2>1
      <3> QED BY <1>0, <2>1, <2>2, <3>1, <3>2 DEF IsGood, FetchInv, DestVerified
    <2>3. CASE ~IsGood(f)
      <3>1. /\ fetch' = [step |-> "reads", read |-> fetch.read, file |-> f]
            /\ dest' = [dest EXCEPT ![f] = None]
        BY <1>0, <1>3, <2>3 DEF LookAt
      <3> QED BY <1>0, <2>1, <3>1 DEF FetchInv, DestVerified
    <2> QED BY <2>2, <2>3
  <1>4. CASE Download
    <2>1. /\ fetch' = [step |-> "verifies", read |-> fetch.read, file |-> fetch.file]
          /\ dest' = dest /\ fetch.step = "reads"
      BY <1>0, <1>4 DEF Download
    <2> QED BY <1>0, <2>1 DEF FetchInv, DestVerified
  <1>5. CASE Verify
    <2> DEFINE f == fetch.file
    <2>1. f \in Files /\ fetch.step = "verifies" BY <1>5 DEF Verify, FetchInv
    <2>2. CASE Verified(f)
      <3>1. /\ fetch' = [step |-> "looks", read |-> fetch.read, file |-> f + 1]
            /\ dest' = [dest EXCEPT ![f] = part[f]]
        BY <1>0, <1>5, <2>2 DEF Verify
      <3>2. \A g \in Files : g < f + 1 => g < f \/ g = f BY <2>1
      <3>3. part[f] = fetch.read /\ fetch.read \in Models BY <2>1, <2>2 DEF Verified, FetchInv
      <3> QED BY <1>0, <2>1, <3>1, <3>2, <3>3 DEF FetchInv, DestVerified
    <2>3. CASE ~Verified(f)
      <3>1. fetch' = [step |-> "down", read |-> fetch.read, file |-> f] /\ dest' = dest
        BY <1>0, <1>5, <2>3 DEF Verify
      <3> QED BY <1>0, <3>1 DEF FetchInv, DestVerified
    <2> QED BY <2>2, <2>3
  <1>6. CASE Fetched
    <2>1. /\ fetch' = [step |-> "loaded", read |-> fetch.read, file |-> fetch.file]
          /\ dest' = dest /\ fetch.step = "looks" /\ fetch.file \notin Files
      BY <1>0, <1>6 DEF Fetched
    <2> QED BY <1>0, <2>1 DEF FetchInv, DestVerified
  <1>7. CASE FetchAgain
    <2>1. fetch' = [step |-> "started", read |-> fetch.read, file |-> 1] /\ dest' = dest
      BY <1>0, <1>7 DEF FetchAgain
    <2> QED BY <1>0, <2>1 DEF FetchInv, DestVerified
  <1>8. CASE FetchDies
    <2>1. fetch' = [step |-> "down", read |-> fetch.read, file |-> fetch.file] /\ dest' = dest
      BY <1>0, <1>8 DEF FetchDies
    <2> QED BY <1>0, <2>1 DEF FetchInv, DestVerified
  <1>9. UNCHANGED fetchVars \/ FetchStep \/ FetchDies
    BY StepIsOne, Zenon DEF ShardStep, Dies, Restart, Resubmit, Publish, weightVars
  <1> QED BY <1>1, <1>2, <1>3, <1>4, <1>5, <1>6, <1>7, <1>8, <1>9 DEF FetchStep

Contents == Models \cup {None, Torn}

\* A download writes a model, damaged bytes or nothing.
LEMMA FilesTyped ==
  ASSUME part \in [Files -> Contents], dest \in [Files -> Contents], want \in Models, FetchStep
  PROVE  part' \in [Files -> Contents] /\ dest' \in [Files -> Contents]
  <1>0. \A x \in Contents : /\ [part EXCEPT ![fetch.file] = x] \in [Files -> Contents]
                            /\ [dest EXCEPT ![fetch.file] = x] \in [Files -> Contents]
    OBVIOUS
  <1>1. {want, Torn, None} \subseteq Contents BY DEF Contents
  <1>2. CASE ReadManifest BY <1>2 DEF ReadManifest
  <1>3. CASE LookAt
    <2>1. part' = part /\ (dest' = dest \/ dest' = [dest EXCEPT ![fetch.file] = None])
      BY <1>3, Zenon DEF LookAt
    <2> QED BY <1>0, <1>1, <2>1
  <1>4. CASE Download
    <2>1. PICK x \in {want, Torn} : part' = [part EXCEPT ![fetch.file] = x] /\ dest' = dest
      BY <1>4, Zenon DEF Download
    <2> QED BY <1>0, <1>1, <2>1
  <1>5. CASE Verify
    <2>1. CASE fetch.file \in Files
      <3>1. part[fetch.file] \in Contents BY <2>1
      <3>2. /\ part' = [part EXCEPT ![fetch.file] = None]
            /\ dest' = dest \/ dest' = [dest EXCEPT ![fetch.file] = part[fetch.file]]
        BY <1>5, Zenon DEF Verify
      <3> QED BY <1>0, <1>1, <3>1, <3>2
    <2>2. CASE fetch.file \notin Files
      <3>1. \A x : [part EXCEPT ![fetch.file] = x] = part /\ [dest EXCEPT ![fetch.file] = x] = dest
        BY <2>2
      <3> QED BY <1>5, <3>1 DEF Verify
    <2> QED BY <2>1, <2>2
  <1>6. CASE Fetched BY <1>6 DEF Fetched
  <1>7. CASE FetchAgain BY <1>7 DEF FetchAgain
  <1> QED BY <1>2, <1>3, <1>4, <1>5, <1>6, <1>7 DEF FetchStep

\* Types.
LEMMA WeightsTypeStep ==
  ASSUME WeightsTypeOK, HistoryInv, FetchInv, FetchInv', [WeightsNext]_weightVars
  PROVE  WeightsTypeOK'
  <1> USE NumberedThings, StageAssumption DEF WeightsTypeOK, Steps
  <1>1. CASE \E s \in Stages : ShardStep(s)
    <2> PICK s \in Stages : ShardStep(s) BY <1>1
    <2> USE DEF fetchVars, StepTo
    <2>0. UNCHANGED <<via, want, asked, left, crashes, cut, fetchVars>> BY DEF ShardStep
    <2> USE <2>0
    <2>1. CASE TryLock(s) BY <2>1 DEF TryLock
    <2>2. CASE Check(s) BY <2>2 DEF Check
    <2>3. CASE Clear(s) BY <2>3 DEF Clear
    <2>4. CASE Cleared(s) BY <2>4 DEF Cleared
    <2>5. CASE WriteShard(s) BY <2>5 DEF WriteShard
    <2>6. CASE WriteManifest(s) BY <2>6 DEF WriteManifest
    <2>7. CASE WriteFingerprint(s) BY <2>7 DEF WriteFingerprint
    <2>8. CASE Unlock(s) BY <2>8 DEF Unlock
    <2>9. CASE Return(s) BY <2>9 DEF Return
    <2>10. CASE WaitTimesOut(s) BY <2>10 DEF WaitTimesOut
    <2>11. CASE Load(s) BY <2>11 DEF Load
    <2> QED BY <2>1, <2>2, <2>3, <2>4, <2>5, <2>6, <2>7, <2>8, <2>9, <2>10, <2>11 DEF ShardStep
  <1>2. CASE \E s \in Stages : Dies(s) BY <1>2 DEF Dies, StepTo, fetchVars
  <1>3. CASE \E s \in Stages : Restart(s) BY <1>3 DEF Restart, StepTo, fetchVars
  <1>4. CASE FetchStep
    <2> USE DEF shardVars
    <2>0. UNCHANGED <<via, want, asked, left, crashes, cut, shardVars>> BY <1>4 DEF FetchStep
    <2>1. part' \in [Files -> Contents] /\ dest' \in [Files -> Contents]
      BY <1>4, FilesTyped DEF Contents
    <2>2. fetch'.step \in {"down", "started", "looks", "reads", "verifies", "loaded"}
      BY DEF FetchInv
    <2> QED BY <2>0, <2>1, <2>2 DEF Contents
  <1>5. CASE FetchDies
    <2>1. part' \in [Files -> Models \cup {None, Torn}]
      <3>1. part' = part \/ part' = [part EXCEPT ![fetch.file] = Torn] BY <1>5, Zenon DEF FetchDies
      <3>2. [part EXCEPT ![fetch.file] = Torn] \in [Files -> Models \cup {None, Torn}] OBVIOUS
      <3> QED BY <3>1, <3>2
    <2>2. fetch'.step \in {"down", "started", "looks", "reads", "verifies", "loaded"}
      BY DEF FetchInv
    <2> QED BY <1>5, <2>1, <2>2 DEF FetchDies, shardVars
  <1>6. CASE \E m \in Models : Resubmit(m)
    <2> PICK m \in Models : Resubmit(m) BY <1>6
    <2>1. \A s \in Stages : lock # s BY DEF Resubmit
    <2>2. /\ pc' = [s \in Stages |-> "started"] /\ lock' = lock /\ loaded' = [s \in Stages |-> None]
          /\ UNCHANGED <<fetch, part, dest>>
      BY DEF Resubmit, fetchVars
    <2>3. /\ \A s \in Stages :
               lock' = s <=> pc'[s] \in {"holder", "clears", "shards", "signs", "leaves"}
          /\ pc' \in [Stages -> Steps] /\ loaded' \in [Stages -> Models \cup {None, Torn}]
      BY <2>1, <2>2
    <2>4. want' \in Models /\ asked' \subseteq Models /\ left' \in Nat /\ took' \subseteq Stages
      BY DEF Resubmit
    <2> QED BY <2>2, <2>3, <2>4 DEF Resubmit
  <1>7. CASE \E m \in Models : Publish(m) BY <1>7 DEF Publish, fetchVars, shardVars
  <1>8. CASE UNCHANGED weightVars BY <1>8 DEF weightVars, shardVars, fetchVars
  <1> QED BY <1>1, <1>2, <1>3, <1>4, <1>5, <1>6, <1>7, <1>8, StepIsOne

\* The history of submissions and of the lock.
LEMMA HistoryKept ==
  ASSUME WeightsTypeOK, HistoryInv, [WeightsNext]_weightVars
  PROVE  HistoryInv'
  <1> USE NumberedThings, StageAssumption DEF HistoryInv, Working
  <1>0. pc \in [Stages -> Steps] /\ took \subseteq Stages BY DEF WeightsTypeOK
  <1>1. CASE \E s \in Stages : ShardStep(s)
    <2> PICK s \in Stages : ShardStep(s) BY <1>1
    <2> USE DEF StepTo
    <2>0. UNCHANGED <<via, want, asked, left, crashes, cut, fetchVars>> BY DEF ShardStep
    <2> USE <1>0, <2>0
    <2>a. pc[s] # "down" /\ via = "shard"
      BY DEF ShardStep, TryLock, Check, Clear, Cleared, WriteShard, WriteManifest, WriteFingerprint,
             Unlock, Return, WaitTimesOut, Load
    <2>1. CASE TryLock(s) BY <2>a, <2>1 DEF TryLock
    <2>2. CASE Check(s) BY <2>a, <2>2 DEF Check
    <2>3. CASE Clear(s) BY <2>a, <2>3 DEF Clear
    <2>4. CASE Cleared(s) BY <2>a, <2>4 DEF Cleared
    <2>5. CASE WriteShard(s) BY <2>a, <2>5 DEF WriteShard
    <2>6. CASE WriteManifest(s) BY <2>a, <2>6 DEF WriteManifest
    <2>7. CASE WriteFingerprint(s) BY <2>a, <2>7 DEF WriteFingerprint
    <2>8. CASE Unlock(s) BY <2>a, <2>8 DEF Unlock
    <2>9. CASE Return(s) BY <2>a, <2>9 DEF Return
    <2>10. CASE WaitTimesOut(s) BY <2>a, <2>10 DEF WaitTimesOut
    <2>11. CASE Load(s) BY <2>a, <2>11 DEF Load
    <2> QED BY <2>1, <2>2, <2>3, <2>4, <2>5, <2>6, <2>7, <2>8, <2>9, <2>10, <2>11 DEF ShardStep
  <1>2. CASE \E s \in Stages : Dies(s) BY <1>0, <1>2 DEF Dies, StepTo, fetchVars
  <1>3. CASE \E s \in Stages : Restart(s) BY <1>0, <1>3 DEF Restart, StepTo, fetchVars
  <1>4. CASE FetchStep BY <1>4 DEF FetchStep, shardVars
  <1>5. CASE FetchDies BY <1>5 DEF FetchDies, shardVars
  <1>6. CASE \E m \in Models : Resubmit(m)
    <2> PICK m \in Models : Resubmit(m) BY <1>6
    <2>1. IsFiniteSet(asked \cup {m}) BY FS_AddElement
    <2> QED BY <1>0, <2>1 DEF Resubmit, fetchVars
  <1>7. CASE \E m \in Models : Publish(m)
    <2> PICK m \in Models : Publish(m) BY <1>7
    <2>1. IsFiniteSet(asked \cup {m}) BY FS_AddElement
    <2> QED BY <1>0, <2>1 DEF Publish, fetchVars, shardVars
  <1>8. CASE UNCHANGED weightVars BY <1>8 DEF weightVars, shardVars, fetchVars
  <1> QED BY <1>1, <1>2, <1>3, <1>4, <1>5, <1>6, <1>7, <1>8, StepIsOne

\* The directory, as long as nobody was killed who cleared it.
LEMMA DirectoryKept ==
  ASSUME WeightsTypeOK, WeightsTypeOK', HistoryInv, DirectoryInv, [WeightsNext]_weightVars
  PROVE  DirectoryInv'
  <1> SUFFICES ASSUME ~cut' PROVE DirectoryInv' BY DEF DirectoryInv
  <1> USE NumberedThings, StageAssumption
  <1>0. /\ pc \in [Stages -> Steps] /\ took \subseteq Stages /\ next \in 1..(Cardinality(Stages) + 1)
        /\ shards \in [Stages -> Models \cup {None, Torn}] /\ want \in Models
        /\ manifest \in Models \cup {None} /\ fingerprint \in Models \cup {None}
    BY DEF WeightsTypeOK
  <1>z. ~cut
    BY StepIsOne, Zenon DEF ShardStep, Dies, Restart, Resubmit, Publish, FetchStep, FetchDies, weightVars
  <1>h. \A s \in took : pc[s] # "started" BY DEF HistoryInv
  <1>l. \A s, t \in Stages : pc[s] \in Working /\ pc[t] \in Working => s = t BY OneAtWork
  <1>d. /\ (\A s \in Stages : pc[s] # "clears") => Signed
        /\ \A s \in Stages : pc[s] = "clears" => next = 1
        /\ \A s \in Stages : pc[s] = "shards" =>
             manifest = None /\ \A t \in Stages : t < next => shards[t] = want
        /\ \A s \in Stages : pc[s] = "signs" => manifest = want
        /\ \A s \in Stages : pc[s] = "leaves" => manifest = want /\ fingerprint = want
        /\ \A s \in took : pc[s] \notin Working =>
             /\ manifest = want /\ fingerprint = want
             /\ \A t \in Stages : pc[t] \notin {"clears", "shards", "signs"}
    BY <1>z DEF DirectoryInv
  <1>1. CASE \E s \in Stages : ShardStep(s)
    <2> PICK s \in Stages : ShardStep(s) BY <1>1
    <2>0. UNCHANGED <<via, want, asked, left, crashes, cut, fetchVars>> BY DEF ShardStep
    <2> USE <1>0, <1>h, <1>l, <1>d, <2>0 DEF StepTo, Working, DirectoryInv, Signed
    <2>1. CASE TryLock(s) BY <2>1 DEF TryLock
    <2>2. CASE Check(s) BY <2>2 DEF Check, Stale
    <2>3. CASE Clear(s) BY <2>3 DEF Clear
    <2>4. CASE Cleared(s) BY <2>4 DEF Cleared, Empty
    <2>5. CASE WriteShard(s) BY <2>5 DEF WriteShard
    <2>6. CASE WriteManifest(s) BY <2>6 DEF WriteManifest, Written
    <2>7. CASE WriteFingerprint(s) BY <2>7 DEF WriteFingerprint
    <2>8. CASE Unlock(s) BY <2>8 DEF Unlock
    <2>9. CASE Return(s) BY <2>9 DEF Return
    <2>10. CASE WaitTimesOut(s) BY <2>10 DEF WaitTimesOut
    <2>11. CASE Load(s) BY <2>11 DEF Load
    <2> QED BY <2>1, <2>2, <2>3, <2>4, <2>5, <2>6, <2>7, <2>8, <2>9, <2>10, <2>11 DEF ShardStep
  <1> USE <1>0, <1>h, <1>l, <1>d DEF StepTo, Working, DirectoryInv, Signed
  <1>2. CASE \E s \in Stages : Dies(s)
    <2> PICK s \in Stages : Dies(s) BY <1>2
    <2>1. pc[s] # "clears" /\ UNCHANGED <<next, want, manifest, fingerprint, shards>> BY DEF Dies
    <2>2. pc' = [pc EXCEPT ![s] = "down"] /\ took' = took \ {s} BY DEF Dies
    <2> QED BY <2>1, <2>2
  <1>3. CASE \E s \in Stages : Restart(s) BY <1>3 DEF Restart
  <1>4. CASE FetchStep BY <1>4 DEF FetchStep, shardVars
  <1>5. CASE FetchDies BY <1>5 DEF FetchDies, shardVars
  <1>6. CASE \E m \in Models : Resubmit(m) BY <1>6 DEF Resubmit
  <1>7. CASE \E m \in Models : Publish(m) BY <1>7 DEF Publish, shardVars, HistoryInv
  <1>8. CASE UNCHANGED weightVars BY <1>8 DEF weightVars, shardVars
  <1> QED BY <1>1, <1>2, <1>3, <1>4, <1>5, <1>6, <1>7, <1>8, StepIsOne

\* A run without crashes.
LEMMA CalmKept ==
  ASSUME WeightsTypeOK, WeightsTypeOK', HistoryInv, HistoryInv', DirectoryInv, CalmInv,
         [WeightsNext]_weightVars
  PROVE  CalmInv'
  <1> SUFFICES ASSUME crashes' = 0 PROVE CalmInv' BY DEF CalmInv
  <1> USE NumberedThings, StageAssumption
  <1>0. /\ pc \in [Stages -> Steps] /\ took \subseteq Stages /\ want \in Models
        /\ shards \in [Stages -> Models \cup {None, Torn}] /\ crashes \in Nat
        /\ loaded \in [Stages -> Models \cup {None, Torn}]
        /\ manifest \in Models \cup {None} /\ fingerprint \in Models \cup {None}
        /\ \A s \in Stages : lock = s <=> pc[s] \in Working
    BY DEF WeightsTypeOK, Working
  <1>z. /\ crashes = 0
        /\ \/ \E s \in Stages : ShardStep(s) \/ Restart(s)
           \/ FetchStep \/ UNCHANGED weightVars
           \/ \E m \in Models : Resubmit(m) \/ Publish(m)
    <2>1. (\A s \in Stages : ~Dies(s)) /\ ~FetchDies BY <1>0 DEF Dies, FetchDies
    <2> QED BY <2>1, StepIsOne DEF ShardStep, Restart, Resubmit, Publish, FetchStep, weightVars
  <1>h. /\ \A s \in took : pc[s] \notin {"started", "down"}
        /\ want \in asked /\ lock \in Stages \cup {Nobody}
        /\ via \in {"shard", "fetch"}
        /\ via = "fetch" => took = {} /\ \A s \in Stages : pc[s] = "down"
    BY DEF HistoryInv
  <1>l. \A s, t \in Stages : pc[s] \in Working /\ pc[t] \in Working => s = t BY OneAtWork
  <1>c. /\ ~cut
        /\ \A s \in Stages : pc[s] # "failed"
        /\ via = "shard" /\ manifest = None /\ lock = Nobody => \A s \in Stages : pc[s] = "started"
        /\ (\A s \in Stages : pc[s] \notin {"clears", "signs"}) => (manifest # None => fingerprint # None)
        /\ {manifest, fingerprint} \subseteq asked \cup {None}
        /\ asked = {want} =>
             /\ \A s \in Stages : pc[s] # "clears"
             /\ \A s \in Stages : pc[s] = "returned" => manifest # None
        /\ \A s \in Stages : pc[s] = "loaded" /\ (s \in took \/ asked = {want}) => loaded[s] = want
    BY <1>z DEF CalmInv
  <1>d. /\ (\A s \in Stages : pc[s] # "clears") => Signed
        /\ \A s \in Stages : pc[s] = "leaves" => manifest = want
        /\ \A s \in Stages : pc[s] = "signs" => manifest = want
        /\ \A s \in took : pc[s] \notin Working =>
             manifest = want /\ \A t \in Stages : pc[t] \notin {"clears", "shards", "signs"}
    BY <1>c DEF DirectoryInv
  <1>1. CASE \E s \in Stages : ShardStep(s)
    <2> PICK s \in Stages : ShardStep(s) BY <1>1
    <2>0. UNCHANGED <<via, want, asked, left, crashes, cut, fetchVars>> BY DEF ShardStep
    <2> USE <1>0, <1>z, <1>h, <1>l, <1>c, <1>d, <2>0 DEF StepTo, Working, CalmInv, Signed
    <2>1. CASE TryLock(s) BY <2>1 DEF TryLock
    <2>2. CASE Check(s) BY <2>2 DEF Check, Stale
    <2>3. CASE Clear(s) BY <2>3 DEF Clear
    <2>4. CASE Cleared(s) BY <2>4 DEF Cleared, Empty
    <2>5. CASE WriteShard(s) BY <2>5 DEF WriteShard
    <2>6. CASE WriteManifest(s) BY <2>6 DEF WriteManifest, Written
    <2>7. CASE WriteFingerprint(s) BY <2>7 DEF WriteFingerprint
    <2>8. CASE Unlock(s) BY <2>8 DEF Unlock
    <2>9. CASE Return(s) BY <2>9 DEF Return, MayReturn
    <2>10. CASE WaitTimesOut(s) BY <2>10 DEF WaitTimesOut, MayTimeOut
    <2>11. CASE Load(s) BY <2>11 DEF Load
    <2> QED BY <2>1, <2>2, <2>3, <2>4, <2>5, <2>6, <2>7, <2>8, <2>9, <2>10, <2>11 DEF ShardStep
  <1> USE <1>0, <1>z, <1>h, <1>l, <1>c DEF StepTo, Working, CalmInv
  <1>2. CASE \E s \in Stages : Restart(s) BY <1>2 DEF Restart
  <1>3. CASE FetchStep BY <1>3 DEF FetchStep, shardVars
  <1>4. CASE \E m \in Models : Resubmit(m) BY <1>4 DEF Resubmit
  <1>5. CASE \E m \in Models : Publish(m) BY <1>5 DEF Publish, shardVars
  <1>6. CASE UNCHANGED weightVars BY <1>6 DEF weightVars, shardVars
  <1> QED BY <1>z, <1>1, <1>2, <1>3, <1>4, <1>5, <1>6

LEMMA SafeStep == Safe /\ [WeightsNext]_weightVars => Safe'
  BY WeightsTypeStep, FetchKeepsInv, HistoryKept, DirectoryKept, CalmKept DEF Safe

-----------------------------------------------------------------------------
(* The properties. *)

LEMMA SafeIsWhole == Safe => WeightsWhole
  <1> SUFFICES ASSUME Safe PROVE WeightsWhole OBVIOUS
  <1> USE NumberedThings, StageAssumption DEF Safe
  <1>1. LoadedWhole
    <2> SUFFICES ASSUME NEW s \in Stages, pc[s] = "loaded", Informed(s), crashes = 0
                 PROVE  loaded[s] = want
      BY DEF LoadedWhole
    <2>1. s \in took \/ asked = {want} BY OnlyModel DEF Informed
    <2> QED BY <2>1 DEF CalmInv
  <1>2. NoneGivesUp BY DEF NoneGivesUp, CalmInv
  <1>3. FetchedWhole BY DEF FetchedWhole, FetchInv
  <1> QED BY <1>1, <1>2, <1>3 DEF WeightsWhole

\* The invariant holds of every run.
LEMMA SafeAlways == WeightsSpec => []Safe
  BY SafeInit, SafeStep, PTL DEF WeightsSpec

\* What is loaded or fetched is whole and of one model, and nobody gives up
\* unless a process has died, for any number of stages, files and models.
THEOREM WeightsAreWhole == WeightsSpec => []WeightsWhole
  BY SafeAlways, SafeIsWhole, PTL

LEMMA ReturnIsWhole ==
  ASSUME Safe, [WeightsNext]_weightVars, NEW s \in Stages,
         pc[s] # "returned", pc'[s] = "returned", Informed(s), ~cut
  PROVE  shards[s] = want
  <1> USE NumberedThings, StageAssumption
  <1>0. pc \in [Stages -> Steps] BY DEF Safe, WeightsTypeOK
  <1>1. Return(s)
    <2>1. CASE \E t \in Stages : ShardStep(t)
      BY <1>0, <2>1 DEF ShardStep, StepTo, TryLock, Check, Clear, Cleared, WriteShard, WriteManifest,
                        WriteFingerprint, Unlock, Return, WaitTimesOut, Load
    <2>2. CASE \E t \in Stages : Dies(t) BY <1>0, <2>2 DEF Dies, StepTo
    <2>3. CASE \E t \in Stages : Restart(t) BY <1>0, <2>3 DEF Restart, StepTo
    <2>4. CASE UNCHANGED pc BY <2>4
    <2>5. CASE \E m \in Models : Resubmit(m) BY <2>5 DEF Resubmit
    <2> QED BY StepIsOne, <2>1, <2>2, <2>3, <2>4, <2>5
            DEF FetchStep, FetchDies, Publish, weightVars, shardVars
  <1>2. manifest # None /\ pc[s] = "waits" BY <1>1 DEF Return, MayReturn
  <1>3. CASE s \in took
    BY <1>2, <1>3 DEF Safe, DirectoryInv, Working, Signed
  <1>4. CASE s \notin took
    <2>1. asked = {want} /\ crashes = 0 BY <1>4, OnlyModel DEF Informed, Safe
    <2>2. manifest = want /\ \A t \in Stages : pc[t] # "clears" BY <1>2, <2>1 DEF Safe, CalmInv
    <2> QED BY <1>2, <2>2 DEF Safe, DirectoryInv, Signed
  <1> QED BY <1>3, <1>4

\* ensure_shard returns a directory that is complete and of the model asked
\* for to whoever has had the lock, and to everybody in a run without crashes
\* where only one model was ever asked for, unless a process was killed in the
\* midst of clearing.
THEOREM WeightsReturnedWhole == WeightsSpec => ReturnedWhole
  <1>1. Safe /\ [WeightsNext]_weightVars =>
          [\A s \in Stages : pc[s] # "returned" /\ pc'[s] = "returned" /\ Informed(s) /\ ~cut =>
             shards[s] = want]_weightVars
    BY ReturnIsWhole
  <1> QED BY <1>1, SafeAlways, PTL DEF WeightsSpec, ReturnedWhole

LEMMA VerifiedKept ==
  ASSUME Safe, [WeightsNext]_weightVars, NEW f \in Files, dest[f] = fetch.read, dest[f] # None
  PROVE  dest'[f] = dest[f]
  <1>1. dest \in [Files -> Models \cup {None, Torn}] BY DEF Safe, WeightsTypeOK
  <1>2. CASE dest' = dest BY <1>2
  <1>3. CASE LookAt BY <1>1, <1>3 DEF LookAt, IsGood
  <1>4. CASE Verify
    <2>1. \/ dest' = dest
          \/ dest' = [dest EXCEPT ![fetch.file] = part[fetch.file]] /\ part[fetch.file] = fetch.read
      BY <1>4, Zenon DEF Verify, Verified
    <2> QED BY <1>1, <2>1
  <1> QED
    BY <1>2, <1>3, <1>4, StepIsOne
       DEF FetchStep, ReadManifest, Download, Fetched, FetchAgain, ShardStep, Dies, Restart,
           FetchDies, Resubmit, Publish, weightVars, fetchVars

\* A file that is verified against the manifest read is never fetched again.
THEOREM FetchResumes == WeightsSpec => ResumeKeeps
  <1>1. Safe /\ [WeightsNext]_weightVars =>
          [\A f \in Files : dest[f] = fetch.read /\ dest[f] # None => dest'[f] = dest[f]]_weightVars
    BY VerifiedKept
  <1> QED BY <1>1, SafeAlways, PTL DEF WeightsSpec, ResumeKeeps
==============================================================================
