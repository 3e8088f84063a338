--------------------------- MODULE HubGatewayProofs ---------------------------
(***************************************************************************)
(* The checkpoint channel keeps its promises: proofs that, for any tier of *)
(* relays, any workers and any faults, the hub publishes the model of one  *)
(* outer step, a relay keeps the newest checkpoints within its bound, and  *)
(* a worker only ever holds a checkpoint that was offered whole.  And the  *)
(* load the gateway routes by is true: for any replicas and any finite set *)
(* of requests, a target has no more on account than is under way, and     *)
(* misses only what was under way when it left the table.                  *)
(***************************************************************************)
EXTENDS RelayHub, Gateway, FiniteSetTheorems, WellFoundedInduction, TLAPS

-----------------------------------------------------------------------------
(* Sets of versions. *)

LEMMA LeastNatural ==
  ASSUME NEW T \in SUBSET Nat, T # {}
  PROVE  \E x \in T : \A y \in T : x <= y
<1>1. PICK x \in T : \A y \in T : ~ (<<y, x>> \in OpToRel(<, Nat))
  BY NatLessThanWellFounded, WFMin
<1>2. \A y \in T : ~ (y < x)
  BY <1>1 DEF OpToRel
<1> QED BY <1>2

LEMMA VersionsFinite ==
  ASSUME NEW S \in SUBSET Versions
  PROVE  /\ S \subseteq Nat \ {0} /\ IsFiniteSet(S) /\ Cardinality(S) \in Nat
         /\ S # {} => Cardinality(S) > 0
<1>1. MaxRevision + 1 \in Nat /\ IsFiniteSet(1..MaxRevision + 1)
  BY RelayAssumption, FS_Interval
<1>2. IsFiniteSet(S) /\ Cardinality(S) \in Nat
  BY <1>1, FS_Subset, FS_CardinalityType DEF Versions
<1>3. S # {} => Cardinality(S) > 0
  BY <1>2, FS_EmptySet
<1> QED BY <1>1, <1>2, <1>3 DEF Versions

\* A set of versions has a newest and an oldest one.
LEMMA NewestVersion ==
  ASSUME NEW S \in SUBSET Versions, S # {}
  PROVE  Max(S) \in S /\ \A y \in S : Max(S) >= y
<1> DEFINE T == {MaxRevision + 1 - v : v \in S}
<1>1. MaxRevision \in Nat /\ \A v \in S : v \in Nat /\ MaxRevision + 1 - v \in Nat
  BY RelayAssumption DEF Versions
<1>2. T \in SUBSET Nat /\ T # {}
  BY <1>1
<1>3. PICK t \in T : \A y \in T : t <= y
  BY <1>2, LeastNatural
<1>4. PICK x \in S : t = MaxRevision + 1 - x
  BY <1>3
<1>5. \A y \in S : x >= y
  <2> SUFFICES ASSUME NEW y \in S PROVE x >= y
    OBVIOUS
  <2>1. t <= MaxRevision + 1 - y
    BY <1>3
  <2> QED BY <1>1, <1>4, <2>1
<1>6. (CHOOSE z \in S : \A y \in S : z >= y) \in S
      /\ \A y \in S : (CHOOSE z \in S : \A u \in S : z >= u) >= y
  BY <1>5
<1> QED BY <1>6 DEF Max

LEMMA OldestVersion ==
  ASSUME NEW S \in SUBSET Versions, S # {}
  PROVE  \E x \in S : \A y \in S \ {x} : y > x
<1>1. S \in SUBSET Nat
  BY VersionsFinite
<1>2. PICK x \in S : \A y \in S : x <= y
  BY <1>1, LeastNatural
<1> QED BY <1>1, <1>2

LEMMA MinOfTwo ==
  ASSUME NEW i \in Nat, NEW j \in Nat
  PROVE  Min({i, j}) = IF i <= j THEN i ELSE j
<1> DEFINE m == IF i <= j THEN i ELSE j
<1>1. m \in {i, j} /\ \A y \in {i, j} : m <= y
  OBVIOUS
<1>2. \A x \in {i, j} : (\A y \in {i, j} : x <= y) => x = m
  OBVIOUS
<1> HIDE DEF m
<1>3. (CHOOSE x \in {i, j} : \A y \in {i, j} : x <= y) = m
  BY <1>1, <1>2
<1> QED BY <1>3 DEF Min, m

\* What an eviction leaves: as many versions as the relay retains, the newest.
LEMMA KeptNewest ==
  ASSUME NEW S \in SUBSET Versions, S # {}, Cardinality(S) <= RetainLast + 1
  PROVE  /\ Kept(S) \subseteq S /\ Cardinality(Kept(S)) <= RetainLast
         /\ Max(S) \in Kept(S)
<1> DEFINE k == Min({RetainLast, Cardinality(S)})
           Good(K) == \A v \in K, u \in S \ K : v > u
<1>1. /\ RetainLast \in Nat \ {0} /\ IsFiniteSet(S)
      /\ Cardinality(S) \in Nat /\ Cardinality(S) > 0 /\ S \subseteq Nat
  BY VersionsFinite, RelayAssumption
<1>2. k = IF RetainLast <= Cardinality(S) THEN RetainLast ELSE Cardinality(S)
  BY <1>1, MinOfTwo
<1>3. \E K \in kSubset(k, S) : Good(K)
  <2>1. CASE Cardinality(S) <= RetainLast
    <3>1. k = Cardinality(S)
      BY <1>1, <1>2, <2>1
    <3>2. S \in kSubset(k, S)
      BY <3>1 DEF kSubset
    <3> QED BY <3>2
  <2>2. CASE ~ (Cardinality(S) <= RetainLast)
    <3>1. k = RetainLast /\ Cardinality(S) = RetainLast + 1
      BY <1>1, <1>2, <2>2
    <3>2. PICK x \in S : \A y \in S \ {x} : y > x
      BY OldestVersion
    <3>3. Cardinality(S \ {x}) = RetainLast
      <4>1. Cardinality(S \ {x}) = Cardinality(S) - 1
        BY <1>1, FS_RemoveElement
      <4> QED BY <4>1, <3>1, <1>1, RelayAssumption
    <3>4. S \ {x} \in kSubset(k, S)
      BY <3>1, <3>3 DEF kSubset
    <3>5. Good(S \ {x})
      BY <3>2
    <3> QED BY <3>4, <3>5
  <2> QED BY <2>1, <2>2
<1>4. Kept(S) \in kSubset(k, S) /\ Good(Kept(S))
  BY <1>3 DEF Kept
<1>5. Kept(S) \subseteq S /\ Cardinality(Kept(S)) = k
  BY <1>4 DEF kSubset
<1>6. k \in Nat /\ k > 0 /\ k <= RetainLast
  BY <1>1, <1>2
<1>7. Kept(S) # {}
  <2>1. Cardinality({}) = 0
    BY FS_EmptySet
  <2> HIDE DEF k
  <2> QED BY <1>5, <1>6, <2>1
<1>8. Max(S) \in Kept(S)
  <2> SUFFICES ASSUME Max(S) \notin Kept(S) PROVE FALSE
    OBVIOUS
  <2>1. PICK v \in Kept(S) : TRUE
    BY <1>7
  <2>2. v > Max(S) /\ Max(S) >= v /\ v \in Nat /\ Max(S) \in Nat
    BY <1>1, <1>4, <1>5, <2>1, NewestVersion
  <2> QED BY <2>2
<1> QED BY <1>5, <1>6, <1>8

LEMMA FaultCounted ==
  ASSUME faults \in [FaultKinds -> Nat], NEW k \in FaultKinds, Fault(k)
  PROVE  faults' \in [FaultKinds -> Nat] /\ faults'[k] > faults[k]
  BY DEF Fault

-----------------------------------------------------------------------------
(* Commits. *)

IInv == CommitInv /\ HubInv /\ RelayInv /\ PoolInv

LEMMA Bounds ==
  /\ NumShards \in Nat \ {0} /\ RetainLast \in Nat \ {0} /\ MaxRetries \in Nat \ {0}
  /\ MaxRevision \in Nat /\ Len(Tier) \in Nat \ {0}
  BY RelayAssumption

LEMMA CommitInit == Init => CommitInv
<1> SUFFICES ASSUME Init PROVE CommitInv
  OBVIOUS
<1>1. model = [p \in Parts |-> Stamp(life, IF p < writing THEN revision + 1 ELSE revision)]
  BY Bounds DEF Init, Parts
<1>2. faults \in [FaultKinds -> Nat]
  BY DEF Init
<1> QED BY <1>1, <1>2, Bounds DEF Init, CommitInv

LEMMA CommitStep == CommitInv /\ HubInv /\ [Next]_vars => CommitInv'
<1> SUFFICES ASSUME CommitInv, HubInv, [Next]_vars PROVE CommitInv'
  OBVIOUS
<1>a. hub.rev \in 0..MaxRevision
  BY DEF HubInv, Hubs
<1>b. ASSUME UNCHANGED server, lastPublished' \in -1..MaxRevision, faults' \in [FaultKinds -> Nat]
      PROVE  CommitInv'
  BY <1>b DEF CommitInv, server
<1>1. CASE StartCommit
  <2>1. \A p \in Parts : ~ (p < 0) /\ ~ (p < 1)
    BY Bounds DEF Parts
  <2>2. writing = 0 /\ writing' = 1 /\ revision < MaxRevision
        /\ UNCHANGED <<life, revision, model, lastPublished, faults>>
    BY <1>1 DEF StartCommit, LockFree
  <2>3. model = [p \in Parts |-> Stamp(life, IF p < 1 THEN revision + 1 ELSE revision)]
    BY <2>1, <2>2 DEF CommitInv
  <2>4. 1 \in 0..NumShards + 1
    BY Bounds
  <2> QED BY <2>2, <2>3, <2>4 DEF CommitInv
<1>2. CASE WritePart
  <2> DEFINE Before(p) == IF p < writing THEN revision + 1 ELSE revision
             After(p) == IF p < writing + 1 THEN revision + 1 ELSE revision
  <2>1. /\ writing \in Parts /\ writing' = writing + 1
        /\ model' = [model EXCEPT ![writing] = Stamp(life, revision + 1)]
        /\ UNCHANGED <<life, revision, lastPublished, faults>>
    BY <1>2 DEF WritePart
  <2>2. writing + 1 \in 0..NumShards + 1 /\ writing # 0
    BY <2>1, Bounds DEF Parts
  <2>3. \A p \in Parts : p # writing => Before(p) = After(p)
    BY <2>1, Bounds DEF Parts
  <2>4. After(writing) = revision + 1
    BY <2>1, Bounds DEF Parts
  <2>5. model = [p \in Parts |-> Stamp(life, Before(p))]
    BY DEF CommitInv
  <2> HIDE DEF Before, After
  <2>6. model' = [p \in Parts |-> Stamp(life, After(p))]
    BY <2>1, <2>3, <2>4, <2>5
  <2> QED BY <2>1, <2>2, <2>6 DEF CommitInv, After
<1>3. CASE FinishCommit
  <2>1. /\ writing = NumShards + 1 /\ revision' = revision + 1 /\ writing' = 0
        /\ UNCHANGED <<life, model, lastPublished, faults>>
    BY <1>3 DEF FinishCommit
  <2>2. \A p \in Parts : p < writing /\ ~ (p < 0)
    BY <2>1, Bounds DEF Parts
  <2>3. model = [p \in Parts |-> Stamp(life, revision + 1)]
    BY <2>2 DEF CommitInv
  <2>4. model' = [p \in Parts |-> Stamp(life', IF p < writing' THEN revision' + 1 ELSE revision')]
    BY <2>1, <2>2, <2>3
  <2>5. revision + 1 \in 0..MaxRevision
    BY <2>1, Bounds DEF CommitInv
  <2> QED BY <2>1, <2>4, <2>5, Bounds DEF CommitInv
<1>4. CASE HubRestart
  <2>1. /\ life' = life + 1 /\ revision' = 0 /\ writing' = 0 /\ lastPublished' = -1
        /\ model' = [p \in Parts |-> Stamp(life', 0)]
    BY <1>4 DEF HubRestart
  <2>2. \A p \in Parts : ~ (p < 0)
    BY Bounds DEF Parts
  <2>3. model' = [p \in Parts |-> Stamp(life', IF p < writing' THEN revision' + 1 ELSE revision')]
    BY <2>1, <2>2
  <2>4. faults' \in [FaultKinds -> Nat]
    BY <1>4, FaultCounted DEF HubRestart, CommitInv, FaultKinds
  <2>5. life + 1 \in Nat \ {0}
    BY DEF CommitInv
  <2> QED BY <2>1, <2>3, <2>4, <2>5, Bounds DEF CommitInv
<1>5. CASE Publishing
  <2>1. UNCHANGED <<server, faults>> /\ lastPublished' \in {lastPublished, hub.rev}
    BY <1>5 DEF Publishing, Poll, CopyPart, Recheck, Post, PostIsRefused, PublishFails,
                PublishedRevision
  <2> QED BY <1>a, <1>b, <2>1 DEF CommitInv
<1>6. CASE PostFails
  <2>1. UNCHANGED <<server, lastPublished>> /\ Fault("call")
    BY <1>6 DEF PostFails, PublishFails
  <2> QED BY <1>b, <2>1, FaultCounted DEF CommitInv, FaultKinds
<1>7. ASSUME NEW w \in Workers, Fetching(w) \/ AskFails(w) \/ WorkerRestart(w) PROVE CommitInv'
  <2>1. UNCHANGED <<server, lastPublished>>
        /\ (UNCHANGED faults \/ Fault("call") \/ Fault("worker"))
    BY <1>7 DEF Fetching, AskManifest, FetchAgain, AskShard, Reassemble, AskFails, WorkerRestart
  <2> QED BY <1>b, <2>1, FaultCounted DEF CommitInv, FaultKinds
<1>8. ASSUME NEW r \in Relays, RelayRestart(r) PROVE CommitInv'
  <2>1. UNCHANGED <<server, lastPublished>> /\ Fault("relay")
    BY <1>8 DEF RelayRestart
  <2> QED BY <1>b, <2>1, FaultCounted DEF CommitInv, FaultKinds
<1>9. CASE UNCHANGED vars
  BY <1>9, <1>b DEF vars, CommitInv
<1> QED
  BY <1>1, <1>2, <1>3, <1>4, <1>5, <1>6, <1>7, <1>8, <1>9 DEF Next, Committing

-----------------------------------------------------------------------------
(* The hub. *)

LEMMA StampTyped ==
  ASSUME NEW l \in Nat, NEW rev \in Nat
  PROVE  Stamp(l, rev) \in Stamps
  BY DEF Stamp, Stamps

LEMMA ModelTyped ==
  ASSUME CommitInv, NEW p \in Parts
  PROVE  model[p] \in Stamps /\ (LockFree => model[p] = Stamp(life, revision))
<1>1. life \in Nat /\ revision \in Nat /\ revision + 1 \in Nat
  BY Bounds DEF CommitInv
<1>2. model[p] = Stamp(life, IF p < writing THEN revision + 1 ELSE revision)
  BY DEF CommitInv
<1>3. Stamp(life, revision) \in Stamps /\ Stamp(life, revision + 1) \in Stamps
  BY <1>1, StampTyped
<1>4. LockFree => ~ (p < writing)
  BY Bounds DEF LockFree, Parts
<1> QED BY <1>2, <1>3, <1>4

LEMMA HubUpdates ==
  ASSUME NEW h \in Hubs, NEW pc \in {"poll", "copy", "post"}, NEW rev \in 0..MaxRevision,
         NEW copy \in Seq(Stamps), NEW tries \in Nat, NEW target \in 1..Len(Tier),
         NEW next \in 0..NumShards
  PROVE  /\ [h EXCEPT !.copy = copy] \in Hubs
         /\ [h EXCEPT !.pc = pc, !.rev = rev] \in Hubs
         /\ [h EXCEPT !.pc = pc, !.rev = rev, !.tries = tries] \in Hubs
         /\ [h EXCEPT !.rev = rev, !.tries = tries, !.copy = copy] \in Hubs
         /\ [h EXCEPT !.next = next] \in Hubs
         /\ [h EXCEPT !.target = target, !.next = next] \in Hubs
<1> DEFINE Pcs == {"poll", "copy", "post"}
           Revs == 0..MaxRevision
           Copies == Seq(Stamps)
           Targets == 1..Len(Tier)
           Steps == 0..NumShards
<1>1. Hubs = [pc: Pcs, rev: Revs, copy: Copies, tries: Nat, target: Targets, next: Steps]
  BY DEF Hubs
<1>2. pc \in Pcs /\ rev \in Revs /\ copy \in Copies /\ target \in Targets /\ next \in Steps
  OBVIOUS
<1> HIDE DEF Pcs, Revs, Copies, Targets, Steps
<1> QED BY <1>1, <1>2

LEMMA PollingTyped ==
  ASSUME hub' = Polling
  PROVE  HubInv'
<1>1. hub' \in Hubs'
  BY Bounds DEF Polling, Hubs
<1>2. hub'.pc = "poll"
  BY DEF Polling
<1> QED BY <1>1, <1>2 DEF HubInv, PublishedWhole

LEMMA HubInit == Init => HubInv
<1> SUFFICES ASSUME Init PROVE HubInv
  OBVIOUS
<1>1. hub \in Hubs /\ hub.pc = "poll"
  BY Bounds DEF Init, Polling, Hubs
<1> QED BY <1>1 DEF HubInv, PublishedWhole

\* Commits leave the hub and what was offered alone.
LEMMA HubAcrossCommits ==
  ASSUME CommitInv, HubInv, Committing
  PROVE  HubInv'
<1>1. UNCHANGED <<hub, life, offered>>
  BY DEF Committing, StartCommit, WritePart, FinishCommit
<1>2. revision \in Nat /\ revision' \in {revision, revision + 1} /\ hub.rev \in Nat
  BY Bounds DEF Committing, StartCommit, WritePart, FinishCommit, CommitInv, HubInv, Hubs
<1>3. LockFree' => revision' = revision + 1
  <2>1. CASE StartCommit
    BY <2>1 DEF StartCommit, LockFree
  <2>2. CASE WritePart
    BY <2>2, Bounds DEF WritePart, LockFree, Parts
  <2>3. CASE FinishCommit
    BY <2>3 DEF FinishCommit
  <2> QED BY <2>1, <2>2, <2>3 DEF Committing
<1>4. hub.pc = "copy" =>
        /\ hub.rev <= revision' /\ Len(hub.copy) <= NumShards
        /\ ~ (hub.rev = revision' /\ LockFree')
  BY <1>2, <1>3 DEF HubInv
<1> QED BY <1>1, <1>4 DEF HubInv, Hubs, PublishedWhole, Version

LEMMA HubPolls ==
  ASSUME CommitInv, HubInv, Poll
  PROVE  HubInv'
<1>1. hub' = [Polling EXCEPT !.pc = "copy", !.rev = revision] /\ UNCHANGED <<revision, offered>>
  BY DEF Poll, server
<1>2. hub'.pc = "copy" /\ hub'.rev = revision /\ hub'.copy = <<>>
  BY <1>1 DEF Polling
<1>3. hub' \in Hubs
  <2>1. Polling \in Hubs
    BY Bounds DEF Polling, Hubs
  <2> QED BY <1>1, <2>1, HubUpdates, Bounds DEF CommitInv, Hubs
<1>4. revision <= revision /\ 0 <= NumShards
  BY Bounds DEF CommitInv
<1> QED BY <1>1, <1>2, <1>3, <1>4 DEF HubInv, PublishedWhole, Hubs

LEMMA HubCopies ==
  ASSUME CommitInv, HubInv, CopyPart
  PROVE  HubInv'
<1> DEFINE n == Len(hub.copy)
<1>1. /\ hub.pc = "copy" /\ n < NumShards
      /\ hub' = [hub EXCEPT !.copy = Append(hub.copy, model[n + 1])]
      /\ UNCHANGED <<server, offered>>
  BY DEF CopyPart
<1>2. hub \in Hubs /\ hub.copy \in Seq(Stamps) /\ n \in Nat
  BY DEF HubInv, Hubs
<1>3. n + 1 \in Parts
  BY <1>1, <1>2, Bounds DEF Parts
<1>4. model[n + 1] \in Stamps /\ (LockFree => model[n + 1] = Stamp(life, revision))
  BY <1>3, ModelTyped
<1>5. /\ hub'.pc = "copy" /\ hub'.rev = hub.rev
      /\ hub'.copy = Append(hub.copy, model[n + 1])
  BY <1>1, <1>2 DEF Hubs
<1>6. hub' \in Hubs
  <2>1. Append(hub.copy, model[n + 1]) \in Seq(Stamps)
    BY <1>2, <1>4
  <2>2. [hub EXCEPT !.copy = Append(hub.copy, model[n + 1])] \in Hubs
    <3> DEFINE c == Append(hub.copy, model[n + 1])
    <3> HIDE DEF c
    <3>1. c \in Seq(Stamps)
      BY <2>1 DEF c
    <3>2. [hub EXCEPT !.copy = c] \in Hubs
      <4>1. 0 \in Nat /\ 0 \in 0..MaxRevision /\ 0 \in 0..NumShards /\ 1 \in 1..Len(Tier)
        BY Bounds
      <4> QED BY <1>2, <3>1, <4>1, HubUpdates
    <3> QED BY <3>2 DEF c
  <2> QED BY <1>1, <2>2
<1>7. Len(hub'.copy) = n + 1 /\ n + 1 <= NumShards
  BY <1>1, <1>2, <1>4, <1>5, Bounds
<1>8. hub.rev = revision /\ LockFree =>
        \A i \in 1..Len(hub'.copy) : hub'.copy[i] = Stamp(life, hub.rev)
  <2> SUFFICES ASSUME hub.rev = revision, LockFree, NEW i \in 1..n + 1
               PROVE  hub'.copy[i] = Stamp(life, hub.rev)
    BY <1>7
  <2>1. CASE i = n + 1
    BY <1>2, <1>4, <1>5, <2>1
  <2>2. CASE i # n + 1
    <3>1. i \in 1..n
      BY <1>2, <2>2
    <3>2. hub.copy[i] = Stamp(life, hub.rev)
      BY <1>1, <3>1 DEF HubInv
    <3> QED BY <1>2, <1>4, <1>5, <3>1, <3>2
  <2> QED BY <2>1, <2>2
<1>9. hub.rev <= revision
  BY <1>1 DEF HubInv
<1> HIDE DEF n
<1> QED BY <1>1, <1>5, <1>6, <1>7, <1>8, <1>9 DEF HubInv, PublishedWhole, server, LockFree, Hubs

\* The revision check: what passes it is one outer step's model.
LEMMA HubRechecks ==
  ASSUME CommitInv, HubInv, Recheck
  PROVE  HubInv'
<1> DEFINE settled == Settled(hub.rev, revision)
           tries == IF settled THEN hub.tries ELSE hub.tries + 1
<1>1. /\ hub.pc = "copy" /\ Len(hub.copy) = NumShards /\ LockFree
      /\ UNCHANGED server
  BY DEF Recheck
<1>2. hub \in Hubs /\ hub.copy \in Seq(Stamps) /\ hub.tries \in Nat /\ tries \in Nat
      /\ revision \in 0..MaxRevision
  BY DEF HubInv, Hubs, CommitInv
<1>3. CASE settled \/ tries = MaxRetries
  <2>1. /\ hub' = [hub EXCEPT !.pc = "post", !.rev = revision, !.tries = tries]
        /\ offered' = offered \cup {<<revision + 1, hub.copy>>}
    BY <1>3 DEF Recheck
  <2>2. hub' \in Hubs
    <3>1. 0 \in 0..NumShards /\ 1 \in 1..Len(Tier) /\ <<>> \in Seq(Stamps)
      BY Bounds
    <3> HIDE DEF tries, settled
    <3> QED BY <1>2, <2>1, <3>1, HubUpdates
  <2>3. /\ hub'.pc = "post" /\ hub'.rev = revision /\ hub'.copy = hub.copy
        /\ hub'.tries = tries
    BY <1>2, <2>1 DEF Hubs
  <2>4. tries < MaxRetries => hub.copy = [p \in Parts |-> Stamp(life, revision)]
    <3> SUFFICES ASSUME tries < MaxRetries PROVE hub.copy = [p \in Parts |-> Stamp(life, revision)]
      OBVIOUS
    <3>1. settled
      BY <1>2, <1>3, Bounds
    <3>2. hub.rev = revision
      BY <3>1 DEF Settled
    <3>3. \A i \in 1..NumShards : hub.copy[i] = Stamp(life, revision)
      BY <1>1, <3>2 DEF HubInv
    <3>4. hub.copy = [i \in 1..NumShards |-> hub.copy[i]]
      BY <1>1, <1>2
    <3> QED BY <3>3, <3>4 DEF Parts
  <2>5. <<hub'.rev + 1, hub'.copy>> \in offered'
    BY <2>1, <2>3
  <2>6. life' = life
    BY <1>1 DEF server
  <2> HIDE DEF tries, settled
  <2>7. PublishedWhole'
    BY <2>3, <2>4, <2>6 DEF PublishedWhole, Parts
  <2> QED BY <1>1, <2>2, <2>3, <2>5, <2>7 DEF HubInv, Hubs, Version
<1>4. CASE ~ (settled \/ tries = MaxRetries)
  <2>1. hub' = [hub EXCEPT !.rev = revision, !.tries = tries, !.copy = <<>>]
    BY <1>4 DEF Recheck
  <2>2. hub' \in Hubs
    <3>1. 0 \in 0..NumShards /\ 1 \in 1..Len(Tier) /\ <<>> \in Seq(Stamps)
      BY Bounds
    <3> HIDE DEF tries, settled
    <3> QED BY <1>2, <2>1, <3>1, HubUpdates
  <2>3. hub'.pc = "copy" /\ hub'.rev = revision /\ hub'.copy = <<>>
    BY <1>1, <1>2, <2>1 DEF Hubs
  <2>4. revision <= revision /\ 0 <= NumShards /\ revision' = revision
    BY <1>1, <1>2, Bounds DEF server
  <2> QED BY <2>2, <2>3, <2>4 DEF HubInv, Hubs, PublishedWhole
<1> QED BY <1>3, <1>4

LEMMA HubPosts ==
  ASSUME HubInv, Post
  PROVE  HubInv'
<1>1. hub \in Hubs /\ hub.pc = "post" /\ UNCHANGED <<server, offered>>
  BY DEF HubInv, Post
<1>2. CASE hub' = Polling
  BY <1>2, PollingTyped
<1>3. CASE hub' # Polling
  <2>1. \/ hub.next < NumShards /\ hub' = [hub EXCEPT !.next = hub.next + 1]
        \/ hub.target < Len(Tier) /\ hub' = [hub EXCEPT !.target = hub.target + 1, !.next = 0]
    BY <1>3 DEF Post
  <2>2. hub' \in Hubs
    <3>1. hub.next < NumShards => hub.next + 1 \in 0..NumShards
      BY <1>1, Bounds DEF Hubs
    <3>2. hub.target < Len(Tier) => hub.target + 1 \in 1..Len(Tier)
      BY <1>1, Bounds DEF Hubs
    <3>3. /\ 0 \in Nat /\ 0 \in 0..MaxRevision /\ 0 \in 0..NumShards /\ 1 \in 1..Len(Tier)
          /\ <<>> \in Seq(Stamps)
      BY Bounds
    <3>4. CASE hub.next < NumShards /\ hub' = [hub EXCEPT !.next = hub.next + 1]
      BY <1>1, <3>1, <3>3, <3>4, HubUpdates
    <3>5. CASE hub.target < Len(Tier) /\ hub' = [hub EXCEPT !.target = hub.target + 1, !.next = 0]
      BY <1>1, <3>2, <3>3, <3>5, HubUpdates
    <3> QED BY <2>1, <3>4, <3>5
  <2>3. /\ hub'.pc = "post" /\ hub'.rev = hub.rev /\ hub'.copy = hub.copy
        /\ hub'.tries = hub.tries
    BY <1>1, <2>1 DEF Hubs
  <2> QED BY <1>1, <2>2, <2>3 DEF HubInv, Hubs, PublishedWhole, Version, server
<1> QED BY <1>2, <1>3

LEMMA HubQuiet ==
  ASSUME HubInv, UNCHANGED <<hub, server, offered>>
  PROVE  HubInv'
  BY DEF HubInv, Hubs, PublishedWhole, Version, server, LockFree

LEMMA HubStep == CommitInv /\ HubInv /\ [Next]_vars => HubInv'
<1> SUFFICES ASSUME CommitInv, HubInv, [Next]_vars PROVE HubInv'
  OBVIOUS
<1>1. CASE Committing
  BY <1>1, HubAcrossCommits
<1>2. CASE Publishing
  <2>1. CASE PostIsRefused
    BY <2>1, PollingTyped DEF PostIsRefused, PublishFails
  <2> QED BY <1>2, <2>1, HubPolls, HubCopies, HubRechecks, HubPosts DEF Publishing
<1>3. CASE PostFails
  BY <1>3, PollingTyped DEF PostFails, PublishFails
<1>4. ASSUME NEW w \in Workers, Fetching(w) \/ AskFails(w) \/ WorkerRestart(w) PROVE HubInv'
  <2>1. UNCHANGED <<hub, server, offered>>
    BY <1>4 DEF Fetching, AskManifest, FetchAgain, AskShard, Reassemble, AskFails, WorkerRestart
  <2> QED BY <2>1, HubQuiet
<1>5. CASE HubRestart
  BY <1>5, PollingTyped DEF HubRestart
<1>6. ASSUME NEW r \in Relays, RelayRestart(r) PROVE HubInv'
  BY <1>6, HubQuiet DEF RelayRestart
<1>7. CASE UNCHANGED vars
  BY <1>7, HubQuiet DEF vars
<1> QED BY <1>1, <1>2, <1>3, <1>4, <1>5, <1>6, <1>7 DEF Next

-----------------------------------------------------------------------------
(* The relays. *)

LEMMA RelayInit == Init => RelayInv
<1> SUFFICES ASSUME Init PROVE RelayInv
  OBVIOUS
<1>1. \A r \in Relays : manifests[r] = EmptyMap /\ shards[r] = EmptyMap
  BY DEF Init
<1>2. DOMAIN EmptyMap = {}
  BY DEF EmptyMap
<1>3. Cardinality({}) <= RetainLast
  BY FS_EmptySet, Bounds
<1> QED BY <1>1, <1>2, <1>3 DEF Init, RelayInv

\* What one relay holds, seen by itself: RelayInv is this of every relay.
Holds(m, s) ==
  /\ DOMAIN s = DOMAIN m /\ DOMAIN m \subseteq Versions
  /\ Cardinality(DOMAIN m) <= RetainLast
  /\ \A v \in DOMAIN m : <<v, m[v]>> \in offered
  /\ \A v \in DOMAIN s : \A i \in DOMAIN s[v] : s[v][i] \in Stamps

LEMMA EachHolds ==
  RelayInv <=> /\ DOMAIN manifests = Relays /\ DOMAIN shards = Relays
               /\ \A r \in Relays : Holds(manifests[r], shards[r])
  BY DEF RelayInv, Holds

\* What a post changes, at its target only.
LEMMA PostTargets ==
  ASSUME HubInv, hub.pc = "post"
  PROVE  /\ Target \in Relays /\ Version \in Versions /\ <<Version, hub.copy>> \in offered
         /\ hub.next \in 0..NumShards
         /\ \A i \in 1..NumShards : hub.copy[i] \in Stamps
<1>1. /\ hub.target \in 1..Len(Tier) /\ hub.rev \in 0..MaxRevision /\ hub.copy \in Seq(Stamps)
      /\ hub.next \in 0..NumShards /\ Len(hub.copy) = NumShards
      /\ <<Version, hub.copy>> \in offered
  BY DEF HubInv, Hubs
<1>2. Target \in Relays
  BY <1>1 DEF Target, Relays
<1>3. Version \in Versions
  BY <1>1, Bounds DEF Version, Versions
<1>4. \A i \in 1..NumShards : hub.copy[i] \in Stamps
  BY <1>1
<1> QED BY <1>1, <1>2, <1>3, <1>4

\* A manifest arrives: the relay keeps its newest versions, this one included
\* unless it is the oldest, and never loses the newest.
LEMMA ManifestArrives ==
  ASSUME RelayInv, NEW r \in Relays, NEW v \in Versions, NEW c, <<v, c>> \in offered,
         AcceptManifest(r, v, c)
  PROVE  /\ DOMAIN manifests' = Relays /\ DOMAIN shards' = Relays
         /\ \A q \in Relays \ {r} : manifests'[q] = manifests[q] /\ shards'[q] = shards[q]
         /\ Holds(manifests'[r], shards'[r])
         /\ DOMAIN manifests[r] # {} =>
              DOMAIN manifests'[r] # {} /\ Max(DOMAIN manifests'[r]) >= Latest(r)
<1> DEFINE D == DOMAIN manifests[r]
           all == Extend(manifests[r], v, c)
           had == IF v \in DOMAIN shards[r] THEN shards[r] ELSE Extend(shards[r], v, EmptyMap)
           kept == Kept(DOMAIN all)
<1>1. /\ manifests' = [manifests EXCEPT ![r] = Only(all, kept)]
      /\ shards' = [shards EXCEPT ![r] = Only(had, kept)]
  BY DEF AcceptManifest, EvictedShards
<1>2. /\ DOMAIN manifests = Relays /\ DOMAIN shards = Relays
      /\ Holds(manifests[r], shards[r])
  BY EachHolds
<1>3. /\ DOMAIN manifests' = Relays /\ DOMAIN shards' = Relays
      /\ manifests'[r] = Only(all, kept) /\ shards'[r] = Only(had, kept)
      /\ \A q \in Relays \ {r} : manifests'[q] = manifests[q] /\ shards'[q] = shards[q]
  <2> HIDE DEF all, had, kept
  <2> QED BY <1>1, <1>2
<1>4. /\ DOMAIN all = D \cup {v} /\ all[v] = c
      /\ \A u \in D \ {v} : all[u] = manifests[r][u]
  BY DEF Extend
<1>5. DOMAIN all \in SUBSET Versions /\ DOMAIN all # {}
  BY <1>2, <1>4 DEF Holds
<1>6. Cardinality(DOMAIN all) <= RetainLast + 1
  <2>1. D \in SUBSET Versions /\ Cardinality(D) <= RetainLast
    BY <1>2 DEF Holds
  <2>2. IsFiniteSet(D) /\ Cardinality(D) \in Nat
    BY <2>1, VersionsFinite
  <2>3. Cardinality(D \cup {v}) <= Cardinality(D) + 1
    <3>1. Cardinality(D \cup {v}) = IF v \in D THEN Cardinality(D) ELSE Cardinality(D) + 1
      <4> HIDE DEF D
      <4> QED BY <2>2, FS_AddElement
    <3> QED BY <2>2, <3>1
  <2>4. Cardinality(D \cup {v}) \in Nat
    BY <1>4, <1>5, VersionsFinite
  <2> QED BY <1>4, <2>1, <2>2, <2>3, <2>4, Bounds
<1>7. kept \subseteq DOMAIN all /\ Cardinality(kept) <= RetainLast /\ Max(DOMAIN all) \in kept
  <2> HIDE DEF all
  <2> QED BY <1>5, <1>6, KeptNewest
<1>8. /\ DOMAIN had = D \cup {v}
      /\ \A u \in DOMAIN had : \A i \in DOMAIN had[u] : had[u][i] \in Stamps
  <2>1. DOMAIN shards[r] = D /\ \A u \in D : \A i \in DOMAIN shards[r][u] : shards[r][u][i] \in Stamps
    BY <1>2 DEF Holds
  <2>2. CASE v \in D
    BY <2>1, <2>2
  <2>3. CASE v \notin D
    <3>1. had = Extend(shards[r], v, EmptyMap)
      BY <2>1, <2>3
    <3>2. /\ DOMAIN had = D \cup {v} /\ had[v] = EmptyMap
          /\ \A u \in D \ {v} : had[u] = shards[r][u]
      BY <2>1, <3>1 DEF Extend
    <3>3. DOMAIN EmptyMap = {}
      BY DEF EmptyMap
    <3> HIDE DEF had
    <3> QED BY <2>1, <2>3, <3>2, <3>3
  <2> QED BY <2>2, <2>3
<1> HIDE DEF all, had, kept, D
<1>9. DOMAIN Only(all, kept) = kept /\ \A u \in kept : Only(all, kept)[u] = all[u]
  BY <1>7 DEF Only
<1>10. DOMAIN Only(had, kept) = kept /\ \A u \in kept : Only(had, kept)[u] = had[u]
  BY <1>4, <1>7, <1>8 DEF Only
<1>11. \A u \in kept : <<u, all[u]>> \in offered
  <2> SUFFICES ASSUME NEW u \in kept PROVE <<u, all[u]>> \in offered
    OBVIOUS
  <2>1. CASE u = v
    BY <1>4, <2>1
  <2>2. CASE u # v
    BY <1>2, <1>4, <1>7, <2>2 DEF Holds, D
  <2> QED BY <2>1, <2>2
<1>12. Holds(Only(all, kept), Only(had, kept))
  BY <1>4, <1>5, <1>7, <1>8, <1>9, <1>10, <1>11 DEF Holds
<1>13. D # {} => DOMAIN manifests'[r] # {} /\ Max(DOMAIN manifests'[r]) >= Latest(r)
  <2> SUFFICES ASSUME D # {} PROVE kept # {} /\ Max(kept) >= Max(D)
    BY <1>3, <1>9 DEF Latest, D
  <2>1. D \in SUBSET Versions /\ kept \in SUBSET Versions /\ kept # {}
    BY <1>4, <1>5, <1>7
  <2>2. Max(D) \in DOMAIN all
    BY <1>4, <2>1, NewestVersion
  <2>3. Max(kept) >= Max(DOMAIN all) /\ Max(DOMAIN all) >= Max(D)
    BY <1>5, <1>7, <2>1, <2>2, NewestVersion
  <2>4. {Max(kept), Max(DOMAIN all), Max(D)} \subseteq Nat
    <3>1. Max(kept) \in Versions /\ Max(DOMAIN all) \in Versions /\ Max(D) \in Versions
      BY <1>5, <1>7, <2>1, <2>2, NewestVersion
    <3> QED BY <3>1 DEF Versions
  <2> QED BY <2>1, <2>3, <2>4
<1> QED BY <1>3, <1>12, <1>13 DEF D

LEMMA ShardArrives ==
  ASSUME RelayInv, NEW r \in Relays, NEW v \in DOMAIN manifests[r], NEW i, NEW c \in Stamps,
         AcceptShard(r, v, i, c), UNCHANGED offered
  PROVE  RelayInv' /\ UNCHANGED manifests
<1>1. /\ UNCHANGED manifests
      /\ shards' = [shards EXCEPT ![r] = [shards[r] EXCEPT ![v] = Extend(shards[r][v], i, c)]]
  BY DEF AcceptShard
<1>2. /\ DOMAIN manifests = Relays /\ DOMAIN shards = Relays
      /\ \A q \in Relays : Holds(manifests[q], shards[q])
  BY EachHolds
<1> DEFINE new == Extend(shards[r][v], i, c)
<1>3. DOMAIN new = DOMAIN shards[r][v] \cup {i} /\ new[i] = c
      /\ \A j \in DOMAIN shards[r][v] \ {i} : new[j] = shards[r][v][j]
  BY DEF Extend
<1>4. v \in DOMAIN shards[r] /\ \A j \in DOMAIN shards[r][v] : shards[r][v][j] \in Stamps
  BY <1>2 DEF Holds
<1>5. \A j \in DOMAIN new : new[j] \in Stamps
  <2> HIDE DEF new
  <2> QED BY <1>3, <1>4
<1> DEFINE s == [shards[r] EXCEPT ![v] = new]
<1> HIDE DEF new
<1>6. DOMAIN s = DOMAIN shards[r] /\ s[v] = new /\ \A u \in DOMAIN shards[r] \ {v} : s[u] = shards[r][u]
  BY <1>4
<1>7. shards' = [shards EXCEPT ![r] = s]
  BY <1>1 DEF new
<1> HIDE DEF s
<1>8. Holds(manifests[r], s)
  BY <1>2, <1>5, <1>6 DEF Holds
<1>9. DOMAIN shards' = Relays /\ shards'[r] = s /\ \A q \in Relays \ {r} : shards'[q] = shards[q]
  BY <1>2, <1>7
<1>10. \A q \in Relays : Holds(manifests'[q], shards'[q])
  BY <1>1, <1>2, <1>8, <1>9
<1>11. \A q \in Relays : Holds(manifests[q], shards[q])'
  BY <1>10 DEF Holds
<1> QED BY <1>1, <1>2, <1>9, <1>11 DEF RelayInv, Holds

LEMMA PostKept ==
  ASSUME HubInv, RelayInv, hub.pc = "post", ~PostRefused, PostHandled, UNCHANGED offered
  PROVE  /\ RelayInv'
         /\ \A r \in Relays : DOMAIN manifests[r] # {} =>
              DOMAIN manifests'[r] # {} /\ Max(DOMAIN manifests'[r]) >= Latest(r)
<1>t. /\ Target \in Relays /\ Version \in Versions /\ <<Version, hub.copy>> \in offered
      /\ hub.next \in 0..NumShards /\ \A i \in 1..NumShards : hub.copy[i] \in Stamps
  BY PostTargets
<1>s. \A r \in Relays : DOMAIN manifests[r] # {} => Latest(r) >= Latest(r)
  <2> SUFFICES ASSUME NEW r \in Relays, DOMAIN manifests[r] # {} PROVE Latest(r) >= Latest(r)
    OBVIOUS
  <2>1. DOMAIN manifests[r] \in SUBSET Versions
    BY DEF RelayInv
  <2>2. Latest(r) \in Versions
    BY <2>1, NewestVersion DEF Latest
  <2> QED BY <2>2 DEF Versions
<1>1. CASE hub.next = 0
  <2>1. AcceptManifest(Target, Version, hub.copy)
    BY <1>1 DEF PostHandled
  <2> DEFINE r == Target
  <2> HIDE DEF r
  <2>2. r = Target
    BY DEF r
  <2>3. /\ DOMAIN manifests' = Relays /\ DOMAIN shards' = Relays
        /\ \A q \in Relays \ {Target} : manifests'[q] = manifests[q] /\ shards'[q] = shards[q]
        /\ Holds(manifests'[Target], shards'[Target])
        /\ DOMAIN manifests[Target] # {} =>
              DOMAIN manifests'[Target] # {} /\ Max(DOMAIN manifests'[Target]) >= Latest(Target)
    BY <1>t, <2>1, ManifestArrives
  <2>4. \A q \in Relays : Holds(manifests'[q], shards'[q])
    BY <1>t, <2>3, EachHolds
  <2>5. \A q \in Relays : Holds(manifests[q], shards[q])'
    BY <2>4 DEF Holds
  <2>6. RelayInv'
    BY <2>3, <2>5 DEF RelayInv, Holds
  <2>7. \A q \in Relays \ {Target} : DOMAIN manifests[q] # {} =>
          DOMAIN manifests'[q] # {} /\ Max(DOMAIN manifests'[q]) >= Latest(q)
    BY <1>s, <2>3 DEF Latest
  <2> QED BY <2>3, <2>6, <2>7
<1>2. CASE hub.next # 0
  <2>1. hub.next > 0 /\ hub.next \in 1..NumShards
    BY <1>t, <1>2, Bounds
  <2>2. Version \in DOMAIN manifests[Target]
    BY <2>1 DEF PostRefused, ShardKnown
  <2>3. AcceptShard(Target, Version, hub.next, hub.copy[hub.next])
    BY <1>2 DEF PostHandled
  <2>4. RelayInv' /\ UNCHANGED manifests
    BY <1>t, <2>1, <2>2, <2>3, ShardArrives
  <2> QED BY <1>s, <2>4 DEF Latest
<1> QED BY <1>1, <1>2

\* More on offer disturbs no relay.
LEMMA RelayQuiet ==
  ASSUME RelayInv, UNCHANGED relay, offered \subseteq offered'
  PROVE  RelayInv'
  BY DEF RelayInv, relay

LEMMA OfferedGrows ==
  ASSUME [Next]_vars
  PROVE  /\ offered \subseteq offered'
         /\ UNCHANGED offered \/ Recheck
<1>1. CASE Committing
  BY <1>1 DEF Committing, StartCommit, WritePart, FinishCommit
<1>2. CASE Publishing
  BY <1>2 DEF Publishing, Poll, CopyPart, Recheck, Post, PostIsRefused
<1>3. CASE PostFails
  BY <1>3 DEF PostFails
<1>4. ASSUME NEW w \in Workers, Fetching(w) \/ AskFails(w) \/ WorkerRestart(w)
      PROVE  UNCHANGED offered
  BY <1>4 DEF Fetching, AskManifest, FetchAgain, AskShard, Reassemble, AskFails, WorkerRestart
<1>5. CASE HubRestart
  BY <1>5 DEF HubRestart
<1>6. ASSUME NEW r \in Relays, RelayRestart(r) PROVE UNCHANGED offered
  BY <1>6 DEF RelayRestart
<1>7. CASE UNCHANGED vars
  BY <1>7 DEF vars
<1> QED BY <1>1, <1>2, <1>3, <1>4, <1>5, <1>6, <1>7 DEF Next

\* The relays change by a handled post, or one of them restarts empty.
LEMMA RelayChanges ==
  ASSUME [Next]_vars
  PROVE  \/ UNCHANGED relay
         \/ hub.pc = "post" /\ ~PostRefused /\ PostHandled /\ UNCHANGED offered
         \/ \E r \in Relays : RelayRestart(r)
<1>1. CASE Committing
  BY <1>1 DEF Committing, StartCommit, WritePart, FinishCommit
<1>2. CASE Publishing
  BY <1>2 DEF Publishing, Poll, CopyPart, Recheck, Post, PostIsRefused
<1>3. CASE PostFails
  BY <1>3 DEF PostFails
<1>4. ASSUME NEW w \in Workers, Fetching(w) \/ AskFails(w) \/ WorkerRestart(w)
      PROVE  UNCHANGED relay
  BY <1>4 DEF Fetching, AskManifest, FetchAgain, AskShard, Reassemble, AskFails, WorkerRestart
<1>5. CASE HubRestart
  BY <1>5 DEF HubRestart
<1>6. CASE UNCHANGED vars
  BY <1>6 DEF vars
<1> QED BY <1>1, <1>2, <1>3, <1>4, <1>5, <1>6 DEF Next

LEMMA RelayRestarts ==
  ASSUME RelayInv, NEW r \in Relays, RelayRestart(r)
  PROVE  RelayInv'
<1>1. /\ manifests' = [manifests EXCEPT ![r] = EmptyMap]
      /\ shards' = [shards EXCEPT ![r] = EmptyMap] /\ UNCHANGED offered
  BY DEF RelayRestart
<1>2. DOMAIN EmptyMap = {} /\ Cardinality({}) <= RetainLast
  BY FS_EmptySet, Bounds DEF EmptyMap
<1>3. /\ DOMAIN manifests' = Relays /\ DOMAIN shards' = Relays
      /\ manifests'[r] = EmptyMap /\ shards'[r] = EmptyMap
      /\ \A q \in Relays \ {r} : manifests'[q] = manifests[q] /\ shards'[q] = shards[q]
  <2>1. DOMAIN manifests = Relays /\ DOMAIN shards = Relays
    BY DEF RelayInv
  <2> QED BY <1>1, <2>1
<1>4. \A q \in Relays : Holds(manifests'[q], shards'[q])
  <2>1. Holds(EmptyMap, EmptyMap)
    BY <1>2 DEF Holds
  <2> QED BY <1>3, <2>1, EachHolds
<1>5. \A q \in Relays : Holds(manifests[q], shards[q])'
  BY <1>1, <1>4 DEF Holds
<1> QED BY <1>3, <1>5 DEF RelayInv, Holds

LEMMA RelayStep == HubInv /\ RelayInv /\ [Next]_vars => RelayInv'
<1> SUFFICES ASSUME HubInv, RelayInv, [Next]_vars PROVE RelayInv'
  OBVIOUS
<1> QED BY RelayChanges, RelayQuiet, RelayRestarts, PostKept, OfferedGrows

-----------------------------------------------------------------------------
(* The workers. *)

\* What one worker fetches and holds, seen by itself.
Loads(f, h) ==
  /\ f \in Fetches /\ h \in offered \cup {Nothing} /\ Len(f.got) <= NumShards
  /\ f.version # 0 => <<f.version, f.want>> \in offered /\ f.version > h[1]

LEMMA EachLoads ==
  PoolInv <=> /\ offered \subseteq Versions \X Seq(Stamps)
              /\ fetch \in [Workers -> Fetches] /\ DOMAIN held = Workers
              /\ \A w \in Workers : Loads(fetch[w], held[w])
  BY DEF PoolInv, Loads, Asking

LEMMA IdleLoads ==
  ASSUME NEW S \in SUBSET Relays, NEW h \in offered \cup {Nothing}
  PROVE  Loads([Idle EXCEPT !.left = S], h) /\ Loads(Idle, h)
<1>1. Tier[1] \in Relays
  BY Bounds DEF Relays
<1>2. [left |-> S, from |-> Tier[1], version |-> 0, want |-> <<>>, got |-> <<>>] \in Fetches
      /\ Idle \in Fetches
  BY <1>1 DEF Fetches, Idle
<1>3. [Idle EXCEPT !.left = S]
        = [left |-> S, from |-> Tier[1], version |-> 0, want |-> <<>>, got |-> <<>>]
  BY DEF Idle
<1>4. Idle.version = 0 /\ Idle.got = <<>> /\ 0 <= NumShards
  BY Bounds DEF Idle
<1> QED BY <1>2, <1>3, <1>4 DEF Loads

LEMMA PoolInit == Init => PoolInv
<1> SUFFICES ASSUME Init PROVE PoolInv
  OBVIOUS
<1>1. /\ fetch = [w \in Workers |-> Idle] /\ held = [w \in Workers |-> Nothing] /\ offered = {}
  BY DEF Init
<1>2. Loads(Idle, Nothing)
  <2>1. Relays \in SUBSET Relays /\ Nothing \in offered \cup {Nothing}
    OBVIOUS
  <2> QED BY <2>1, IdleLoads
<1>3. Idle \in Fetches
  BY <1>2 DEF Loads
<1> QED BY <1>1, <1>2, <1>3, EachLoads

LEMMA PoolEffect ==
  ASSUME PoolInv, NEW w \in Workers, NEW f, NEW h, Loads(f, h), UNCHANGED offered,
         fetch' = [fetch EXCEPT ![w] = f], DOMAIN held' = Workers, held'[w] = h,
         \A u \in Workers \ {w} : held'[u] = held[u]
  PROVE  PoolInv'
<1>1. /\ offered \subseteq Versions \X Seq(Stamps)
      /\ fetch \in [Workers -> Fetches] /\ DOMAIN held = Workers
      /\ \A u \in Workers : Loads(fetch[u], held[u])
  BY EachLoads
<1>2. f \in Fetches
  BY DEF Loads
<1>3. /\ fetch' \in [Workers -> Fetches] /\ fetch'[w] = f
      /\ \A u \in Workers \ {w} : fetch'[u] = fetch[u]
  BY <1>1, <1>2
<1>4. \A u \in Workers : Loads(fetch'[u], held'[u])
  BY <1>1, <1>3
<1>5. \A u \in Workers : Loads(fetch[u], held[u])'
  BY <1>4 DEF Loads
<1> QED BY <1>1, <1>3, <1>5 DEF PoolInv, Loads, Asking

LEMMA PoolChange ==
  ASSUME PoolInv, NEW w \in Workers, NEW f, NEW h, Loads(f, h), UNCHANGED offered,
         fetch' = [fetch EXCEPT ![w] = f], held' = [held EXCEPT ![w] = h]
  PROVE  PoolInv'
<1>1. /\ DOMAIN held' = Workers /\ held'[w] = h
      /\ \A u \in Workers \ {w} : held'[u] = held[u]
  BY DEF PoolInv
<1> QED BY <1>1, PoolEffect

LEMMA PoolFetch ==
  ASSUME PoolInv, NEW w \in Workers, NEW f, Loads(f, held[w]), UNCHANGED <<offered, held>>,
         fetch' = [fetch EXCEPT ![w] = f]
  PROVE  PoolInv'
<1>1. /\ DOMAIN held' = Workers /\ held'[w] = held[w]
      /\ \A u \in Workers \ {w} : held'[u] = held[u]
  BY DEF PoolInv
<1> QED BY <1>1, PoolEffect

LEMMA NextRelayLoads ==
  ASSUME PoolInv, NEW w \in Workers, NextRelay(w), UNCHANGED <<offered, held>>
  PROVE  PoolInv'
<1>1. fetch[w].left \in SUBSET Relays /\ held[w] \in offered \cup {Nothing}
  BY DEF PoolInv, Fetches
<1>2. Loads([Idle EXCEPT !.left = fetch[w].left], held[w])
  BY <1>1, IdleLoads
<1> QED BY <1>2, PoolFetch DEF NextRelay

LEMMA FewerRelays ==
  ASSUME PoolInv, NEW w \in Workers, NEW r, Asking(w), UNCHANGED <<offered, held>>,
         fetch' = [fetch EXCEPT ![w].left = fetch[w].left \ {r}]
  PROVE  PoolInv'
<1> DEFINE f == [fetch[w] EXCEPT !.left = fetch[w].left \ {r}]
<1>1. fetch[w] \in Fetches /\ Loads(fetch[w], held[w]) /\ fetch[w].version = 0
  BY EachLoads DEF Asking
<1>2. fetch[w].left \ {r} \in SUBSET Relays
  BY <1>1 DEF Fetches
<1>3. f \in Fetches /\ f.version = 0 /\ f.got = fetch[w].got
  <2> DEFINE S == Seq(Stamps)
  <2>1. Fetches = [left: SUBSET Relays, from: Relays, version: Nat, want: S, got: S]
    BY DEF Fetches
  <2> HIDE DEF S
  <2> QED BY <1>1, <1>2, <2>1
<1>4. Loads(f, held[w])
  <2> HIDE DEF f
  <2> QED BY <1>1, <1>3 DEF Loads
<1>5. fetch' = [fetch EXCEPT ![w] = f]
  BY DEF PoolInv
<1> HIDE DEF f
<1> QED BY <1>4, <1>5, PoolFetch

LEMMA ManifestAsked ==
  ASSUME RelayInv, PoolInv, NEW w \in Workers, NEW r \in Relays, AskManifest(w, r)
  PROVE  PoolInv'
<1>1. Asking(w) /\ UNCHANGED <<offered, held>>
  BY DEF AskManifest
<1>2. CASE DOMAIN manifests[r] # {} /\ Newer(Latest(r), held[w][1])
  <2> DEFINE f == [left |-> fetch[w].left \ {r}, from |-> r, version |-> Latest(r),
                   want |-> manifests[r][Latest(r)], got |-> <<>>]
  <2>1. fetch' = [fetch EXCEPT ![w] = f]
    BY <1>2 DEF AskManifest
  <2>2. DOMAIN manifests[r] \in SUBSET Versions
        /\ \A v \in DOMAIN manifests[r] : <<v, manifests[r][v]>> \in offered
    BY DEF RelayInv
  <2>3. Latest(r) \in DOMAIN manifests[r] /\ Latest(r) \in Versions
    BY <1>2, <2>2, NewestVersion DEF Latest
  <2>4. <<Latest(r), manifests[r][Latest(r)]>> \in offered
    BY <2>2, <2>3
  <2>5. Latest(r) \in Nat /\ manifests[r][Latest(r)] \in Seq(Stamps)
    BY <2>3, <2>4 DEF PoolInv, Versions
  <2>6. fetch[w].left \ {r} \in SUBSET Relays /\ held[w] \in offered \cup {Nothing}
    BY DEF PoolInv, Fetches
  <2>7. f \in Fetches
    BY <2>5, <2>6 DEF Fetches
  <2>8. Latest(r) > held[w][1] /\ 0 <= NumShards
    BY <1>2, Bounds DEF Newer
  <2>9. Loads(f, held[w])
    BY <2>4, <2>6, <2>7, <2>8 DEF Loads
  <2> HIDE DEF f
  <2> QED BY <1>1, <2>1, <2>9, PoolFetch
<1>3. CASE ~ (DOMAIN manifests[r] # {} /\ Newer(Latest(r), held[w][1]))
  <2>1. fetch' = [fetch EXCEPT ![w].left = fetch[w].left \ {r}]
    BY <1>3 DEF AskManifest
  <2> QED BY <1>1, <2>1, FewerRelays
<1> QED BY <1>2, <1>3

LEMMA ShardAsked ==
  ASSUME RelayInv, PoolInv, NEW w \in Workers, AskShard(w)
  PROVE  PoolInv'
<1> DEFINE g == fetch[w]
           i == Len(g.got) + 1
           c == shards[g.from][g.version][i]
           f == [g EXCEPT !.got = Append(g.got, c)]
<1>1. ~Asking(w) /\ i <= NumShards /\ UNCHANGED <<offered, held>>
  BY DEF AskShard
<1>2. g \in Fetches /\ Loads(g, held[w])
  BY EachLoads
<1>3. CASE ShardAt(g.from, g.version, i)
  <2>1. c \in Stamps
    BY <1>2, <1>3 DEF ShardAt, RelayInv, Fetches
  <2>2. fetch' = [fetch EXCEPT ![w] = f]
    <3>1. fetch' = [fetch EXCEPT ![w].got = Append(fetch[w].got, c)]
      BY <1>3 DEF AskShard
    <3> QED BY <3>1 DEF PoolInv
  <2>3. g.got \in Seq(Stamps)
    BY <1>2 DEF Fetches
  <2> HIDE DEF c
  <2>4. Append(g.got, c) \in Seq(Stamps) /\ Len(Append(g.got, c)) = i
    BY <2>1, <2>3
  <2>5. f \in Fetches /\ f.version = g.version /\ f.want = g.want /\ f.got = Append(g.got, c)
    <3> DEFINE S == Seq(Stamps)
               a == Append(g.got, c)
    <3>1. Fetches = [left: SUBSET Relays, from: Relays, version: Nat, want: S, got: S]
      BY DEF Fetches
    <3>2. a \in S
      BY <2>4
    <3> HIDE DEF S, a, g
    <3>3. [g EXCEPT !.got = a] \in Fetches /\ [g EXCEPT !.got = a].version = g.version
          /\ [g EXCEPT !.got = a].want = g.want /\ [g EXCEPT !.got = a].got = a
      BY <1>2, <3>1, <3>2
    <3> QED BY <3>3 DEF a, f
  <2> HIDE DEF f, g
  <2>6. Loads(f, held[w])
    <3>1. Len(f.got) <= NumShards
      BY <1>1, <2>4, <2>5
    <3> QED BY <1>2, <2>5, <3>1 DEF Loads
  <2> QED BY <1>1, <2>2, <2>6, PoolFetch
<1>4. CASE ~ ShardAt(g.from, g.version, i)
  <2>1. NextRelay(w)
    BY <1>4 DEF AskShard
  <2> QED BY <1>1, <2>1, NextRelayLoads
<1> QED BY <1>3, <1>4

LEMMA PoolReassembles ==
  ASSUME PoolInv, NEW w \in Workers, Reassemble(w)
  PROVE  PoolInv'
<1>1. ~Asking(w) /\ UNCHANGED offered
  BY DEF Reassemble
<1>2. Loads(fetch[w], held[w])
  BY EachLoads
<1>3. CASE Verified(fetch[w].want, fetch[w].got)
  <2> DEFINE h == <<fetch[w].version, fetch[w].got>>
  <2>1. held' = [held EXCEPT ![w] = h] /\ fetch' = [fetch EXCEPT ![w] = Idle]
    BY <1>3 DEF Reassemble
  <2>2. h \in offered \cup {Nothing}
    BY <1>1, <1>2, <1>3 DEF Verified, Loads, Asking
  <2> HIDE DEF h
  <2>3. Loads(Idle, h)
    <3>1. Relays \in SUBSET Relays
      OBVIOUS
    <3> QED BY <2>2, <3>1, IdleLoads
  <2> QED BY <1>1, <2>1, <2>3, PoolChange
<1>4. CASE ~ Verified(fetch[w].want, fetch[w].got)
  <2>1. NextRelay(w) /\ UNCHANGED held
    BY <1>4 DEF Reassemble
  <2> QED BY <1>1, <2>1, NextRelayLoads
<1> QED BY <1>3, <1>4

\* More on offer disturbs no worker.
LEMMA PoolOffers ==
  ASSUME CommitInv, HubInv, PoolInv, Recheck
  PROVE  PoolInv'
<1>1. UNCHANGED <<fetch, held>> /\ offered' \subseteq offered \cup {<<revision + 1, hub.copy>>}
      /\ offered \subseteq offered'
  BY DEF Recheck, pool
<1>2. hub.copy \in Seq(Stamps) /\ revision + 1 \in Versions
  BY Bounds DEF HubInv, Hubs, CommitInv, Versions
<1>3. offered' \subseteq Versions \X Seq(Stamps)
  BY <1>1, <1>2 DEF PoolInv
<1> QED BY <1>1, <1>3 DEF PoolInv, Asking

LEMMA PoolQuiet ==
  ASSUME PoolInv, UNCHANGED <<fetch, held, offered>>
  PROVE  PoolInv'
  BY DEF PoolInv, Asking

LEMMA PoolStep ==
  CommitInv /\ HubInv /\ RelayInv /\ PoolInv /\ [Next]_vars => PoolInv'
<1> SUFFICES ASSUME CommitInv, HubInv, RelayInv, PoolInv, [Next]_vars PROVE PoolInv'
  OBVIOUS
<1>1. CASE Committing
  BY <1>1, PoolQuiet DEF Committing, StartCommit, WritePart, FinishCommit, pool
<1>2. CASE Publishing
  <2>1. CASE Recheck
    BY <2>1, PoolOffers
  <2> QED BY <1>2, <2>1, PoolQuiet DEF Publishing, Poll, CopyPart, Post, PostIsRefused, pool
<1>3. CASE PostFails
  BY <1>3, PoolQuiet DEF PostFails, pool
<1>4. ASSUME NEW w \in Workers, Fetching(w) PROVE PoolInv'
  <2>1. CASE FetchAgain(w)
    <3>1. fetch' = [fetch EXCEPT ![w] = Idle] /\ UNCHANGED <<offered, held>>
      BY <2>1 DEF FetchAgain
    <3>2. Relays \in SUBSET Relays /\ held[w] \in offered \cup {Nothing}
      BY DEF PoolInv
    <3>3. Loads(Idle, held[w])
      BY <3>2, IdleLoads
    <3> QED BY <3>1, <3>3, PoolFetch
  <2> QED BY <1>4, <2>1, ManifestAsked, ShardAsked, PoolReassembles DEF Fetching
<1>5. ASSUME NEW w \in Workers, AskFails(w) PROVE PoolInv'
  <2>1. UNCHANGED <<offered, held>>
    BY <1>5 DEF AskFails
  <2>2. CASE \E r \in fetch[w].left : Asking(w) /\ fetch' = [fetch EXCEPT ![w].left = @ \ {r}]
    BY <2>1, <2>2, FewerRelays
  <2>3. CASE NextRelay(w)
    BY <2>1, <2>3, NextRelayLoads
  <2> QED BY <1>5, <2>2, <2>3 DEF AskFails
<1>6. ASSUME NEW w \in Workers, WorkerRestart(w) PROVE PoolInv'
  <2>1. /\ fetch' = [fetch EXCEPT ![w] = Idle] /\ held' = [held EXCEPT ![w] = Nothing]
        /\ UNCHANGED offered
    BY <1>6 DEF WorkerRestart
  <2>2. Relays \in SUBSET Relays /\ Nothing \in offered \cup {Nothing}
    OBVIOUS
  <2>3. Loads(Idle, Nothing)
    BY <2>2, IdleLoads
  <2> QED BY <2>1, <2>3, PoolChange
<1>7. CASE HubRestart
  BY <1>7, PoolQuiet DEF HubRestart, pool
<1>8. ASSUME NEW r \in Relays, RelayRestart(r) PROVE PoolInv'
  BY <1>8, PoolQuiet DEF RelayRestart, pool
<1>9. CASE UNCHANGED vars
  BY <1>9, PoolQuiet DEF vars, pool
<1> QED BY <1>1, <1>2, <1>3, <1>4, <1>5, <1>6, <1>7, <1>8, <1>9 DEF Next

-----------------------------------------------------------------------------
(* The theorems. *)

LEMMA InvInit == Init => IInv
  BY CommitInit, HubInit, RelayInit, PoolInit DEF IInv

LEMMA InvStep == IInv /\ [Next]_vars => IInv'
  BY CommitStep, HubStep, RelayStep, PoolStep DEF IInv

LEMMA InvAlways == Spec => []IInv
  BY InvInit, InvStep, PTL DEF Spec

LEMMA InvTyped == IInv => TypeOK
<1> SUFFICES ASSUME IInv PROVE TypeOK
  OBVIOUS
<1>1. \A p \in Parts : \E l \in 1..life, r \in 0..MaxRevision : model[p] = Stamp(l, r)
  <2> SUFFICES ASSUME NEW p \in Parts
               PROVE  \E l \in 1..life, r \in 0..MaxRevision : model[p] = Stamp(l, r)
    OBVIOUS
  <2> DEFINE r == IF p < writing THEN revision + 1 ELSE revision
  <2>1. model[p] = Stamp(life, r)
    BY DEF IInv, CommitInv
  <2>2. writing = 0 => ~ (p < writing)
    BY Bounds DEF Parts
  <2>3. r \in 0..MaxRevision /\ life \in 1..life
    BY <2>2, Bounds DEF IInv, CommitInv
  <2> HIDE DEF r
  <2> QED BY <2>1, <2>3
<1>2. model \in [Parts -> {Stamp(l, r) : l \in 1..life, r \in 0..MaxRevision}]
  <2>1. model = [p \in Parts |-> model[p]]
    BY DEF IInv, CommitInv
  <2>2. \A p \in Parts : model[p] \in {Stamp(l, r) : l \in 1..life, r \in 0..MaxRevision}
    BY <1>1
  <2> QED BY <2>1, <2>2
<1>3. /\ life \in Nat /\ revision \in 0..MaxRevision /\ writing \in 0..NumShards + 1
      /\ lastPublished \in -1..MaxRevision
  BY DEF IInv, CommitInv
<1>4. hub.pc \in {"poll", "copy", "post"} /\ hub.target \in 1..Len(Tier)
  BY DEF IInv, HubInv, Hubs
<1>5. \A r \in Relays : DOMAIN shards[r] = DOMAIN manifests[r]
  BY DEF IInv, RelayInv
<1>6. \A w \in Workers : /\ fetch[w].left \subseteq Relays /\ Len(fetch[w].got) <= NumShards
                         /\ held[w] \in offered \cup {Nothing}
  BY DEF IInv, PoolInv, Fetches
<1> QED BY <1>2, <1>3, <1>4, <1>5, <1>6 DEF TypeOK

LEMMA InvBounded == IInv => RetentionBounded
  BY DEF IInv, RelayInv, RetentionBounded

\* What the hub publishes is one outer step's model (launch_rl.py's copy
\* without the lock and its revision check), and the relays never keep more
\* than retain_last of it.
THEOREM HubIsSound == Spec => []HubSound
<1>1. IInv => HubSound
  BY InvTyped, InvBounded DEF IInv, HubInv, HubSound
<1> QED BY <1>1, InvAlways, PTL

-----------------------------------------------------------------------------
(* The register, and the relays' newest versions. *)

LEMMA RegisterInit == Init => Register!Init
  BY DEF Init, Nothing, Register!Init, Register!Nothing

LEMMA RegisterStep ==
  ASSUME IInv, [Next]_vars
  PROVE  [Register!Next]_<<offered, held>>
<1>1. CASE Recheck
  <2>1. PICK o : o = <<revision + 1, hub.copy>>
    OBVIOUS
  <2>2. UNCHANGED held /\ (UNCHANGED offered \/ offered' = offered \cup {o})
    BY <1>1, <2>1 DEF Recheck, pool
  <2>3. o[1] > 0
    BY <2>1, Bounds DEF IInv, CommitInv
  <2>4. CASE UNCHANGED offered
    BY <2>2, <2>4
  <2>5. CASE ~ UNCHANGED offered
    <3>1. offered' = offered \cup {o} /\ o \in offered' \ offered
      BY <2>2, <2>5
    <3>2. Register!Offer
      BY <2>2, <2>3, <3>1 DEF Register!Offer
    <3> QED BY <3>2 DEF Register!Next
  <2> QED BY <2>4, <2>5
<1>2. ASSUME NEW w \in Workers, Fetching(w) PROVE [Register!Next]_<<offered, held>>
  <2>1. CASE Reassemble(w) /\ Verified(fetch[w].want, fetch[w].got)
    <3> DEFINE o == <<fetch[w].version, fetch[w].got>>
    <3>1. held' = [held EXCEPT ![w] = o] /\ UNCHANGED offered /\ ~Asking(w)
      BY <2>1 DEF Reassemble
    <3>2. o \in offered /\ o[1] > held[w][1]
      BY <2>1, <3>1 DEF IInv, PoolInv, Verified
    <3> HIDE DEF o
    <3>3. Register!Take(w)
      BY <3>1, <3>2 DEF Register!Take
    <3> QED BY <3>3 DEF Register!Next
  <2>2. CASE ~ (Reassemble(w) /\ Verified(fetch[w].want, fetch[w].got))
    BY <1>2, <2>2 DEF Fetching, AskManifest, FetchAgain, AskShard, Reassemble
  <2> QED BY <2>1, <2>2
<1>3. ASSUME NEW w \in Workers, AskFails(w) PROVE UNCHANGED <<offered, held>>
  BY <1>3 DEF AskFails
<1>4. ASSUME NEW w \in Workers, WorkerRestart(w) PROVE Register!Next
  BY <1>4 DEF WorkerRestart, Register!Restart, Register!Nothing, Nothing, Register!Next
<1>5. CASE Committing
  BY <1>5 DEF Committing, StartCommit, WritePart, FinishCommit, pool
<1>6. CASE Poll \/ CopyPart \/ Post \/ PostIsRefused \/ PostFails
  BY <1>6 DEF Poll, CopyPart, Post, PostIsRefused, PostFails, pool
<1>7. CASE HubRestart
  BY <1>7 DEF HubRestart, pool
<1>8. ASSUME NEW r \in Relays, RelayRestart(r) PROVE UNCHANGED <<offered, held>>
  BY <1>8 DEF RelayRestart, pool
<1>9. CASE UNCHANGED vars
  BY <1>9 DEF vars, pool
<1> QED
  BY <1>1, <1>2, <1>3, <1>4, <1>5, <1>6, <1>7, <1>8, <1>9 DEF Next, Publishing

\* Unless it restarts, a relay's newest version stays or gives way to a newer.
NewestStays ==
  \A r \in Relays :
    DOMAIN manifests[r] # {} =>
      \/ DOMAIN manifests'[r] # {} /\ Max(DOMAIN manifests'[r]) >= Latest(r)
      \/ faults'["relay"] > faults["relay"]

LEMMA NewestStep ==
  ASSUME IInv, [Next]_vars
  PROVE  NewestStays
<1>1. CASE UNCHANGED relay
  <2> SUFFICES ASSUME NEW r \in Relays, DOMAIN manifests[r] # {} PROVE Latest(r) >= Latest(r)
    BY <1>1 DEF relay, Latest, NewestStays
  <2>1. DOMAIN manifests[r] \in SUBSET Versions
    BY DEF IInv, RelayInv
  <2>2. Latest(r) \in Versions
    BY <2>1, NewestVersion DEF Latest
  <2> QED BY <2>2 DEF Versions
<1>2. CASE hub.pc = "post" /\ ~PostRefused /\ PostHandled /\ UNCHANGED offered
  BY <1>2, PostKept DEF IInv, NewestStays
<1>3. CASE \E r \in Relays : RelayRestart(r)
  <2>1. Fault("relay") /\ "relay" \in FaultKinds
    BY <1>3 DEF RelayRestart, FaultKinds
  <2>2. faults'["relay"] > faults["relay"]
    BY <2>1, FaultCounted DEF IInv, CommitInv
  <2> QED BY <2>2 DEF NewestStays
<1> QED BY <1>1, <1>2, <1>3, RelayChanges

\* The channel is the register: a worker only ever holds a checkpoint that was
\* offered whole and moves forward only, and no relay that stays up advertises
\* an older version than before, whatever is lost, restarted or posted twice.
THEOREM ChannelIsKept == Spec => ChannelKept
<1>1. IInv /\ [Next]_vars => [Register!Next]_<<offered, held>>
  BY RegisterStep
<1>2. IInv /\ [Next]_vars => [NewestStays]_vars
  BY NewestStep
<1>3. Spec => Register!Spec
  BY <1>1, RegisterInit, InvAlways, PTL DEF Spec, Register!Spec
<1>4. Spec => [][NewestStays]_vars
  BY <1>2, InvAlways, PTL DEF Spec
<1>5. LatestNeverFalls <=> [][NewestStays]_vars
  BY PTL DEF LatestNeverFalls, NewestStays
<1> QED BY <1>3, <1>4, <1>5, PTL DEF ChannelKept, RegisterSpec

-----------------------------------------------------------------------------
(* The gateway. *)

-----------------------------------------------------------------------------
(* The operators. *)

LEMMA MaxOfZero == ASSUME NEW k \in Int PROVE Max({0, k}) = IF k > 0 THEN k ELSE 0
<1> DEFINE m == IF k > 0 THEN k ELSE 0
<1>1. m \in {0, k} /\ \A y \in {0, k} : m >= y
  OBVIOUS
<1>2. \A x \in {0, k} : (\A y \in {0, k} : x >= y) => x = m
  OBVIOUS
<1> HIDE DEF m
<1>3. (CHOOSE x \in {0, k} : \A y \in {0, k} : x >= y) = m
  BY <1>1, <1>2
<1> QED BY <1>3 DEF Max, m

\* A count of requests under way is a natural number.
LEMMA SentFinite ==
  ASSUME NEW t
  PROVE  /\ IsFiniteSet(Sent(t)) /\ Cardinality(Sent(t)) \in Nat
         /\ Cardinality(Sent(t)) <= Cardinality(Requests)
<1>1. Sent(t) \in SUBSET Requests
  BY DEF Sent
<1> QED BY <1>1, GatewayAssumption, FS_Subset, FS_CardinalityType

LEMMA KeptValues ==
  ASSUME NEW f, NEW default, NEW new
  PROVE  /\ DOMAIN KeptOr(f, default, new) = new
         /\ \A t \in new : KeptOr(f, default, new)[t] = IF t \in DOMAIN f THEN f[t] ELSE default
  BY DEF KeptOr

\* Counting a request and its end change the load of its target by one.
LEMMA CountedValues ==
  ASSUME NEW t
  PROVE  /\ DOMAIN Counted(t) = DOMAIN inflight \cup {t}
         /\ Counted(t)[t] = Load(t) + 1
         /\ \A u \in DOMAIN inflight \ {t} : Counted(t)[u] = inflight[u]
  BY DEF Counted, Put

LEMMA UncountedValues ==
  ASSUME NEW t, Load(t) \in Nat
  PROVE  /\ DOMAIN Uncounted(t) = DOMAIN inflight
         /\ t \in DOMAIN inflight =>
              Uncounted(t)[t] = IF Load(t) > 0 THEN Load(t) - 1 ELSE 0
         /\ \A u \in DOMAIN inflight \ {t} : Uncounted(t)[u] = inflight[u]
<1>1. Max({0, Load(t) - 1}) = IF Load(t) > 0 THEN Load(t) - 1 ELSE 0
  BY MaxOfZero
<1>2. CASE t \in DOMAIN inflight
  <2>1. Uncounted(t) = [inflight EXCEPT ![t] = Max({0, inflight[t] - 1})] /\ Load(t) = inflight[t]
    BY <1>2 DEF Uncounted, Load
  <2> QED BY <1>1, <1>2, <2>1
<1>3. CASE t \notin DOMAIN inflight
  BY <1>3 DEF Uncounted
<1> QED BY <1>2, <1>3

LEMMA SetState ==
  ASSUME TablesInv, NEW r \in Requests, NEW s \in States,
         request' = [request EXCEPT ![r].state = s]
  PROVE  /\ request'[r].state = s /\ request'[r].target = request[r].target
         /\ \A q \in Requests \ {r} : request'[q] = request[q]
         /\ request' \in [Requests -> [state: States, target: Replicas \cup {Nobody}]]
  BY DEF TablesInv

-----------------------------------------------------------------------------
(* The tables. *)

LEMMA TablesInit == GatewayInit => TablesInv
<1> SUFFICES ASSUME GatewayInit PROVE TablesInv
  OBVIOUS
<1>1. request \in [Requests -> [state: States, target: Replicas \cup {Nobody}]]
  BY DEF GatewayInit, States
<1>2. \A r \in Requests : request[r].state = "new"
  BY DEF GatewayInit
<1>3. targets # {} /\ targets \subseteq Replicas /\ DOMAIN inflight = targets
  BY DEF GatewayInit
<1>4. DOMAIN healthy = targets /\ \A t \in DOMAIN healthy : healthy[t] \in BOOLEAN
  BY DEF GatewayInit
<1>5. /\ up \in [Replicas -> BOOLEAN]
      /\ probe \in [todo: SUBSET Replicas, asking: Replicas \cup {Nobody},
                    up: BOOLEAN, answered: BOOLEAN]
  BY DEF GatewayInit, Silent
<1> QED BY <1>1, <1>2, <1>3, <1>4, <1>5 DEF TablesInv

LEMMA RequestTables ==
  ASSUME TablesInv, NEW r \in Requests, Arrive(r) \/ Forward(r)
  PROVE  TablesInv'
<1>1. CASE Arrive(r)
  <2>1. PICK t \in Pick : request' = [request EXCEPT ![r] = [state |-> "routed", target |-> t]]
    BY <1>1 DEF Arrive
  <2>2. t \in Replicas
    BY DEF Pick, Pool, TablesInv
  <2>3. request' \in [Requests -> [state: States, target: Replicas \cup {Nobody}]]
    BY <2>1, <2>2 DEF TablesInv, States
  <2>4. \A q \in Requests : request'[q].state # "new" => request'[q].target \in Replicas
    BY <2>1, <2>2 DEF TablesInv
  <2> QED BY <1>1, <2>3, <2>4 DEF Arrive, TablesInv
<1>2. CASE Forward(r)
  <2>1. request' = [request EXCEPT ![r].state = "sent"] /\ request[r].target \in Replicas
    BY <1>2 DEF Forward, TablesInv
  <2>2. DOMAIN inflight' = DOMAIN inflight \cup {request[r].target}
    BY <1>2, CountedValues DEF Forward
  <2>3. \A q \in Requests : request'[q].state # "new" => request'[q].target \in Replicas
    BY <2>1, SetState DEF TablesInv, States
  <2>4. request' \in [Requests -> [state: States, target: Replicas \cup {Nobody}]]
    BY <2>1, SetState DEF States
  <2> QED BY <1>2, <2>1, <2>2, <2>3, <2>4 DEF Forward, TablesInv
<1> QED BY <1>1, <1>2

LEMMA EndTables ==
  ASSUME TablesInv, LoadInv, NEW r \in Requests, Answered(r) \/ Breaks(r)
  PROVE  TablesInv'
<1> DEFINE t == request[r].target
<1>1. Ends(r) /\ inflight' = Uncounted(t)
  BY DEF Answered, Breaks, AfterFailure
<1>2. request' = [request EXCEPT ![r].state = "done"] /\ t \in Replicas
  BY <1>1 DEF Ends, TablesInv
<1>3. \A q \in Requests : request'[q].state # "new" => request'[q].target \in Replicas
  BY <1>2, SetState DEF TablesInv, States
<1>4. request' \in [Requests -> [state: States, target: Replicas \cup {Nobody}]]
  BY <1>2, SetState DEF States
<1>5. DOMAIN inflight' = DOMAIN inflight
  BY <1>1, <1>2, UncountedValues DEF LoadInv
<1>6. /\ DOMAIN healthy \subseteq DOMAIN healthy' /\ DOMAIN healthy' \subseteq Replicas
      /\ \A u \in DOMAIN healthy' : healthy'[u] \in BOOLEAN
  <2>1. CASE Answered(r)
    BY <2>1 DEF Answered, TablesInv
  <2>2. CASE Breaks(r)
    BY <1>2, <2>2 DEF Breaks, TablesInv, Put
  <2> QED BY <2>1, <2>2
<1>7. UNCHANGED <<targets, up, probe>>
  BY <1>1 DEF Ends
<1> QED BY <1>3, <1>4, <1>5, <1>6, <1>7 DEF TablesInv

LEMMA RetargetTables == ASSUME TablesInv, Retarget PROVE TablesInv'
<1>1. PICK new \in (SUBSET Replicas) \ {{}} :
        /\ targets' = new /\ inflight' = KeptCount(new) /\ healthy' = KeptOr(healthy, FALSE, new)
  BY DEF Retarget
<1>2. /\ DOMAIN inflight' = new /\ DOMAIN healthy' = new
      /\ \A t \in new : healthy'[t] = IF t \in DOMAIN healthy THEN healthy[t] ELSE FALSE
  BY <1>1 DEF KeptCount, KeptOr
<1>3. ASSUME NEW t \in DOMAIN healthy' PROVE healthy'[t] \in BOOLEAN
  <2>1. t \in new
    BY <1>2
  <2>2. healthy'[t] = IF t \in DOMAIN healthy THEN healthy[t] ELSE FALSE
    BY <1>2, <2>1
  <2> QED BY <2>2 DEF TablesInv
<1>4. UNCHANGED <<request, up, probe>>
  BY DEF Retarget
<1> QED BY <1>1, <1>2, <1>3, <1>4 DEF TablesInv

LEMMA ProbeTables ==
  ASSUME TablesInv, Probing \/ \E t \in Replicas : Flip(t)
  PROVE  TablesInv'
<1> USE DEF TablesInv
<1>1. CASE StartPass
  BY <1>1 DEF StartPass, Asked, Silent
<1>2. CASE AskNext
  BY <1>2 DEF AskNext, Silent
<1>3. CASE AnswerProbe
  BY <1>3 DEF AnswerProbe
<1>4. CASE TakeAnswer
  <2>1. /\ DOMAIN healthy' = DOMAIN healthy
        /\ \A t \in DOMAIN healthy' : healthy'[t] \in BOOLEAN
    BY <1>4 DEF TakeAnswer, Noted
  <2>2. /\ probe' \in [todo: SUBSET Replicas, asking: Replicas \cup {Nobody},
                       up: BOOLEAN, answered: BOOLEAN]
        /\ UNCHANGED <<targets, inflight, request, up>>
    BY <1>4 DEF TakeAnswer, Silent
  <2> QED BY <2>1, <2>2
<1>5. ASSUME NEW t \in Replicas, Flip(t) PROVE TablesInv'
  BY <1>5 DEF Flip
<1> QED BY <1>1, <1>2, <1>3, <1>4, <1>5 DEF Probing

LEMMA TablesNext == ASSUME TablesInv, LoadInv, [GatewayNext]_gatewayVars PROVE TablesInv'
<1>1. CASE UNCHANGED gatewayVars
  BY <1>1 DEF gatewayVars, TablesInv
<1>2. ASSUME NEW r \in Requests, Arrive(r) \/ Serving(r) PROVE TablesInv'
  BY <1>2, RequestTables, EndTables DEF Serving
<1> QED BY <1>1, <1>2, RetargetTables, ProbeTables DEF GatewayNext

-----------------------------------------------------------------------------
(* The load. *)

\* What a request does to the sets of requests under way.
LEMMA SentKept ==
  ASSUME UNCHANGED request, NEW t
  PROVE  Sent(t)' = Sent(t)
  BY DEF Sent

LEMMA SentGrows ==
  ASSUME TablesInv, NEW r \in Requests, Forward(r), NEW u
  PROVE  Sent(u)' = (IF u = request[r].target THEN Sent(u) \cup {r} ELSE Sent(u)) /\ r \notin Sent(u)
<1>1. /\ request'[r].state = "sent" /\ request'[r].target = request[r].target
      /\ \A q \in Requests \ {r} : request'[q] = request[q]
  BY SetState DEF Forward, States
<1>2. request[r].state = "routed"
  BY DEF Forward
<1> QED BY <1>1, <1>2 DEF Sent

LEMMA SentShrinks ==
  ASSUME TablesInv, NEW r \in Requests, Ends(r), NEW u
  PROVE  /\ Sent(u)' = Sent(u) \ {r}
         /\ r \in Sent(u) <=> u = request[r].target
<1>1. /\ request'[r].state = "done"
      /\ \A q \in Requests \ {r} : request'[q] = request[q]
  BY SetState DEF Ends, States
<1>2. request[r].state = "sent"
  BY DEF Ends
<1> QED BY <1>1, <1>2 DEF Sent

LEMMA LoadInit == GatewayInit => LoadInv
<1> SUFFICES ASSUME GatewayInit PROVE LoadInv
  OBVIOUS
<1>1. \A t \in Replicas : Load(t) = 0
  BY DEF GatewayInit, Load
<1>2. \A t : Sent(t) = {}
  BY DEF GatewayInit, Sent
<1>3. lost \in [Replicas -> Nat] /\ \A t \in Replicas : lost[t] = 0
  BY DEF GatewayInit
<1>4. \A t : Cardinality(Sent(t)) = 0
  BY <1>2, FS_EmptySet
<1> QED BY <1>1, <1>3, <1>4 DEF LoadInv

\* Steps that leave the requests under way, the counters and the history alone.
LEMMA LoadQuiet ==
  ASSUME LoadInv, \A t : Sent(t)' = Sent(t), UNCHANGED <<inflight, lost>>
  PROVE  LoadInv'
  BY DEF LoadInv, Load

\* Routing a request puts nothing under way yet.
LEMMA LoadArrive ==
  ASSUME TablesInv, LoadInv, NEW r \in Requests, Arrive(r)
  PROVE  LoadInv'
<1>1. PICK t \in Pick : request' = [request EXCEPT ![r] = [state |-> "routed", target |-> t]]
  BY DEF Arrive
<1>2. \A q \in Requests : request'[q] = request[q] \/ (q = r /\ request'[q].state = "routed")
  BY <1>1 DEF TablesInv
<1>3. request[r].state = "new" /\ \A q \in Requests \ {r} : request'[q] = request[q]
  BY <1>1 DEF Arrive, TablesInv
<1>4. request'[r].state = "routed"
  BY <1>1 DEF TablesInv
<1>5. \A u : Sent(u)' = Sent(u)
  BY <1>3, <1>4 DEF Sent
<1> QED BY <1>5, LoadQuiet DEF Arrive

LEMMA LoadForward ==
  ASSUME TablesInv, LoadInv, NEW r \in Requests, Forward(r)
  PROVE  LoadInv'
<1> DEFINE t == request[r].target
<1>0. t \in Replicas /\ inflight' = Counted(t) /\ UNCHANGED lost
  BY DEF Forward, TablesInv
<1> HIDE DEF t
<1>1. ASSUME NEW u \in Replicas
      PROVE  LET n == Cardinality(Sent(u))' IN
             Load(u)' \in Nat /\ Load(u)' <= n /\ n <= Load(u)' + lost'[u]
  <2>1. /\ Load(u) \in Nat /\ lost[u] \in Nat /\ Cardinality(Sent(u)) \in Nat
        /\ Load(u) <= Cardinality(Sent(u)) /\ Cardinality(Sent(u)) <= Load(u) + lost[u]
    BY SentFinite DEF LoadInv
  <2>2. CASE u = t
    <3>1. Sent(u)' = Sent(u) \cup {r} /\ r \notin Sent(u)
      BY <2>2, SentGrows DEF t
    <3>2. Cardinality(Sent(u)') = Cardinality(Sent(u)) + 1
      BY <3>1, SentFinite, FS_AddElement
    <3>3. Load(u)' = Load(u) + 1
      BY <1>0, <2>2, CountedValues DEF Load
    <3> QED BY <1>0, <2>1, <3>2, <3>3
  <2>3. CASE u # t
    <3>1. Sent(u)' = Sent(u)
      BY <2>3, SentGrows DEF t
    <3>2. Load(u)' = Load(u)
      <4>1. DOMAIN inflight' = DOMAIN inflight \cup {t}
        BY <1>0, CountedValues
      <4>2. u \in DOMAIN inflight => inflight'[u] = inflight[u]
        BY <1>0, <2>3, CountedValues
      <4> QED BY <2>3, <4>1, <4>2 DEF Load
    <3> QED BY <1>0, <2>1, <3>1, <3>2
  <2> QED BY <2>2, <2>3
<1>2. lost' \in [Replicas -> Nat]
  BY <1>0 DEF LoadInv
<1> QED BY <1>1, <1>2 DEF LoadInv

LEMMA LoadEnds ==
  ASSUME TablesInv, LoadInv, NEW r \in Requests, Answered(r) \/ Breaks(r)
  PROVE  LoadInv'
<1> DEFINE t == request[r].target
<1>0. /\ t \in Replicas /\ Ends(r) /\ inflight' = Uncounted(t)
      /\ lost' = [lost EXCEPT ![t] = IF Sent(t) = {r} THEN 0 ELSE lost[t]]
  BY DEF Answered, Breaks, Ends, AfterFailure, TablesInv
<1> HIDE DEF t
<1>1. ASSUME NEW u \in Replicas
      PROVE  LET n == Cardinality(Sent(u))' IN
             Load(u)' \in Nat /\ Load(u)' <= n /\ n <= Load(u)' + lost'[u]
  <2>1. /\ Load(u) \in Nat /\ lost[u] \in Nat /\ Cardinality(Sent(u)) \in Nat
        /\ Load(u) <= Cardinality(Sent(u)) /\ Cardinality(Sent(u)) <= Load(u) + lost[u]
    BY SentFinite DEF LoadInv
  <2>2. CASE u = t
    <3>1. Sent(u)' = Sent(u) \ {r} /\ r \in Sent(u)
      BY <1>0, <2>2, SentShrinks DEF t
    <3>2. Cardinality(Sent(u)') = Cardinality(Sent(u)) - 1
      BY <3>1, SentFinite, FS_RemoveElement
    <3>3. Load(u)' = IF Load(u) > 0 THEN Load(u) - 1 ELSE 0
      BY <1>0, <2>1, <2>2, UncountedValues DEF Load
    <3>4. CASE Sent(u) = {r}
      <4>1. Cardinality(Sent(u)) = 1 /\ lost'[u] = 0
        BY <1>0, <2>2, <3>4, FS_Singleton DEF LoadInv
      <4> QED BY <2>1, <3>2, <3>3, <4>1
    <3>5. CASE Sent(u) # {r}
      <4>1. lost'[u] = lost[u]
        BY <1>0, <2>2, <3>5 DEF LoadInv
      <4>2. Cardinality(Sent(u)) > 0
        BY <2>1, <3>1, SentFinite, FS_EmptySet
      <4> QED BY <2>1, <3>2, <3>3, <4>1, <4>2
    <3> QED BY <3>4, <3>5
  <2>3. CASE u # t
    <3>1. Sent(u)' = Sent(u)
      BY <1>0, <2>3, SentShrinks DEF t
    <3>2. Load(u)' = Load(u)
      BY <1>0, <2>3, UncountedValues DEF Load, LoadInv
    <3>3. lost'[u] = lost[u]
      BY <1>0, <2>3 DEF LoadInv
    <3> QED BY <2>1, <3>1, <3>2, <3>3
  <2> QED BY <2>2, <2>3
<1>2. lost' \in [Replicas -> Nat]
  BY <1>0 DEF LoadInv
<1> QED BY <1>1, <1>2 DEF LoadInv

\* What leaves the table is remembered as lost track of.
LEMMA LoadRetarget == ASSUME TablesInv, LoadInv, Retarget PROVE LoadInv'
<1>1. PICK new \in (SUBSET Replicas) \ {{}} :
        /\ inflight' = KeptCount(new)
        /\ lost' = [t \in Replicas |-> IF t \in new THEN lost[t] ELSE Cardinality(Sent(t))]
  BY DEF Retarget
<1>2. \A t : Sent(t)' = Sent(t)
  BY SentKept DEF Retarget
<1>3. ASSUME NEW u \in Replicas
      PROVE  LET n == Cardinality(Sent(u))' IN
             Load(u)' \in Nat /\ Load(u)' <= n /\ n <= Load(u)' + lost'[u]
  <2>1. /\ Load(u) \in Nat /\ lost[u] \in Nat /\ Cardinality(Sent(u)) \in Nat
        /\ Load(u) <= Cardinality(Sent(u)) /\ Cardinality(Sent(u)) <= Load(u) + lost[u]
    BY SentFinite DEF LoadInv
  <2>2. CASE u \in new
    <3>1. Load(u)' = Load(u)
      BY <1>1, <2>2, KeptValues DEF KeptCount, Load
    <3> QED BY <1>1, <1>2, <2>1, <2>2, <3>1
  <2>3. CASE u \notin new
    <3>1. Load(u)' = 0
      BY <1>1, <2>3, KeptValues DEF KeptCount, Load
    <3> QED BY <1>1, <1>2, <2>1, <2>3, <3>1
  <2> QED BY <2>2, <2>3
<1>4. lost' \in [Replicas -> Nat]
  <2>1. \A t : Cardinality(Sent(t)) \in Nat
    BY SentFinite
  <2> QED BY <1>1, <2>1 DEF LoadInv
<1> QED BY <1>3, <1>4 DEF LoadInv

LEMMA LoadNext == ASSUME TablesInv, LoadInv, [GatewayNext]_gatewayVars PROVE LoadInv'
<1>1. CASE UNCHANGED gatewayVars \/ Probing \/ \E t \in Replicas : Flip(t)
  <2>1. UNCHANGED <<request, inflight, lost>>
    BY <1>1 DEF gatewayVars, Probing, StartPass, AskNext, AnswerProbe, TakeAnswer, Flip
  <2> QED BY <2>1, SentKept, LoadQuiet
<1>2. ASSUME NEW r \in Requests, Arrive(r) \/ Serving(r) PROVE LoadInv'
  BY <1>2, LoadArrive, LoadForward, LoadEnds DEF Serving
<1> QED BY <1>1, <1>2, LoadRetarget DEF GatewayNext

LEMMA LoadGives == TablesInv /\ LoadInv => LoadTrue
<1> SUFFICES ASSUME TablesInv, LoadInv PROVE LoadTrue
  OBVIOUS
<1>1. \A t \in DOMAIN inflight : t \in Replicas /\ inflight[t] = Load(t)
  BY DEF TablesInv, Load
<1>2. Cardinality(Requests) \in Nat
  BY GatewayAssumption, FS_CardinalityType
<1>3. ASSUME NEW t \in DOMAIN inflight PROVE inflight[t] \in 0..Cardinality(Requests)
  <2>1. Load(t) \in Nat /\ Load(t) <= Cardinality(Sent(t)) /\ inflight[t] = Load(t)
    BY <1>1 DEF LoadInv
  <2>2. Cardinality(Sent(t)) \in Nat /\ Cardinality(Sent(t)) <= Cardinality(Requests)
    BY SentFinite
  <2> QED BY <1>2, <2>1, <2>2
<1>4. GatewayTypeOK
  BY <1>3 DEF GatewayTypeOK, TablesInv, Range
<1>5. LoadCounted
  BY <1>1 DEF LoadCounted, LoadInv, TablesInv
<1>6. NoGhostLoad
  BY <1>1 DEF NoGhostLoad, LoadInv
<1> QED BY <1>4, <1>5, <1>6 DEF LoadTrue

\* However requests end, targets are replaced and probes come late, the load
\* that requests are routed by is the requests under way, but for those that
\* were under way when their target left the table.
THEOREM GatewayLoadTrue == GatewaySpec => []LoadTrue
  BY TablesInit, TablesNext, LoadInit, LoadNext, LoadGives, PTL DEF GatewaySpec
=============================================================================
