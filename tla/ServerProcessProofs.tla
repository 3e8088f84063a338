-------------------------- MODULE ServerProcessProofs --------------------------
(***************************************************************************)
(* What holds of the processes of a campaign for all values of the         *)
(* constants: of the parameter server's checkpoint file, of the sessions   *)
(* that stream a push into it and of the outer steps it takes; and of the  *)
(* launcher that starts and ends everything.                               *)
(*                                                                         *)
(* The checkpoint file.  When pushes, with their checkpoints, are          *)
(* serialized by _stream_lock, a crash or a failing write at any point     *)
(* leaves a complete checkpoint, and no checkpoint replaces a newer one.   *)
(* SaveInv says why: at most one thread is between its commit and its      *)
(* rename, path.tmp is never the file the path names, and what the path    *)
(* names is never newer than the model.  ClaimInv says where the last      *)
(* claim is as long as nothing failed: in the file, or with the one thread *)
(* that saves.                                                             *)
(*                                                                         *)
(* The fragments.  _fragment_bounds cuts the parameters, whatever their    *)
(* sizes, into ranges that leave nothing out and are about even: CutInv    *)
(* and EvenInv say what holds after each parameter.                        *)
(*                                                                         *)
(* The outer steps.  SoundInv puts together what OuterSteps says of jobs,  *)
(* values and batches: a step has nothing to do with a push that was not   *)
(* committed, the books of Delayed Nesterov add up for each push, and no   *)
(* coefficient is divided down to 0 by the commits still to come.          *)
(*                                                                         *)
(* StreamInv, StepsInv, ValuesInv and CampaignInv, of which the inductive  *)
(* invariants of the other parts consist, are in the modules of the parts. *)
(***************************************************************************)
EXTENDS CheckpointFile, Launcher, ServerPush,
        SequenceTheorems, FiniteSetTheorems, WellFoundedInduction, TLAPS

-----------------------------------------------------------------------------
(* Induction, by sets; folds and sums. *)

LEMMA LeastOf ==
  ASSUME NEW T \in SUBSET Nat, T # {}
  PROVE  \E n \in T : \A k \in T : n <= k
<1>. DEFINE R == OpToRel(<, Nat)
<1>1. IsWellFoundedOn(R, Nat)
  BY NatLessThanWellFounded
<1>2. PICK n \in T : \A k \in T : <<k, n>> \notin R
  <2>. HIDE DEF R
  <2> QED BY <1>1, WFMin
<1>3. \A k \in T : <<k, n>> \in R <=> k < n
  BY DEF OpToRel
<1>4. \A k \in T : ~(k < n)
  <2>. HIDE DEF R
  <2> QED BY <1>2, <1>3
<1>5. \A k \in T : n \in Int /\ k \in Int
  OBVIOUS
<1> QED BY <1>4, <1>5

\* What holds at 0, and at n + 1 if it does at n, holds everywhere.
LEMMA SetInduction ==
  ASSUME NEW S, 0 \in S, \A n \in Nat : n \in S => n + 1 \in S
  PROVE  \A n \in Nat : n \in S
<1>1. SUFFICES ASSUME Nat \ S # {} PROVE FALSE OBVIOUS
<1>2. PICK n \in Nat \ S : \A k \in Nat \ S : n <= k
  BY <1>1, LeastOf
<1>3. n - 1 \in Nat /\ n - 1 < n BY <1>2
<1> QED BY <1>2, <1>3

\* A set of indices has a largest one.
LEMMA MaxIs ==
  ASSUME NEW m \in Nat, NEW s \in SUBSET (1..m), s # {}
  PROVE  Max(s) \in s /\ \A i \in s : Max(s) >= i
<1>. DEFINE T == {m - i : i \in s}
<1>0. \A i \in s : i \in Nat /\ m - i \in Nat
  OBVIOUS
<1>1. T \in SUBSET Nat /\ T # {}
  BY <1>0
<1>2. PICK n \in T : \A k \in T : n <= k
  <2>. HIDE DEF T
  <2> QED BY <1>1, LeastOf
<1>3. PICK x \in s : n = m - x
  BY <1>2
<1>4. \A i \in s : m - i \in T
  OBVIOUS
<1>5. \A i \in s : x >= i
  BY <1>0, <1>2, <1>3, <1>4
<1> QED
  BY <1>5 DEF Max

LEMMA MaxOfFirst ==
  ASSUME NEW i \in Nat \ {0}
  PROVE  Max(1..i) = i /\ (1..i) \ {i} = 1..(i - 1)
<1>1. Max(1..i) \in 1..i /\ \A j \in 1..i : Max(1..i) >= j
  <2>1. 1..i \in SUBSET (1..i) /\ 1..i # {}
    BY SMT
  <2> QED BY <2>1, MaxIs
<1>2. Max(1..i) >= i
  BY <1>1
<1> QED
  BY <1>1, <1>2

\* What a fold over the indices 1..m computes, of the step F and from z.
IsFold(m, V, z, F, h) ==
  /\ h \in [SUBSET (1..m) -> V] /\ h[{}] = z
  /\ \A s \in SUBSET (1..m) : s # {} => h[s] = F[Max(s)][h[s \ {Max(s)}]]

\* The recursion of a fold, over sets of indices, is well founded.
LEMMA FoldExists ==
  ASSUME NEW m \in Nat, NEW V, NEW z \in V, NEW F, \A i \in 1..m, v \in V : F[i][v] \in V
  PROVE  \E h : IsFold(m, V, z, F, h)
<1>. DEFINE Few(k) == {s \in SUBSET (1..m) : Cardinality(s) <= k}
            Step(f, s) == IF s = {} THEN z ELSE F[Max(s)][f[s \ {Max(s)}]]
            Works(f, k) == f \in [Few(k) -> V] /\ \A s \in Few(k) : f[s] = Step(f, s)
            Good == {k \in Nat : \E f : Works(f, k)}
<1>0. \A s \in SUBSET (1..m) : IsFiniteSet(s) /\ Cardinality(s) \in Nat /\ (Cardinality(s) = 0 <=> s = {})
  <2>. SUFFICES ASSUME NEW s \in SUBSET (1..m)
                PROVE  IsFiniteSet(s) /\ Cardinality(s) \in Nat /\ (Cardinality(s) = 0 <=> s = {})
    OBVIOUS
  <2>1. IsFiniteSet(1..m)
    BY FS_Interval
  <2>2. IsFiniteSet(s)
    BY <2>1, FS_Subset
  <2> QED BY <2>2, FS_CardinalityType, FS_EmptySet
<1>1. 0 \in Good
  <2>. DEFINE f == [s \in Few(0) |-> z]
  <2>1. \A s \in Few(0) : s = {}
    BY <1>0
  <2>2. Works(f, 0)
    BY <2>1
  <2>. HIDE DEF Works, f
  <2> QED BY <2>2
<1>2. ASSUME NEW k \in Nat, k \in Good PROVE k + 1 \in Good
  <2>1. PICK f : Works(f, k)
    BY <1>2
  <2>. DEFINE g == [s \in Few(k + 1) |-> Step(f, s)]
  <2>2. \A s \in Few(k) : g[s] = f[s]
    <3>1. ASSUME NEW s \in Few(k) PROVE s \in Few(k + 1)
      <4>1. s \in SUBSET (1..m) /\ Cardinality(s) <= k /\ Cardinality(s) \in Nat
        BY <1>0
      <4>2. Cardinality(s) <= k + 1
        BY <4>1
      <4> QED BY <4>1, <4>2
    <3>. HIDE DEF Few
    <3> QED BY <2>1, <3>1
  <2>3. \A s \in Few(k + 1) : s # {} => s \ {Max(s)} \in Few(k) /\ Max(s) \in 1..m
    <3>. SUFFICES ASSUME NEW s \in Few(k + 1), s # {} PROVE s \ {Max(s)} \in Few(k) /\ Max(s) \in 1..m
      OBVIOUS
    <3>1. Max(s) \in s
      BY MaxIs
    <3>2. Cardinality(s \ {Max(s)}) = Cardinality(s) - 1
      BY <1>0, <3>1, FS_RemoveElement
    <3>3. s \in SUBSET (1..m) /\ s \ {Max(s)} \in SUBSET (1..m) /\ Cardinality(s) <= k + 1 /\ Cardinality(s) \in Nat
      BY <1>0
    <3>4. Cardinality(s) - 1 <= k
      BY <3>3
    <3> QED BY <3>1, <3>2, <3>3, <3>4
  <2>4. \A s \in Few(k + 1) : Step(g, s) = Step(f, s)
    <3>. HIDE DEF g, Few
    <3> QED BY <2>2, <2>3
  <2>5. \A s \in Few(k + 1) : Step(f, s) \in V
    <3>1. f \in [Few(k) -> V]
      BY <2>1
    <3>. HIDE DEF Few
    <3> QED BY <2>3, <3>1
  <2>6. Works(g, k + 1)
    <3>1. \A s \in Few(k + 1) : g[s] = Step(f, s)
      OBVIOUS
    <3>2. g \in [Few(k + 1) -> V]
      <4>. HIDE DEF Step, Few
      <4> QED BY <2>5
    <3>. HIDE DEF Step, Few, g
    <3> QED BY <2>4, <3>1, <3>2
  <2>7. k + 1 \in Nat
    OBVIOUS
  <2>. HIDE DEF Works, g
  <2> QED BY <2>6, <2>7
<1>3. m \in Good
  <2>1. \A n \in Nat : n \in Good
    <3>. HIDE DEF Good
    <3> QED BY <1>1, <1>2, SetInduction
  <2> QED BY <2>1
<1>4. Few(m) = SUBSET (1..m)
  <2>1. \A s \in SUBSET (1..m) : Cardinality(s) <= m
    <3>. SUFFICES ASSUME NEW s \in SUBSET (1..m) PROVE Cardinality(s) <= m
      OBVIOUS
    <3>1. IsFiniteSet(1..m) /\ Cardinality(1..m) = m
      BY FS_Interval
    <3>2. Cardinality(s) <= Cardinality(1..m)
      BY <3>1, FS_Subset
    <3> QED BY <3>1, <3>2
  <2> QED BY <2>1
<1>5. PICK f : Works(f, m)
  BY <1>3
<1>6. f \in [SUBSET (1..m) -> V] /\ \A s \in SUBSET (1..m) : f[s] = Step(f, s)
  <2>. HIDE DEF Step, Few
  <2> QED BY <1>4, <1>5
<1>7. IsFold(m, V, z, F, f)
  BY <1>6 DEF IsFold
<1> QED
  BY <1>7

\* The sets of indices that a fold goes through, one after the other.
LEMMA FirstIndices ==
  ASSUME NEW m \in Nat
  PROVE  /\ 1..0 = {} /\ 0 \in 0..m /\ m \in 0..m
         /\ \A i \in 0..m : 1..i \in SUBSET (1..m)
         /\ \A i \in 1..m : /\ 1..i # {} /\ i - 1 \in 0..m /\ i \in 0..m
                            /\ Max(1..i) = i /\ (1..i) \ {Max(1..i)} = 1..(i - 1)
<1>1. 1..0 = {} /\ 0 \in 0..m /\ m \in 0..m /\ \A i \in 0..m : 1..i \in SUBSET (1..m)
  OBVIOUS
<1>2. ASSUME NEW i \in 1..m
      PROVE  /\ 1..i # {} /\ i - 1 \in 0..m /\ i \in 0..m
             /\ Max(1..i) = i /\ (1..i) \ {Max(1..i)} = 1..(i - 1)
  <2>1. i \in Nat \ {0} /\ i \in 1..i /\ i - 1 \in 0..m /\ i \in 0..m
    BY SMT
  <2> QED BY <2>1, MaxOfFirst
<1> QED
  BY <1>1, <1>2

\* Sums, one element after the other.
LEMMA TotalSteps ==
  ASSUME NEW q \in Seq(Nat)
  PROVE  \E a \in [0..Len(q) -> Nat] :
           a[0] = 0 /\ (\A i \in 1..Len(q) : a[i] = a[i - 1] + q[i]) /\ a[Len(q)] = Total(q)
<1>. DEFINE m == Len(q)
            It(it) == it = [s \in SUBSET DOMAIN q |-> IF s = {} THEN 0 ELSE it[s \ {Max(s)}] + q[Max(s)]]
            it == CHOOSE it : It(it)
            F == [i \in 1..m |-> [v \in Nat |-> v + q[i]]]
<1>1. Total(q) = it[DOMAIN q]
  BY DEF Total, FoldLeft, MapThenFoldSet
<1>2. m \in Nat /\ DOMAIN q = 1..m /\ \A i \in 1..m : q[i] \in Nat
  OBVIOUS
<1>3. \A i \in 1..m, v \in Nat : F[i][v] = v + q[i] /\ F[i][v] \in Nat
  BY <1>2
<1>4. \A s \in SUBSET (1..m) : s # {} => Max(s) \in 1..m /\ s \ {Max(s)} \in SUBSET (1..m)
  BY <1>2, MaxIs
<1>. HIDE DEF m, F
<1>5. PICK h : IsFold(m, Nat, 0, F, h)
  <2>1. 0 \in Nat /\ m \in Nat /\ \A i \in 1..m, v \in Nat : F[i][v] \in Nat
    BY <1>2, <1>3
  <2> QED BY <2>1, FoldExists
<1>6. It(h)
  <2>1. \A s \in SUBSET (1..m) : h[s] = IF s = {} THEN 0 ELSE h[s \ {Max(s)}] + q[Max(s)]
    BY <1>3, <1>4, <1>5 DEF IsFold
  <2>2. DOMAIN h = SUBSET (1..m) /\ h = [s \in DOMAIN h |-> h[s]]
    BY <1>5 DEF IsFold
  <2> QED BY <1>2, <2>1, <2>2
<1>7. It(it)
  <2>. HIDE DEF It
  <2> QED BY <1>6
<1>. HIDE DEF it
<1>. DEFINE a == [i \in 0..m |-> it[1..i]]
<1>8. \A s \in SUBSET (1..m) : it[s] = IF s = {} THEN 0 ELSE it[s \ {Max(s)}] + q[Max(s)]
  BY <1>2, <1>7
<1>9. a[0] = 0 /\ \A i \in 1..m : a[i] = a[i - 1] + q[i]
  <2>1. a[0] = 0
    BY <1>2, <1>8, FirstIndices
  <2>2. ASSUME NEW i \in 1..m PROVE a[i] = a[i - 1] + q[i]
    <3>2. 1..i \in SUBSET (1..m) /\ 1..i # {} /\ Max(1..i) = i /\ (1..i) \ {Max(1..i)} = 1..(i - 1)
      BY <1>2, FirstIndices
    <3>3. it[1..i] = it[(1..i) \ {Max(1..i)}] + q[Max(1..i)]
      BY <1>8, <3>2
    <3>1. it[1..i] = it[1..(i - 1)] + q[i]
      BY <3>2, <3>3
    <3> QED BY <1>2, <3>1, FirstIndices
  <2> QED BY <2>1, <2>2
<1>10. \A i \in Nat : i \in {j \in Nat : j <= m => a[j] \in Nat}
  <2>. DEFINE S == {j \in Nat : j <= m => a[j] \in Nat}
  <2>1. 0 \in S
    BY <1>9
  <2>2. ASSUME NEW j \in Nat, j \in S PROVE j + 1 \in S
    <3>. HIDE DEF a
    <3> QED BY <1>2, <1>9, <2>2
  <2>. HIDE DEF S
  <2>3. \A i \in Nat : i \in S
    BY <2>1, <2>2, SetInduction
  <2> QED BY <2>3 DEF S
<1>11. a \in [0..m -> Nat]
  <2>1. \A i \in 0..m : a[i] \in Nat
    <3>. HIDE DEF a
    <3> QED BY <1>2, <1>10
  <2> QED BY <2>1
<1>12. a[m] = Total(q)
  BY <1>1, <1>2, FirstIndices
<1>. HIDE DEF a
<1> QED
  BY <1>9, <1>11, <1>12 DEF m

\* What a sequence of sizes sums up to: as P[i] is the sum of its first i.
Sums(q, P) == P \in [0..Len(q) -> Nat] /\ P[0] = 0 /\ \A i \in 1..Len(q) : P[i] = P[i - 1] + q[i]

LEMMA SizeIsSums ==
  ASSUME NEW q \in Seq(Nat), NEW P, Sums(q, P), NEW lo \in 0..Len(q), NEW hi \in 0..Len(q), lo <= hi
  PROVE  SizeOf(q, <<lo, hi>>) = P[hi] - P[lo]
<1>. DEFINE u == SubSeq(q, lo + 1, hi)
            n == hi - lo
<1>1. u \in Seq(Nat) /\ Len(u) = n /\ n \in Nat /\ \A i \in 1..n : u[i] = q[lo + i] /\ lo + i \in 1..Len(q)
  <2>1. \A i \in (lo + 1)..hi : q[i] \in Nat
    BY SMT
  <2>2. lo + 1 \in Int /\ hi \in Int
    BY SMT
  <2> QED BY <2>1, <2>2, SubSeqProperties
<1>2. SizeOf(q, <<lo, hi>>) = Total(u)
  BY DEF SizeOf
<1>. HIDE DEF u, n
<1>3. PICK a \in [0..n -> Nat] : a[0] = 0 /\ (\A i \in 1..n : a[i] = a[i - 1] + u[i]) /\ a[n] = Total(u)
  BY <1>1, TotalSteps
<1>4. \A i \in Nat : i \in {j \in Nat : j <= n => a[j] = P[lo + j] - P[lo]}
  <2>. DEFINE S == {j \in Nat : j <= n => a[j] = P[lo + j] - P[lo]}
  <2>0. \A j \in 0..n : lo + j \in 0..Len(q) /\ P[lo + j] \in Nat
    <3>. SUFFICES ASSUME NEW j \in 0..n PROVE lo + j \in 0..Len(q) /\ P[lo + j] \in Nat
      OBVIOUS
    <3>1. lo + j \in 0..Len(q)
      BY DEF n
    <3> QED BY <3>1 DEF Sums
  <2>1. 0 \in S
    <3>1. 0 \in 0..n /\ lo + 0 = lo
      BY <1>1
    <3>2. P[lo] \in Nat /\ a[0] = P[lo + 0] - P[lo]
      BY <1>3, <2>0, <3>1
    <3> QED BY <3>2
  <2>2. ASSUME NEW j \in Nat, j \in S PROVE j + 1 \in S
    <3>. SUFFICES ASSUME j + 1 <= n PROVE a[j + 1] = P[lo + j + 1] - P[lo]
      BY <2>2
    <3>1. j + 1 \in 1..n /\ j \in 0..n /\ a[j] = P[lo + j] - P[lo]
      BY <2>2, <1>1
    <3>5. lo + j + 1 = lo + (j + 1) /\ (j + 1) - 1 = j /\ (lo + j + 1) - 1 = lo + j
      OBVIOUS
    <3>2. a[j + 1] = a[j] + u[j + 1] /\ u[j + 1] = q[lo + j + 1] /\ lo + j + 1 \in 1..Len(q)
      <4>1. a[j + 1] = a[(j + 1) - 1] + u[j + 1]
        BY <1>3, <3>1, Zenon
      <4>2. u[j + 1] = q[lo + (j + 1)] /\ lo + (j + 1) \in 1..Len(q)
        BY <1>1, <3>1, Zenon
      <4> QED BY <3>5, <4>1, <4>2, Zenon
    <3>6. lo \in 0..Len(q)
      OBVIOUS
    <3>3. P[lo + j + 1] = P[lo + j] + q[lo + j + 1] /\ P[lo + j] \in Nat /\ P[lo] \in Nat
      BY <2>0, <3>1, <3>2, <3>5, <3>6 DEF Sums
    <3>4. q[lo + j + 1] \in Nat
      BY <3>2
    <3> QED BY <3>1, <3>2, <3>3, <3>4
  <2>. HIDE DEF S
  <2>3. \A i \in Nat : i \in S
    BY <2>1, <2>2, SetInduction
  <2> QED BY <2>3 DEF S
<1>5. a[n] = P[hi] - P[lo]
  BY <1>1, <1>4 DEF n
<1> QED
  BY <1>2, <1>3, <1>5

LEMMA TotalIsNat ==
  ASSUME NEW q \in Seq(Nat)
  PROVE  Total(q) \in Nat
<1>1. PICK a \in [0..Len(q) -> Nat] : a[Len(q)] = Total(q)
  BY TotalSteps
<1>2. Len(q) \in 0..Len(q)
  OBVIOUS
<1> QED
  BY <1>1, <1>2

\* A sequence has its sums, the last of which is its Total.
LEMMA SumsExist ==
  ASSUME NEW q \in Seq(Nat)
  PROVE  \E P : Sums(q, P) /\ P[Len(q)] = Total(q)
BY TotalSteps DEF Sums

\* No element is larger than Largest.
LEMMA LargestIs ==
  ASSUME NEW q \in Seq(Nat)
  PROVE  Largest(q) \in Nat /\ \A i \in 1..Len(q) : q[i] <= Largest(q)
<1>. DEFINE m == Len(q)
            Larger(v, x) == IF AbsOf(x) > v THEN AbsOf(x) ELSE v
            It(it) == it = [s \in SUBSET DOMAIN q |-> IF s = {} THEN 0 ELSE Larger(it[s \ {Max(s)}], q[Max(s)])]
            it == CHOOSE it : It(it)
            F == [i \in 1..m |-> [v \in Nat |-> Larger(v, q[i])]]
<1>1. Largest(q) = it[DOMAIN q]
  BY DEF Largest, FoldLeft, MapThenFoldSet
<1>2. m \in Nat /\ DOMAIN q = 1..m /\ \A i \in 1..m : q[i] \in Nat
  OBVIOUS
<1>3. \A i \in 1..m, v \in Nat : /\ F[i][v] = Larger(v, q[i]) /\ F[i][v] \in Nat
                                 /\ Larger(v, q[i]) \in Nat /\ Larger(v, q[i]) >= v /\ Larger(v, q[i]) >= q[i]
  <2>. SUFFICES ASSUME NEW i \in 1..m, NEW v \in Nat
                PROVE  /\ F[i][v] = Larger(v, q[i]) /\ F[i][v] \in Nat
                       /\ Larger(v, q[i]) \in Nat /\ Larger(v, q[i]) >= v /\ Larger(v, q[i]) >= q[i]
    OBVIOUS
  <2>1. Larger(v, q[i]) \in Nat /\ Larger(v, q[i]) >= v /\ Larger(v, q[i]) >= q[i]
    BY <1>2 DEF AbsOf
  <2>2. F[i][v] = Larger(v, q[i])
    OBVIOUS
  <2>. HIDE DEF F, Larger
  <2> QED BY <2>1, <2>2
<1>4. \A s \in SUBSET (1..m) : s # {} => Max(s) \in 1..m /\ s \ {Max(s)} \in SUBSET (1..m)
  BY <1>2, MaxIs
<1>. HIDE DEF m, F, Larger
<1>5. PICK h : IsFold(m, Nat, 0, F, h)
  <2>1. 0 \in Nat /\ m \in Nat /\ \A i \in 1..m, v \in Nat : F[i][v] \in Nat
    BY <1>2, <1>3
  <2> QED BY <2>1, FoldExists
<1>6. It(h)
  <2>1. \A s \in SUBSET (1..m) : h[s] = IF s = {} THEN 0 ELSE Larger(h[s \ {Max(s)}], q[Max(s)])
    BY <1>3, <1>4, <1>5 DEF IsFold
  <2>2. DOMAIN h = SUBSET (1..m) /\ h = [s \in DOMAIN h |-> h[s]]
    BY <1>5 DEF IsFold
  <2> QED BY <1>2, <2>1, <2>2
<1>7. It(it)
  <2>. HIDE DEF It
  <2> QED BY <1>6
<1>. HIDE DEF it
<1>. DEFINE a == [i \in 0..m |-> it[1..i]]
<1>8. \A s \in SUBSET (1..m) : it[s] = IF s = {} THEN 0 ELSE Larger(it[s \ {Max(s)}], q[Max(s)])
  BY <1>2, <1>7
<1>9. a[0] = 0 /\ \A i \in 1..m : a[i] = Larger(a[i - 1], q[i])
  <2>1. a[0] = 0
    BY <1>2, <1>8, FirstIndices
  <2>2. ASSUME NEW i \in 1..m PROVE a[i] = Larger(a[i - 1], q[i])
    <3>2. 1..i \in SUBSET (1..m) /\ 1..i # {} /\ Max(1..i) = i /\ (1..i) \ {Max(1..i)} = 1..(i - 1)
      BY <1>2, FirstIndices
    <3>3. it[1..i] = Larger(it[(1..i) \ {Max(1..i)}], q[Max(1..i)])
      BY <1>8, <3>2
    <3>1. it[1..i] = Larger(it[1..(i - 1)], q[i])
      BY <3>2, <3>3
    <3> QED BY <1>2, <3>1, FirstIndices
  <2> QED BY <2>1, <2>2
<1>10. \A i \in Nat : i \in {j \in Nat : j <= m => a[j] \in Nat /\ \A k \in 1..j : q[k] <= a[j]}
  <2>. DEFINE S == {j \in Nat : j <= m => a[j] \in Nat /\ \A k \in 1..j : q[k] <= a[j]}
  <2>1. 0 \in S
    BY <1>9
  <2>2. ASSUME NEW j \in Nat, j \in S PROVE j + 1 \in S
    <3>. HIDE DEF a
    <3>. SUFFICES ASSUME j + 1 <= m PROVE a[j + 1] \in Nat /\ \A k \in 1..(j + 1) : q[k] <= a[j + 1]
      BY <2>2
    <3>1. a[j] \in Nat /\ j + 1 \in 1..m /\ \A k \in 1..j : q[k] <= a[j] /\ q[k] \in Nat
      BY <1>2, <2>2
    <3>2. a[j + 1] = Larger(a[j], q[j + 1])
      BY <1>9, <3>1
    <3>3. a[j + 1] \in Nat /\ a[j + 1] >= a[j] /\ a[j + 1] >= q[j + 1] /\ q[j + 1] \in Nat
      BY <1>2, <1>3, <3>1, <3>2
    <3>4. ASSUME NEW k \in 1..(j + 1) PROVE q[k] <= a[j + 1]
      <4>1. k = j + 1 \/ k \in 1..j
        OBVIOUS
      <4> QED BY <3>1, <3>3, <4>1
    <3> QED BY <3>3, <3>4
  <2>. HIDE DEF S
  <2>3. \A i \in Nat : i \in S
    BY <2>1, <2>2, SetInduction
  <2> QED BY <2>3 DEF S
<1>11. a[m] = Largest(q)
  BY <1>1, <1>2, FirstIndices
<1>. HIDE DEF a
<1>12. a[m] \in Nat /\ \A k \in 1..m : q[k] <= a[m]
  BY <1>2, <1>10
<1> QED
  BY <1>11, <1>12 DEF m

-----------------------------------------------------------------------------
(* _fragment_bounds. *)

Bounds == Seq(Nat \X Nat)
Cutting == [bounds: Bounds, start: Nat, acc: Nat]

\* FragmentBounds's step for the parameter i.
Taken(numels, fragments, a, i) ==
  LET acc == a.acc + numels[i]
      made == Len(a.bounds)
  IN  IF made < fragments - 1 /\ MustCut(acc, Total(numels), fragments, made, Len(numels) - i)
      THEN [Cut(a, i) EXCEPT !.acc = acc] ELSE [a EXCEPT !.acc = acc]

Begun == [bounds |-> <<>>, start |-> 0, acc |-> 0]

LEMMA TakenIs ==
  ASSUME NEW q \in Seq(Nat), NEW fragments, NEW a \in Cutting, NEW i \in 1..Len(q)
  PROVE  /\ Taken(q, fragments, a, i) \in Cutting
         /\ Taken(q, fragments, a, i).acc = a.acc + q[i]
         /\ IF Len(a.bounds) < fragments - 1
               /\ MustCut(a.acc + q[i], Total(q), fragments, Len(a.bounds), Len(q) - i)
            THEN /\ Taken(q, fragments, a, i).bounds = Append(a.bounds, <<a.start, i>>)
                 /\ Taken(q, fragments, a, i).start = i
            ELSE /\ Taken(q, fragments, a, i).bounds = a.bounds
                 /\ Taken(q, fragments, a, i).start = a.start
<1>. DEFINE acc == a.acc + q[i]
            cuts == Len(a.bounds) < fragments - 1 /\ MustCut(acc, Total(q), fragments, Len(a.bounds), Len(q) - i)
<1>1. a.bounds \in Bounds /\ a.start \in Nat /\ a.acc \in Nat /\ i \in Nat /\ acc \in Nat
  BY DEF Cutting
<1>2. Append(a.bounds, <<a.start, i>>) \in Bounds
  <2>1. <<a.start, i>> \in Nat \X Nat
    BY <1>1
  <2> QED BY <1>1, <2>1, AppendProperties DEF Bounds
<1>3. Taken(q, fragments, a, i) =
        IF cuts THEN [bounds |-> Append(a.bounds, <<a.start, i>>), start |-> i, acc |-> acc]
                ELSE [bounds |-> a.bounds, start |-> a.start, acc |-> acc]
  <2>1. a = [bounds |-> a.bounds, start |-> a.start, acc |-> a.acc]
    BY DEF Cutting
  <2>2. [a EXCEPT !.acc = acc] = [bounds |-> a.bounds, start |-> a.start, acc |-> acc]
    <3>. HIDE DEF acc
    <3> QED BY <2>1
  <2>3. [Cut(a, i) EXCEPT !.acc = acc] = [bounds |-> Append(a.bounds, <<a.start, i>>), start |-> i, acc |-> acc]
    <3>. DEFINE c == Append(a.bounds, <<a.start, i>>)
                d == a.acc
    <3>1. Cut(a, i) = [bounds |-> c, start |-> i, acc |-> d]
      BY DEF Cut
    <3>. HIDE DEF acc, c, d
    <3>2. [[bounds |-> c, start |-> i, acc |-> d] EXCEPT !.acc = acc] = [bounds |-> c, start |-> i, acc |-> acc]
      OBVIOUS
    <3> QED BY <3>1, <3>2 DEF c
  <2>4. Taken(q, fragments, a, i) = IF cuts THEN [Cut(a, i) EXCEPT !.acc = acc] ELSE [a EXCEPT !.acc = acc]
    BY DEF Taken
  <2>. HIDE DEF cuts, acc
  <2> QED BY <2>2, <2>3, <2>4
<1>. HIDE DEF acc, cuts
<1>4. CASE cuts
  BY <1>1, <1>2, <1>3, <1>4 DEF acc, cuts, Cutting
<1>5. CASE ~cuts
  BY <1>1, <1>2, <1>3, <1>5 DEF acc, cuts, Cutting
<1> QED
  BY <1>4, <1>5

LEMMA FragmentSteps ==
  ASSUME NEW q \in Seq(Nat), NEW fragments
  PROVE  \E a \in [0..Len(q) -> Cutting] :
           /\ a[0] = Begun
           /\ \A i \in 1..Len(q) : a[i] = Taken(q, fragments, a[i - 1], i)
           /\ FragmentBounds(q, fragments) = Append(a[Len(q)].bounds, <<a[Len(q)].start, Len(q)>>)
<1>. DEFINE m == Len(q)
            idx == [i \in DOMAIN q |-> i]
            It(it) == it = [s \in SUBSET DOMAIN idx |->
              IF s = {} THEN Begun ELSE Taken(q, fragments, it[s \ {Max(s)}], idx[Max(s)])]
            it == CHOOSE it : It(it)
            F == [i \in 1..m |-> [v \in Cutting |-> Taken(q, fragments, v, i)]]
<1>1. FragmentBounds(q, fragments) = Append(it[DOMAIN idx].bounds, <<it[DOMAIN idx].start, m>>)
  BY DEF FragmentBounds, FoldLeftDomain, FoldLeft, MapThenFoldSet, Taken, Begun
<1>2. m \in Nat /\ DOMAIN idx = 1..m /\ \A i \in 1..m : idx[i] = i
  OBVIOUS
<1>3. \A i \in 1..m, v \in Cutting : F[i][v] = Taken(q, fragments, v, i) /\ F[i][v] \in Cutting
  BY <1>2, TakenIs
<1>4. \A s \in SUBSET (1..m) : s # {} => Max(s) \in 1..m /\ s \ {Max(s)} \in SUBSET (1..m)
  BY <1>2, MaxIs
<1>. HIDE DEF m, F, idx
<1>5. PICK h : IsFold(m, Cutting, Begun, F, h)
  <2>1. Begun \in Cutting
    BY DEF Begun, Cutting, Bounds
  <2>2. m \in Nat /\ \A i \in 1..m, v \in Cutting : F[i][v] \in Cutting
    BY <1>2, <1>3
  <2> QED BY <2>1, <2>2, FoldExists
<1>6. It(h)
  <2>1. \A s \in SUBSET (1..m) : h[s] = IF s = {} THEN Begun ELSE Taken(q, fragments, h[s \ {Max(s)}], idx[Max(s)])
    <3>1. h[{}] = Begun
      BY <1>5 DEF IsFold
    <3>2. ASSUME NEW s \in SUBSET (1..m), s # {}
          PROVE  h[s] = Taken(q, fragments, h[s \ {Max(s)}], idx[Max(s)])
      <4>1. Max(s) \in 1..m /\ s \ {Max(s)} \in SUBSET (1..m) /\ idx[Max(s)] = Max(s)
        BY <1>2, <1>4, <3>2
      <4>2. h[s \ {Max(s)}] \in Cutting /\ h[s] = F[Max(s)][h[s \ {Max(s)}]]
        BY <1>5, <3>2, <4>1 DEF IsFold
      <4> QED BY <1>3, <4>1, <4>2
    <3> QED BY <3>1, <3>2
  <2>2. DOMAIN h = SUBSET (1..m) /\ h = [s \in DOMAIN h |-> h[s]]
    BY <1>5 DEF IsFold
  <2> QED BY <1>2, <2>1, <2>2
<1>7. It(it)
  <2>. HIDE DEF It
  <2> QED BY <1>6
<1>. HIDE DEF it
<1>. DEFINE a == [i \in 0..m |-> it[1..i]]
<1>8. \A s \in SUBSET (1..m) : it[s] = IF s = {} THEN Begun ELSE Taken(q, fragments, it[s \ {Max(s)}], Max(s))
  BY <1>2, <1>4, <1>7
<1>9. a[0] = Begun /\ \A i \in 1..m : a[i] = Taken(q, fragments, a[i - 1], i)
  <2>1. a[0] = Begun
    BY <1>2, <1>8, FirstIndices
  <2>2. ASSUME NEW i \in 1..m PROVE a[i] = Taken(q, fragments, a[i - 1], i)
    <3>2. 1..i \in SUBSET (1..m) /\ 1..i # {} /\ Max(1..i) = i /\ (1..i) \ {Max(1..i)} = 1..(i - 1)
      BY <1>2, FirstIndices
    <3>3. it[1..i] = Taken(q, fragments, it[(1..i) \ {Max(1..i)}], Max(1..i))
      BY <1>8, <3>2
    <3>1. it[1..i] = Taken(q, fragments, it[1..(i - 1)], i)
      BY <3>2, <3>3
    <3> QED BY <1>2, <3>1, FirstIndices
  <2> QED BY <2>1, <2>2
<1>10. \A i \in Nat : i \in {j \in Nat : j <= m => a[j] \in Cutting}
  <2>. DEFINE S == {j \in Nat : j <= m => a[j] \in Cutting}
  <2>1. 0 \in S
    <3>1. Begun \in Cutting
      BY DEF Begun, Cutting, Bounds
    <3>. HIDE DEF a
    <3> QED BY <1>9, <3>1
  <2>2. ASSUME NEW j \in Nat, j \in S PROVE j + 1 \in S
    <3>. HIDE DEF a
    <3>. SUFFICES ASSUME j + 1 <= m PROVE a[j + 1] \in Cutting
      BY <2>2
    <3>1. j + 1 \in 1..m /\ j + 1 \in 1..Len(q) /\ a[j] \in Cutting
      BY <1>2, <2>2 DEF m
    <3>2. a[j + 1] = Taken(q, fragments, a[(j + 1) - 1], j + 1) /\ (j + 1) - 1 = j
      BY <1>9, <3>1
    <3>3. a[j + 1] = Taken(q, fragments, a[j], j + 1)
      BY <3>2
    <3>4. Taken(q, fragments, a[j], j + 1) \in Cutting
      BY <3>1, TakenIs
    <3> QED BY <3>3, <3>4
  <2>. HIDE DEF S
  <2>3. \A i \in Nat : i \in S
    BY <2>1, <2>2, SetInduction
  <2> QED BY <2>3 DEF S
<1>11. a \in [0..m -> Cutting]
  <2>1. \A i \in 0..m : a[i] \in Cutting
    <3>. HIDE DEF a
    <3> QED BY <1>2, <1>10
  <2> QED BY <2>1
<1>12. a[m] = it[DOMAIN idx]
  BY <1>2, FirstIndices
<1>. HIDE DEF a
<1> QED
  BY <1>1, <1>9, <1>11, <1>12 DEF m

\* b cuts 0 .. e-1, each range within 0 .. m.
Chained(b, e, m) ==
  /\ b \in Bounds
  /\ IF b = <<>> THEN e = 0 ELSE b[1][1] = 0 /\ b[Len(b)][2] = e
  /\ \A j \in 1..(Len(b) - 1) : b[j][2] = b[j + 1][1]
  /\ \A j \in 1..Len(b) : b[j][1] < b[j][2] /\ b[j][2] <= m

LEMMA ChainGrows ==
  ASSUME NEW m \in Nat, NEW b, NEW s \in Nat, NEW e \in 1..m, Chained(b, s, m), s < e
  PROVE  /\ Chained(Append(b, <<s, e>>), e, m) /\ Len(Append(b, <<s, e>>)) = Len(b) + 1
         /\ Append(b, <<s, e>>)[Len(b) + 1] = <<s, e>>
         /\ \A j \in 1..Len(b) : Append(b, <<s, e>>)[j] = b[j]
<1>. DEFINE r == <<s, e>>
            c == Append(b, r)
            k == Len(b)
<1>1. r \in Nat \X Nat /\ r[1] = s /\ r[2] = e
  BY SMT
<1>2. b \in Seq(Nat \X Nat) /\ k \in Nat
  BY DEF Chained, Bounds
<1>. HIDE DEF r
<1>3. c \in Seq(Nat \X Nat) /\ Len(c) = k + 1 /\ (\A j \in 1..k : c[j] = b[j]) /\ c[k + 1] = r
  BY <1>1, <1>2, AppendProperties
<1>. HIDE DEF c, k
<1>4. c # <<>>
  BY <1>2, <1>3
<1>5. c[1][1] = 0
  <2>1. CASE k = 0
    <3>1. b = <<>>
      BY <1>2, <2>1 DEF k
    <3> QED BY <1>1, <1>3, <2>1, <3>1 DEF Chained
  <2>2. CASE k # 0
    <3>1. b # <<>> /\ 1 \in 1..k
      BY <1>2, <2>2 DEF k
    <3> QED BY <1>3, <3>1 DEF Chained
  <2> QED BY <2>1, <2>2
<1>6. c[Len(c)][2] = e
  BY <1>1, <1>3
<1>7. ASSUME NEW j \in 1..(Len(c) - 1) PROVE c[j][2] = c[j + 1][1]
  <2>0. j \in 1..k
    BY <1>2, <1>3
  <2>1. CASE j = k
    <3>1. b # <<>>
      BY <1>2, <2>0 DEF k
    <3>2. b[k][2] = s
      BY <3>1 DEF Chained, k
    <3> QED BY <1>1, <1>3, <2>0, <2>1, <3>2
  <2>2. CASE j # k
    <3>1. j \in 1..(Len(b) - 1) /\ j + 1 \in 1..k
      BY <1>2, <2>0, <2>2 DEF k
    <3>2. b[j][2] = b[j + 1][1]
      BY <3>1 DEF Chained
    <3> QED BY <1>3, <2>0, <3>1, <3>2
  <2> QED BY <2>1, <2>2
<1>8. ASSUME NEW j \in 1..Len(c) PROVE c[j][1] < c[j][2] /\ c[j][2] <= m
  <2>1. CASE j = k + 1
    BY <1>1, <1>3, <2>1
  <2>2. CASE j # k + 1
    <3>1. j \in 1..k
      BY <1>2, <1>3, <2>2
    <3>2. b[j][1] < b[j][2] /\ b[j][2] <= m
      BY <3>1 DEF Chained, k
    <3> QED BY <1>3, <3>1, <3>2
  <2> QED BY <2>1, <2>2
<1>9. Chained(c, e, m)
  BY <1>3, <1>4, <1>5, <1>6, <1>7, <1>8 DEF Chained, Bounds
<1> QED
  BY <1>3, <1>9 DEF c, k, r

\* After i of the m parameters: as long as fragments are to come, there is a parameter
\* left for each.
CutInv(q, fragments, i, x) ==
  /\ x \in Cutting /\ Chained(x.bounds, x.start, Len(q))
  /\ x.start \in 0..i /\ x.start < Len(q)
  /\ Len(x.bounds) <= fragments - 1
  /\ Len(x.bounds) = fragments - 1 \/ fragments - Len(x.bounds) <= Len(q) - i

LEMMA CutBegins ==
  ASSUME NEW q \in Seq(Nat), NEW fragments \in 1..Len(q)
  PROVE  CutInv(q, fragments, 0, Begun)
<1>1. Begun \in Cutting /\ Begun.bounds = <<>> /\ Begun.start = 0
  BY DEF Begun, Cutting, Bounds
<1>2. <<>> \in Bounds /\ Len(<<>>) = 0
  BY DEF Bounds
<1>3. Chained(<<>>, 0, Len(q))
  BY <1>2 DEF Chained
<1> QED
  BY <1>1, <1>2, <1>3 DEF CutInv

LEMMA CutStep ==
  ASSUME NEW q \in Seq(Nat), NEW fragments \in 1..Len(q), NEW i \in 1..Len(q), NEW x, CutInv(q, fragments, i - 1, x)
  PROVE  CutInv(q, fragments, i, Taken(q, fragments, x, i))
<1>. DEFINE k == Len(x.bounds)
            y == Taken(q, fragments, x, i)
            m == Len(q)
            over == MustCut(x.acc + q[i], Total(q), fragments, k, m - i)
<1>1. /\ x \in Cutting /\ k \in Nat /\ k <= fragments - 1 /\ x.start \in 0..(i - 1) /\ x.start < m
      /\ k = fragments - 1 \/ fragments - k <= m - (i - 1)
      /\ Chained(x.bounds, x.start, m) /\ x.start \in Nat /\ m \in Nat
  <2>1. x \in Cutting /\ x.bounds \in Bounds
    BY DEF CutInv, Cutting
  <2>2. k \in Nat
    BY <2>1 DEF Bounds
  <2>3. /\ k <= fragments - 1 /\ x.start \in 0..(i - 1) /\ x.start < m
        /\ k = fragments - 1 \/ fragments - k <= m - (i - 1)
        /\ Chained(x.bounds, x.start, m)
    BY DEF CutInv
  <2>4. x.start \in Nat /\ m \in Nat
    BY <2>1 DEF Cutting
  <2>. HIDE DEF k, m
  <2> QED BY <2>1, <2>2, <2>3, <2>4
<1>0. i \in Nat /\ 1 <= i /\ i <= m /\ fragments \in Nat /\ m \in Nat
  OBVIOUS
<1>2. /\ y \in Cutting
      /\ IF k < fragments - 1 /\ over
         THEN y.bounds = Append(x.bounds, <<x.start, i>>) /\ y.start = i
         ELSE y.bounds = x.bounds /\ y.start = x.start
  BY <1>1, TakenIs
<1>3. m - i = fragments - k - 1 => over
  BY DEF MustCut
<1>. HIDE DEF y, over, k, m
<1>4. ASSUME k < fragments - 1 /\ over PROVE CutInv(q, fragments, i, y)
  <2>1. i < m /\ fragments - (k + 1) <= m - i /\ x.start < i /\ i \in 1..m
    <3>1. fragments - k <= m - (i - 1) /\ k + 1 < fragments
      BY <1>0, <1>1, <1>4
    <3> QED BY <1>0, <1>1, <3>1
  <2>2. Chained(y.bounds, i, m) /\ Len(y.bounds) = k + 1
    <3>1. /\ Chained(Append(x.bounds, <<x.start, i>>), i, m)
          /\ Len(Append(x.bounds, <<x.start, i>>)) = Len(x.bounds) + 1
      <4>1. m \in Nat /\ x.start \in Nat /\ i \in 1..m /\ Chained(x.bounds, x.start, m) /\ x.start < i
        BY <1>1, <2>1
      <4> QED BY <4>1, ChainGrows
    <3> QED BY <1>2, <1>4, <3>1 DEF k
  <2>3. y.start \in 0..i /\ y.start < m /\ y.start = i /\ k + 1 <= fragments - 1
    BY <1>0, <1>1, <1>2, <1>4, <2>1
  <2> QED BY <1>2, <2>1, <2>2, <2>3 DEF CutInv, m
<1>5. ASSUME ~(k < fragments - 1 /\ over) PROVE CutInv(q, fragments, i, y)
  <2>1. k = fragments - 1 \/ fragments - k <= m - i
    <3>1. k < fragments - 1 => m - i # fragments - k - 1
      BY <1>3, <1>5
    <3> QED BY <1>0, <1>1, <3>1
  <2>2. y.bounds = x.bounds /\ y.start = x.start
    BY <1>2, <1>5
  <2>3. y.start \in 0..i
    BY <1>0, <1>1, <2>2
  <2> QED BY <1>1, <1>2, <2>1, <2>2, <2>3 DEF CutInv, k, m
<1> QED
  BY <1>4, <1>5 DEF y

\* As many fragments as asked for, none empty, together all the parameters:
\* _fragment_bounds, whatever the sizes.
THEOREM FragmentsWhole ==
  ASSUME NEW q \in Seq(Nat), NEW fragments \in 1..Len(q)
  PROVE  /\ WholeFragments(q, fragments)
         /\ \A k \in 1..fragments : FragmentBounds(q, fragments)[k] \in (0..Len(q)) \X (0..Len(q))
<1>. DEFINE m == Len(q)
<1>1. PICK a \in [0..m -> Cutting] :
        /\ a[0] = Begun
        /\ \A i \in 1..m : a[i] = Taken(q, fragments, a[i - 1], i)
        /\ FragmentBounds(q, fragments) = Append(a[m].bounds, <<a[m].start, m>>)
  BY FragmentSteps
<1>2. m \in Nat \ {0} /\ fragments \in Nat \ {0}
  OBVIOUS
<1>3. \A i \in Nat : i \in {j \in Nat : j <= m => CutInv(q, fragments, j, a[j])}
  <2>. DEFINE S == {j \in Nat : j <= m => CutInv(q, fragments, j, a[j])}
  <2>1. 0 \in S
    BY <1>1, CutBegins
  <2>2. ASSUME NEW j \in Nat, j \in S PROVE j + 1 \in S
    <3>. SUFFICES ASSUME j + 1 <= m PROVE CutInv(q, fragments, j + 1, a[j + 1])
      OBVIOUS
    <3>1. j + 1 \in 1..m /\ (j + 1) - 1 = j /\ CutInv(q, fragments, j, a[j])
      BY <2>2
    <3>2. a[j + 1] = Taken(q, fragments, a[j], j + 1)
      BY <1>1, <3>1
    <3>3. CutInv(q, fragments, j + 1, Taken(q, fragments, a[j], j + 1))
      BY <3>1, CutStep
    <3> QED BY <3>2, <3>3
  <2>. HIDE DEF S
  <2>3. \A i \in Nat : i \in S
    BY <2>1, <2>2, SetInduction
  <2> QED BY <2>3 DEF S
<1>. DEFINE x == a[m]
            b == FragmentBounds(q, fragments)
<1>4. CutInv(q, fragments, m, x)
  BY <1>2, <1>3
<1>5. x.bounds \in Bounds /\ Len(x.bounds) \in Nat /\ x.start \in Nat
  BY <1>4 DEF CutInv, Cutting, Bounds
<1>6. Len(x.bounds) = fragments - 1 /\ Chained(x.bounds, x.start, m) /\ x.start < m
  BY <1>2, <1>4, <1>5 DEF CutInv
<1>7. b = Append(x.bounds, <<x.start, m>>)
  BY <1>1
<1>. HIDE DEF x, b, m
<1>8. Chained(b, m, m) /\ Len(b) = fragments
  <2>1. m \in 1..m /\ m \in Nat /\ x.start \in Nat /\ Chained(x.bounds, x.start, m) /\ x.start < m
    BY <1>2, <1>5, <1>6
  <2>2. Chained(Append(x.bounds, <<x.start, m>>), m, m) /\ Len(Append(x.bounds, <<x.start, m>>)) = Len(x.bounds) + 1
    BY <2>1, ChainGrows
  <2> QED BY <1>2, <1>6, <1>7, <2>2
<1>9. b \in Seq(Nat \X Nat) /\ b # <<>> /\ DOMAIN b = 1..fragments
  BY <1>2, <1>8 DEF Chained, Bounds
<1>10. WholeFragments(q, fragments)
  BY <1>8, <1>9 DEF WholeFragments, Covers, NoneEmpty, Chained, b, m
<1>11. ASSUME NEW k \in 1..fragments PROVE b[k] \in (0..m) \X (0..m)
  <2>1. b[k] \in Nat \X Nat /\ b[k][1] < b[k][2] /\ b[k][2] <= m
    BY <1>8, <1>9 DEF Chained
  <2>2. b[k] = <<b[k][1], b[k][2]>> /\ b[k][1] \in 0..m /\ b[k][2] \in 0..m
    BY <1>2, <2>1
  <2> QED BY <2>2
<1> QED
  BY <1>10, <1>11 DEF b, m

-----------------------------------------------------------------------------
(* How even the fragments are. *)

\* A fragment that begins behind its ideal boundary and whose size, without its last
\* parameter, stays before the next one.
LEMMA EvenBetween ==
  ASSUME NEW p \in Nat, NEW k \in Nat, NEW T \in Nat, NEW from \in Nat, NEW upto \in Nat, NEW n \in Nat, NEW L \in Nat,
         n <= L, from * p >= k * T, upto * p < (k + 1) * T
  PROVE  ((upto + n) - from) * p < T + p * L
<1>1. (k + 1) * T = k * T + T
  OBVIOUS
<1>2. ((upto + n) - from) * p = upto * p + n * p - from * p
  OBVIOUS
<1>3. n * p <= L * p /\ L * p = p * L
  OBVIOUS
<1>4. /\ k * T \in Nat /\ upto * p \in Nat /\ from * p \in Nat /\ n * p \in Nat /\ p * L \in Nat
      /\ upto * p < k * T + T
  BY <1>1
<1>. DEFINE kT == k * T
            up == upto * p
            fp == from * p
            np == n * p
            pL == p * L
<1>5. kT \in Nat /\ up \in Nat /\ fp \in Nat /\ np \in Nat /\ pL \in Nat /\ up < kT + T /\ fp >= kT /\ np <= pL
  BY <1>3, <1>4
<1>6. ((upto + n) - from) * p = up + np - fp
  BY <1>2
<1>. HIDE DEF kT, up, fp, np, pL
<1>7. up + np - fp < T + pL
  BY <1>5
<1> QED
  BY <1>6, <1>7 DEF pL

\* A fragment of one parameter.
LEMMA EvenAlone ==
  ASSUME NEW p \in Nat, NEW T \in Nat \ {0}, NEW from \in Nat, NEW n \in Nat, NEW L \in Nat, n <= L
  PROVE  ((from + n) - from) * p < T + p * L
<1>1. (from + n) - from = n
  OBVIOUS
<1>2. n * p <= L * p /\ L * p = p * L /\ p * L \in Nat /\ n * p \in Nat
  OBVIOUS
<1>. DEFINE np == n * p
            pL == p * L
<1>3. np \in Nat /\ pL \in Nat /\ np <= pL
  BY <1>2
<1>. HIDE DEF np, pL
<1>4. np < T + pL
  BY <1>3
<1> QED
  BY <1>1, <1>4 DEF np, pL

\* The last fragment, when it begins behind the last boundary.
LEMMA EvenLast ==
  ASSUME NEW p \in Nat \ {0}, NEW T \in Nat, NEW from \in Nat, NEW L \in Nat \ {0}, from * p >= (p - 1) * T
  PROVE  (T - from) * p < T + p * L
<1>1. (p - 1) * T = p * T - T /\ (T - from) * p = p * T - from * p
  OBVIOUS
<1>2. p * L \in Nat /\ p * L >= 1 /\ from * p \in Nat /\ p * T \in Nat
  OBVIOUS
<1>. DEFINE pT == p * T
            fp == from * p
            pL == p * L
<1>3. pT \in Nat /\ fp \in Nat /\ pL \in Nat /\ pL >= 1 /\ fp >= pT - T
  BY <1>1, <1>2
<1>. HIDE DEF pT, fp, pL
<1>4. pT - fp < T + pL
  BY <1>3
<1> QED
  BY <1>1, <1>4 DEF pT, fp, pL

Even(P, p, T, L, r) == (P[r[2]] - P[r[1]]) * p < T + p * L

\* The cut is at or behind its ideal boundary, or each parameter left is a fragment;
\* the parameters taken since do not reach the next boundary.
EvenInv(q, P, p, i, x) ==
  LET k == Len(x.bounds)
      T == Total(q)
  IN
  /\ x.acc = P[i]
  /\ \A j \in 1..k : Even(P, p, T, Largest(q), x.bounds[j])
  /\ P[x.start] * p >= k * T \/ p - k = Len(q) - x.start
  /\ x.start = i \/ k = p - 1 \/ P[i] * p < (k + 1) * T

\* What a cut behind parameter i makes is no larger than that.
LEMMA EvenCut ==
  ASSUME NEW q \in Seq(Nat), NEW P, Sums(q, P), NEW p \in 1..Len(q), NEW i \in 1..Len(q), Total(q) > 0,
         NEW x, CutInv(q, p, i - 1, x), EvenInv(q, P, p, i - 1, x), Len(x.bounds) < p - 1
  PROVE  Even(P, p, Total(q), Largest(q), <<x.start, i>>)
<1>. DEFINE k == Len(x.bounds)
            m == Len(q)
            T == Total(q)
            L == Largest(q)
            s == x.start
            n == q[i]
            h == i - 1
<1>1. /\ k \in Nat /\ s \in 0..h /\ m \in Nat /\ i \in Nat /\ h \in 0..m /\ s \in 0..m /\ h \in Nat
      /\ p \in Nat /\ k < p - 1
      /\ k = p - 1 \/ p - k <= m - h
  <2>1. x.bounds \in Bounds
    BY DEF CutInv, Cutting
  <2>2. k \in Nat
    BY <2>1 DEF Bounds
  <2>3. s \in 0..h
    BY DEF CutInv
  <2>4. k = p - 1 \/ p - k <= m - h
    BY DEF CutInv
  <2>5. m \in Nat /\ i \in 1..m /\ p \in Nat
    OBVIOUS
  <2>6. k < p - 1
    OBVIOUS
  <2>. HIDE DEF k, s, m
  <2>7. h \in 0..m /\ h \in Nat
    BY <2>5
  <2>8. s \in 0..m
    BY <2>3, <2>5
  <2> QED BY <2>2, <2>3, <2>4, <2>5, <2>6, <2>7, <2>8
<1>2. n \in Nat /\ n <= L /\ L \in Nat
  BY LargestIs
<1>3. T \in Nat \ {0}
  <2>1. T \in Nat
    BY TotalIsNat
  <2>2. T > 0
    OBVIOUS
  <2>. HIDE DEF T
  <2> QED BY <2>1, <2>2
<1>4. P[i] = P[h] + n /\ P[h] \in Nat /\ P[s] \in Nat
  BY <1>1 DEF Sums
<1>5. /\ P[s] * p >= k * T \/ p - k = m - s
      /\ s = h \/ k = p - 1 \/ P[h] * p < (k + 1) * T
  BY DEF EvenInv
<1>6. Even(P, p, T, L, <<s, i>>) <=> ((P[h] + n) - P[s]) * p < T + p * L
  BY <1>4 DEF Even
<1>. HIDE DEF k, m, T, L, s, n, h
<1>7. ASSUME s = h PROVE Even(P, p, T, L, <<s, i>>)
  <2>1. ((P[h] + n) - P[h]) * p < T + p * L
    BY <1>1, <1>2, <1>3, <1>4, EvenAlone
  <2> QED BY <1>6, <1>7, <2>1
<1>8. ASSUME s # h PROVE Even(P, p, T, L, <<s, i>>)
  <2>1. P[h] * p < (k + 1) * T
    BY <1>1, <1>5, <1>8
  <2>2. P[s] * p >= k * T
    BY <1>1, <1>5, <1>8
  <2>3. ((P[h] + n) - P[s]) * p < T + p * L
    BY <1>1, <1>2, <1>3, <1>4, <2>1, <2>2, EvenBetween
  <2> QED BY <1>6, <2>3
<1> QED
  BY <1>7, <1>8 DEF T, L, s

LEMMA EvenStep ==
  ASSUME NEW q \in Seq(Nat), NEW P, Sums(q, P), NEW p \in 1..Len(q), NEW i \in 1..Len(q), Total(q) > 0,
         NEW x, CutInv(q, p, i - 1, x), EvenInv(q, P, p, i - 1, x)
  PROVE  EvenInv(q, P, p, i, Taken(q, p, x, i))
<1>. DEFINE k == Len(x.bounds)
            y == Taken(q, p, x, i)
            m == Len(q)
            T == Total(q)
            L == Largest(q)
            c == Append(x.bounds, <<x.start, i>>)
            over == MustCut(x.acc + q[i], T, p, k, m - i)
<1>1. /\ x \in Cutting /\ k \in Nat /\ x.start \in 0..(i - 1) /\ x.start \in Nat /\ Chained(x.bounds, x.start, m)
      /\ m \in Nat /\ i \in Nat /\ i <= m /\ p \in Nat /\ i \in 1..m /\ 1 <= i /\ k <= p - 1
  <2>1. x \in Cutting /\ x.bounds \in Bounds /\ x.start \in Nat /\ x.start \in 0..(i - 1) /\ Chained(x.bounds, x.start, m)
        /\ k <= p - 1
    BY DEF CutInv, Cutting
  <2>2. k \in Nat
    BY <2>1 DEF Bounds
  <2>3. m \in Nat /\ i \in 1..m /\ p \in Nat
    OBVIOUS
  <2>. HIDE DEF k, m
  <2> QED BY <2>1, <2>2, <2>3
<1>2. /\ y.acc = x.acc + q[i]
      /\ IF k < p - 1 /\ over
         THEN y.bounds = c /\ y.start = i
         ELSE y.bounds = x.bounds /\ y.start = x.start
  BY <1>1, TakenIs
<1>3. /\ x.acc = P[i - 1]
      /\ \A j \in 1..k : Even(P, p, T, L, x.bounds[j])
      /\ P[x.start] * p >= k * T \/ p - k = m - x.start
      /\ x.start = i - 1 \/ k = p - 1 \/ P[i - 1] * p < (k + 1) * T
  BY DEF EvenInv
<1>4. y.acc = P[i] /\ x.acc + q[i] = P[i]
  BY <1>2, <1>3 DEF Sums
<1>5. over <=> P[i] * p >= (k + 1) * T \/ m - i = p - k - 1
  BY <1>4 DEF MustCut
<1>6. T \in Nat /\ P[i] \in Nat
  <2>1. T \in Nat
    BY TotalIsNat
  <2>2. i \in 0..Len(q)
    OBVIOUS
  <2> QED BY <2>1, <2>2 DEF Sums
<1>7. k < p - 1 => Even(P, p, T, L, <<x.start, i>>)
  BY EvenCut
<1>. HIDE DEF y, over, k, m, T, L, c
<1>8. ASSUME k < p - 1, over PROVE EvenInv(q, P, p, i, y)
  <2>1. x.start < i
    BY <1>1
  <2>2. /\ Len(c) = k + 1 /\ c[k + 1] = <<x.start, i>>
        /\ \A j \in 1..k : c[j] = x.bounds[j]
    BY <1>1, <2>1, ChainGrows DEF c, k
  <2>3. y.bounds = c /\ y.start = i
    BY <1>2, <1>8
  <2>4. \A j \in 1..(k + 1) : Even(P, p, T, L, c[j])
    <3>. SUFFICES ASSUME NEW j \in 1..(k + 1) PROVE Even(P, p, T, L, c[j])
      OBVIOUS
    <3>1. j = k + 1 \/ j \in 1..k
      BY <1>1
    <3> QED BY <1>3, <1>7, <1>8, <2>2, <3>1
  <2>5. P[i] * p >= (k + 1) * T \/ p - (k + 1) = m - i
    <3>1. m - i = p - k - 1 => p - (k + 1) = m - i
      BY <1>1
    <3> QED BY <1>5, <1>8, <3>1
  <2> QED BY <1>4, <2>2, <2>3, <2>4, <2>5 DEF EvenInv, T, L, m
<1>9. ASSUME ~(k < p - 1 /\ over) PROVE EvenInv(q, P, p, i, y)
  <2>1. y.bounds = x.bounds /\ y.start = x.start
    BY <1>2, <1>9
  <2>2. k = p - 1 \/ P[i] * p < (k + 1) * T
    <3>1. CASE k < p - 1
      <4>1. ~(P[i] * p >= (k + 1) * T)
        BY <1>5, <1>9, <3>1
      <4>2. P[i] * p \in Int /\ (k + 1) * T \in Int
        BY <1>1, <1>6
      <4> QED BY <4>1, <4>2
    <3> QED BY <1>1, <3>1
  <2> QED BY <1>3, <1>4, <2>1, <2>2 DEF EvenInv, k, T, L, m
<1> QED
  BY <1>8, <1>9 DEF y

\* No fragment exceeds its ideal share by as much as the largest parameter:
\* _fragment_bounds, for all sizes.
THEOREM FragmentsEven ==
  ASSUME NEW q \in Seq(Nat \ {0}), NEW fragments \in 1..Len(q)
  PROVE  EvenFragments(q, fragments)
<1>. DEFINE m == Len(q)
            T == Total(q)
            L == Largest(q)
            b == FragmentBounds(q, fragments)
<1>3. /\ q \in Seq(Nat) /\ m \in Nat /\ m >= 1 /\ fragments \in Nat \ {0} /\ fragments <= m
      /\ \A i \in 1..m : q[i] \in Nat \ {0}
  OBVIOUS
<1>1. PICK P : Sums(q, P) /\ P[m] = T
  BY <1>3, SumsExist
<1>2. PICK a \in [0..m -> Cutting] :
        /\ a[0] = Begun
        /\ \A i \in 1..m : a[i] = Taken(q, fragments, a[i - 1], i)
        /\ b = Append(a[m].bounds, <<a[m].start, m>>)
  BY <1>3, FragmentSteps
<1>4. T \in Nat \ {0} /\ L \in Nat \ {0}
  <2>1. L \in Nat /\ q[1] <= L
    BY <1>3, LargestIs
  <2>2. SizeOf(q, <<1, m>>) = P[m] - P[1] /\ P[1] = q[1]
    <3>1. 1 \in 1..m /\ m \in 1..m /\ 1 \in 0..m /\ m \in 0..m /\ 1 <= m
      BY <1>3
    <3>2. SizeOf(q, <<1, m>>) = P[m] - P[1]
      BY <1>1, <1>3, <3>1, SizeIsSums
    <3>3. P[1] = P[1 - 1] + q[1] /\ P[0] = 0 /\ 1 - 1 = 0
      BY <1>1, <3>1 DEF Sums
    <3> QED BY <1>3, <3>1, <3>2, <3>3
  <2>3. SizeOf(q, <<1, m>>) \in Nat
    <3>1. SubSeq(q, 1 + 1, m) \in Seq(Nat)
      <4>1. \A i \in (1 + 1)..m : q[i] \in Nat
        BY <1>3
      <4> QED BY <1>3, <4>1, SubSeqProperties
    <3>2. SizeOf(q, <<1, m>>) = Total(SubSeq(q, 1 + 1, m))
      BY DEF SizeOf
    <3> QED BY <3>1, <3>2, TotalIsNat
  <2>4. P[m] \in Nat /\ P[1] \in Nat /\ q[1] \in Nat \ {0}
    <3>1. 1 \in 1..m /\ 1 \in 0..m /\ m \in 0..m
      BY <1>3
    <3> QED BY <1>1, <1>3, <3>1 DEF Sums
  <2>. HIDE DEF m, T, L
  <2> QED BY <1>1, <2>1, <2>2, <2>3, <2>4
<1>5. \A i \in Nat : i \in {j \in Nat : j <= m => CutInv(q, fragments, j, a[j]) /\ EvenInv(q, P, fragments, j, a[j])}
  <2>. DEFINE S == {j \in Nat : j <= m => CutInv(q, fragments, j, a[j]) /\ EvenInv(q, P, fragments, j, a[j])}
  <2>1. 0 \in S
    <3>1. CutInv(q, fragments, 0, a[0])
      BY <1>2, <1>3, CutBegins
    <3>2. a[0].bounds = <<>> /\ a[0].start = 0 /\ a[0].acc = 0 /\ Len(<<>>) = 0 /\ P[0] = 0
      BY <1>1, <1>2 DEF Begun, Sums
    <3>3. 0 * fragments >= 0 * T
      BY <1>3, <1>4
    <3>4. EvenInv(q, P, fragments, 0, a[0])
      BY <3>2, <3>3 DEF EvenInv
    <3> QED BY <3>1, <3>4
  <2>2. ASSUME NEW j \in Nat, j \in S PROVE j + 1 \in S
    <3>. SUFFICES ASSUME j + 1 <= m
                  PROVE  CutInv(q, fragments, j + 1, a[j + 1]) /\ EvenInv(q, P, fragments, j + 1, a[j + 1])
      OBVIOUS
    <3>1. j + 1 \in 1..m /\ (j + 1) - 1 = j /\ CutInv(q, fragments, j, a[j]) /\ EvenInv(q, P, fragments, j, a[j])
      BY <1>3, <2>2
    <3>2. a[j + 1] = Taken(q, fragments, a[j], j + 1)
      BY <1>2, <3>1
    <3>3. CutInv(q, fragments, j + 1, Taken(q, fragments, a[j], j + 1))
      BY <1>3, <3>1, CutStep
    <3>4. EvenInv(q, P, fragments, j + 1, Taken(q, fragments, a[j], j + 1))
      <4>1. Total(q) > 0
        BY <1>4
      <4> QED BY <1>1, <1>3, <3>1, <4>1, EvenStep
    <3> QED BY <3>2, <3>3, <3>4
  <2>. HIDE DEF S
  <2>3. \A i \in Nat : i \in S
    BY <2>1, <2>2, SetInduction
  <2> QED BY <2>3 DEF S
<1>. DEFINE x == a[m]
            k == Len(x.bounds)
<1>6. CutInv(q, fragments, m, x) /\ EvenInv(q, P, fragments, m, x)
  BY <1>3, <1>5
<1>7. x.bounds \in Bounds /\ k \in Nat /\ x.start \in 0..m /\ x.start < m /\ x.start \in Nat
  BY <1>6 DEF CutInv, Cutting, Bounds
<1>8. k = fragments - 1 /\ Chained(x.bounds, x.start, m)
  BY <1>3, <1>6, <1>7 DEF CutInv
<1>9. /\ \A j \in 1..k : Even(P, fragments, T, L, x.bounds[j])
      /\ P[x.start] * fragments >= k * T \/ fragments - k = m - x.start
  BY <1>6 DEF EvenInv
<1>. HIDE DEF x, b, m, T, L, k
<1>10. Even(P, fragments, T, L, <<x.start, m>>)
  <2>0. P[x.start] \in Nat /\ P[m] = T
    BY <1>1, <1>7 DEF Sums, m
  <2>1. CASE P[x.start] * fragments >= k * T
    <3>1. (T - P[x.start]) * fragments < T + fragments * L
      BY <1>3, <1>4, <1>8, <2>0, <2>1, EvenLast
    <3> QED BY <2>0, <3>1 DEF Even
  <2>2. CASE fragments - k = m - x.start
    <3>1. x.start = m - 1 /\ m \in 1..m
      <4>1. m \in Nat /\ m >= 1 /\ k = fragments - 1 /\ fragments \in Nat /\ x.start \in Nat
        BY <1>3, <1>7, <1>8
      <4> QED BY <2>2, <4>1
    <3>2. P[m] = P[x.start] + q[m] /\ q[m] \in Nat
      BY <1>1, <1>3, <3>1 DEF Sums, m
    <3>3. q[m] <= L
      BY <1>3, <3>1, LargestIs DEF m, L
    <3>4. ((P[x.start] + q[m]) - P[x.start]) * fragments < T + fragments * L
      BY <1>3, <1>4, <2>0, <3>2, <3>3, EvenAlone
    <3> QED BY <2>0, <3>2, <3>4 DEF Even
  <2> QED BY <1>9, <2>1, <2>2
<1>11. /\ b = Append(x.bounds, <<x.start, m>>) /\ Len(b) = k + 1 /\ b[k + 1] = <<x.start, m>>
       /\ (\A j \in 1..k : b[j] = x.bounds[j]) /\ Chained(b, m, m)
  <2>1. m \in 1..m /\ b = Append(x.bounds, <<x.start, m>>)
    BY <1>2, <1>3 DEF x, b, m
  <2>2. m \in Nat /\ x.start \in Nat /\ Chained(x.bounds, x.start, m) /\ x.start < m
    BY <1>3, <1>7, <1>8
  <2>. DEFINE c == Append(x.bounds, <<x.start, m>>)
  <2>3. Chained(c, m, m) /\ Len(c) = Len(x.bounds) + 1 /\ c[Len(x.bounds) + 1] = <<x.start, m>>
        /\ \A j \in 1..Len(x.bounds) : c[j] = x.bounds[j]
    <3>1. /\ m \in 1..m /\ m \in Nat /\ x.start \in Nat
          /\ Chained(x.bounds, x.start, m) /\ x.start < m
      BY <2>1, <2>2
    <3>2. /\ Chained(Append(x.bounds, <<x.start, m>>), m, m)
          /\ Len(Append(x.bounds, <<x.start, m>>)) = Len(x.bounds) + 1
      BY <3>1, ChainGrows
    <3>3. Append(x.bounds, <<x.start, m>>)[Len(x.bounds) + 1] = <<x.start, m>>
      BY <3>1, ChainGrows
    <3>4. \A j \in 1..Len(x.bounds) : Append(x.bounds, <<x.start, m>>)[j] = x.bounds[j]
      BY <3>1, ChainGrows
    <3> QED BY <3>2, <3>3, <3>4
  <2>. HIDE DEF c
  <2>4. b = c
    BY <2>1 DEF c
  <2> QED BY <2>1, <2>3, <2>4 DEF k
<1>12. ASSUME NEW j \in DOMAIN b PROVE SizeOf(q, b[j]) * fragments < T + fragments * L
  <2>1. b \in Seq(Nat \X Nat) /\ DOMAIN b = 1..(k + 1) /\ k + 1 = Len(b)
    BY <1>11 DEF Chained, Bounds
  <2>2. b[j] \in Nat \X Nat /\ b[j][1] < b[j][2] /\ b[j][2] <= m
    <3>1. j \in 1..Len(b)
      BY <2>1
    <3>2. b[j][1] < b[j][2] /\ b[j][2] <= m
      BY <3>1, <1>11 DEF Chained
    <3>3. b[j] \in Nat \X Nat
      BY <2>1, <3>1
    <3> QED BY <3>2, <3>3
  <2>3. b[j] = <<b[j][1], b[j][2]>> /\ b[j][1] \in 0..m /\ b[j][2] \in 0..m /\ b[j][1] <= b[j][2]
    BY <1>3, <2>2
  <2>4. SizeOf(q, <<b[j][1], b[j][2]>>) = P[b[j][2]] - P[b[j][1]]
    BY <1>1, <1>3, <2>3, SizeIsSums DEF m
  <2>5. Even(P, fragments, T, L, b[j])
    <3>1. j = k + 1 \/ j \in 1..k
      BY <1>7, <2>1
    <3> QED BY <1>9, <1>10, <1>11, <3>1
  <2> QED BY <2>3, <2>4, <2>5 DEF Even
<1> QED
  BY <1>12 DEF EvenFragments, b, T, L

-----------------------------------------------------------------------------
(* The checkpoint file. *)

Saves(t) == pc[t] \notin {"idle", "down"}

OneSaver == \A t, u \in Threads : Saves(t) /\ Saves(u) => t = u

AllDown == \A t, u \in Threads : pc[t] = "down" => pc[u] = "down"

\* The copy is the model: nobody commits during a save.
CopyTrue == \A t \in Threads : pc[t] \in {"copied", "writing", "written"} => copy[t] = revision

Writing == \A t \in Threads : pc[t] = "writing" => tmp # NoFile /\ open[t] = tmp

Written == \A t \in Threads : pc[t] = "written" => tmp # NoFile /\ content[tmp] = revision

PathTrue == path # NoFile => content[path] \in Nat /\ content[path] <= revision

SaveInv ==
  /\ OneSaver /\ AllDown /\ CopyTrue /\ Writing /\ Written /\ PathTrue
  /\ tmp # NoFile => tmp # path

Saving(t) == pc[t] \in {"claimed", "copied", "writing", "written"}

InFile == path # NoFile /\ content[path] = lastCkpt

OnItsWay == lastCkpt \in claims /\ \E t \in Threads : Saving(t)

ClaimInv ==
  /\ faults <= MaxFaults
  /\ \A t \in Threads : Saving(t) => lastCkpt = revision
  /\ faults = MaxFaults /\ lastCkpt > 0 => InFile \/ OnItsWay

IInv == TypeOK /\ SaveInv /\ ClaimInv

LEMMA FreshIsFree ==
  ASSUME TypeOK
  PROVE  FreshFile \in Files /\ FreshFile \notin {tmp, path}
<1>1. \E f \in Files : f \notin {tmp, path} /\ \A t \in Threads : open[t] # f
  BY FileSupply DEF TypeOK
<1> QED BY <1>1 DEF FreshFile

LEMMA InitInv == Init => IInv
  BY FileAssumption
  DEF Init, IInv, TypeOK, SaveInv, ClaimInv, Steps, OneSaver, AllDown, CopyTrue, Writing, Written, PathTrue, Saves

LEMMA TypeStep ==
  ASSUME IInv, [Next]_vars
  PROVE  TypeOK'
<1> USE FileAssumption DEF IInv, TypeOK, Steps, Goto
<1>1. CASE \E t \in Threads : Commit(t)
  BY <1>1 DEF Commit
<1>2. ASSUME NEW t \in Threads, MaybeCheckpoint(t) PROVE TypeOK'
  <2>1. lastCkpt' \in Nat /\ claims' \in SUBSET Nat
    <3>1. CASE Due
      <4>1. lastCkpt' = revision /\ claims' = claims \cup {revision} /\ revision \in Nat
        BY <1>2, <3>1 DEF MaybeCheckpoint
      <4> QED BY <4>1
    <3>2. CASE ~Due
      BY <1>2, <3>2 DEF MaybeCheckpoint
    <3> QED BY <3>1, <3>2
  <2>2. pc' \in [Threads -> Steps]
    BY <1>2 DEF MaybeCheckpoint
  <2> QED BY <1>2, <2>1, <2>2 DEF MaybeCheckpoint
<1>3. CASE \E t \in Threads : CopyState(t)
  BY <1>3 DEF CopyState
<1>4. CASE \E t \in Threads : OpenTmp(t)
  BY <1>4, FreshIsFree DEF OpenTmp, Target
<1>5. ASSUME NEW t \in Threads, FinishWrite(t) PROVE TypeOK'
  <2>1. content' \in [Files -> Nat \cup {Torn}]
    <3>1. PICK x \in Nat \cup {Torn} : content' = [content EXCEPT ![open[t]] = x]
      BY <1>5 DEF FinishWrite
    <3> QED BY <3>1
  <2>2. pc' \in [Threads -> Steps] /\ open' \in [Threads -> Files \cup {NoFile}]
    BY <1>5 DEF FinishWrite
  <2> QED BY <1>5, <2>1, <2>2 DEF FinishWrite
<1>6. ASSUME NEW t \in Threads, WriteFails(t) PROVE TypeOK'
  <2>1. claims' \in SUBSET Nat
    BY <1>6 DEF WriteFails
  <2>3. faults' \in Nat
    BY <1>6 DEF WriteFails
  <2>2. pc' \in [Threads -> Steps] /\ open' \in [Threads -> Files \cup {NoFile}]
    BY <1>6 DEF WriteFails
  <2> QED BY <1>6, <2>1, <2>2, <2>3 DEF WriteFails
<1>7. CASE \E t \in Threads : Rename(t)
  BY <1>7 DEF Rename
<1>8. CASE Crash
  BY <1>8 DEF Crash
<1>9. CASE Restart
  BY <1>9 DEF Restart, Restored, SaveInv, PathTrue
<1>10. CASE UNCHANGED vars
  BY <1>10 DEF vars
<1> QED BY <1>1, <1>2, <1>3, <1>4, <1>5, <1>6, <1>7, <1>8, <1>9, <1>10 DEF Next, ThreadStep

\* A busy thread is the only one: what is true of the others is true for
\* want of any other busy thread.
LEMMA Alone ==
  ASSUME IInv, NEW t \in Threads, Saves(t)
  PROVE  \A u \in Threads \ {t} : pc[u] = "idle"
  BY DEF IInv, SaveInv, OneSaver, AllDown, Saves

LEMMA SaveStep ==
  ASSUME Serialized, IInv, [Next]_vars
  PROVE  SaveInv'
<1> USE FileAssumption DEF IInv, SaveInv, OneSaver, AllDown, CopyTrue, Writing, Written, PathTrue, Goto
<1>t. TypeOK'
  BY TypeStep
<1>1. CASE \E t \in Threads : Commit(t)
  BY <1>1 DEF Commit, MayEnter, TypeOK, Saves
<1>2. CASE \E t \in Threads : MaybeCheckpoint(t)
  BY <1>2, Alone DEF MaybeCheckpoint, TypeOK, Saves
<1>3. CASE \E t \in Threads : CopyState(t)
  BY <1>3, Alone DEF CopyState, TypeOK, Saves
<1>4. CASE \E t \in Threads : OpenTmp(t)
  BY <1>4, Alone, FreshIsFree DEF OpenTmp, Target, TypeOK, Saves
<1>5. CASE \E t \in Threads : FinishWrite(t)
  BY <1>5, Alone DEF FinishWrite, SharedFile, TypeOK, Saves
<1>6. CASE \E t \in Threads : WriteFails(t)
  BY <1>6, Alone DEF WriteFails, TypeOK, Saves
<1>7. CASE \E t \in Threads : Rename(t)
  BY <1>7, Alone DEF Rename, MayRename, TypeOK, Saves
<1>8. CASE Crash
  BY <1>8 DEF Crash, TypeOK, Saves
<1>9. CASE Restart
  BY <1>9 DEF Restart, Restored, TypeOK, Saves
<1>10. CASE UNCHANGED vars
  BY <1>10 DEF vars, Saves
<1> QED BY <1>1, <1>2, <1>3, <1>4, <1>5, <1>6, <1>7, <1>8, <1>9, <1>10 DEF Next, ThreadStep

\* A claim is kept until its file is in place: nobody commits during a save,
\* and a failed one is a fault.
LEMMA ClaimStep ==
  ASSUME Serialized, IInv, [Next]_vars
  PROVE  ClaimInv'
<1> USE FileAssumption DEF IInv, TypeOK, ClaimInv, InFile, OnItsWay, Saving, Goto
<1>1. CASE \E t \in Threads : Commit(t)
  BY <1>1 DEF Commit, MayEnter
<1>2. ASSUME NEW t \in Threads, MaybeCheckpoint(t) PROVE ClaimInv'
  <2>1. CASE Due
    <3>1. lastCkpt' = revision' /\ lastCkpt' \in claims' /\ faults' = faults
      BY <1>2, <2>1 DEF MaybeCheckpoint
    <3>2. pc'[t] = "claimed"
      BY <1>2, <2>1 DEF MaybeCheckpoint
    <3> QED BY <3>1, <3>2
  <2>2. CASE ~Due
    <3>1. ~\E u \in Threads : Saving(u)
      BY <1>2, Alone DEF MaybeCheckpoint, Saves
    <3>2. UNCHANGED <<lastCkpt, path, content, faults>>
      BY <1>2, <2>2 DEF MaybeCheckpoint
    <3>3. pc' = [pc EXCEPT ![t] = "idle"]
      BY <1>2, <2>2 DEF MaybeCheckpoint
    <3>4. ~\E u \in Threads : Saving(u)'
      BY <3>1, <3>3
    <3> QED BY <3>1, <3>2, <3>4
  <2> QED BY <2>1, <2>2
<1>3. CASE \E t \in Threads : CopyState(t)
  BY <1>3 DEF CopyState
<1>4. CASE \E t \in Threads : OpenTmp(t)
  BY <1>4, FreshIsFree DEF OpenTmp, Target, SaveInv
<1>5. ASSUME NEW t \in Threads, FinishWrite(t) PROVE ClaimInv'
  <2>1. open[t] = tmp /\ tmp # path /\ Saving(t)
    BY <1>5 DEF FinishWrite, SaveInv, Writing
  <2>2. path # NoFile => content'[path] = content[path]
    <3>1. PICK x \in Nat \cup {Torn} : content' = [content EXCEPT ![open[t]] = x]
      BY <1>5 DEF FinishWrite
    <3> QED BY <2>1, <3>1
  <2>3. UNCHANGED <<revision, lastCkpt, path, claims, faults>>
    BY <1>5 DEF FinishWrite
  <2>4. \A u \in Threads : Saving(u) <=> Saving(u)'
    BY <1>5 DEF FinishWrite
  <2> QED BY <2>2, <2>3, <2>4
<1>6. CASE \E t \in Threads : WriteFails(t)
  BY <1>6 DEF WriteFails
<1>7. ASSUME NEW t \in Threads, Rename(t) PROVE ClaimInv'
  <2>1. path' = tmp /\ content' = content /\ tmp # NoFile /\ content[tmp] = revision
    BY <1>7 DEF Rename, MayRename, SaveInv, Written
  <2>2. UNCHANGED <<lastCkpt, revision, faults>>
    BY <1>7 DEF Rename
  <2>3. lastCkpt = revision
    BY <1>7 DEF Rename, MayRename
  <2>4. \A u \in Threads : pc'[u] = pc[u] \/ pc'[u] = "idle"
    BY <1>7 DEF Rename
  <2> QED BY <2>1, <2>2, <2>3, <2>4
<1>8. CASE Crash
  BY <1>8 DEF Crash
<1>9. CASE Restart
  BY <1>9 DEF Restart, Restored
<1>10. CASE UNCHANGED vars
  BY <1>10 DEF vars
<1> QED BY <1>1, <1>2, <1>3, <1>4, <1>5, <1>6, <1>7, <1>8, <1>9, <1>10 DEF Next, ThreadStep

LEMMA Inductive ==
  ASSUME Serialized
  PROVE  Spec => []IInv
<1>1. IInv /\ [Next]_vars => IInv'
  BY TypeStep, SaveStep, ClaimStep DEF IInv
<1> QED BY InitInv, <1>1, PTL DEF Spec

\* Handled one push at a time, a save that is cut short by a crash or a
\* failing write never leaves a torn file under the checkpoint's name, and
\* as long as nothing fails the file holds what was last claimed.
THEOREM CheckpointAtomic ==
  ASSUME Serialized
  PROVE  Spec => []CheckpointSound
<1>1. IInv => AlwaysLoadable
  BY FileAssumption DEF IInv, SaveInv, PathTrue, AlwaysLoadable, Loadable
<1>2. IInv => ClaimedIsSaved
  BY DEF IInv, ClaimInv, InFile, OnItsWay, ClaimedIsSaved
<1>3. IInv => CheckpointSound
  BY <1>1, <1>2 DEF IInv, CheckpointSound
<1> QED BY <1>3, Inductive, PTL

\* Handled one push at a time, a rename never takes the checkpoint back.
THEOREM CheckpointMonotone ==
  ASSUME Serialized
  PROVE  Spec => NeverOlder
<1>1. ASSUME IInv, [Next]_vars,
             path' # path, path # NoFile, content[path] # Torn
      PROVE  content'[path'] # Torn /\ content'[path'] >= content[path]
  <2>1. PICK t \in Threads : Rename(t)
    BY <1>1 DEF Next, vars, ThreadStep, Commit, MaybeCheckpoint, CopyState, OpenTmp,
                FinishWrite, WriteFails, Crash, Restart
  <2>2. path' = tmp /\ content' = content /\ pc[t] = "written"
    BY <1>1, <2>1 DEF Rename, MayRename
  <2>3. content[tmp] = revision /\ revision \in Nat /\ content[path] <= revision
    BY <1>1, <2>2 DEF IInv, SaveInv, Written, PathTrue, TypeOK
  <2> QED BY <1>1, <2>2, <2>3, FileAssumption DEF IInv, SaveInv, PathTrue
<1>2. IInv /\ [Next]_vars =>
        [path' # path /\ path # NoFile /\ content[path] # Torn =>
           content'[path'] # Torn /\ content'[path'] >= content[path]]_vars
  BY <1>1
<1> QED BY <1>2, Inductive, PTL DEF Spec, NeverOlder

-----------------------------------------------------------------------------
(* The streaming sessions. *)

LEMMA StreamConstants ==
  /\ Nobody \notin Requests /\ Len(Sizes) \in Nat /\ MaxParts \in Nat /\ Params = 1..Len(Sizes)
  /\ MaxSessions \in Nat \ {0}
<1>1. Sizes \in Seq(Nat) /\ MaxParts \in 1..Len(Sizes)
  BY StreamAssumption
<1>2. Len(Sizes) \in Nat /\ DOMAIN Sizes = 1..Len(Sizes)
  BY <1>1
<1> QED
  BY <1>1, <1>2, StreamAssumption DEF Params

LEMMA HeaderPart ==
  ASSUME NEW h \in Headers
  PROVE  h.part \in 0..MaxParts
<1>1. CASE h = Pull
  <2>1. h.part = 0 /\ 0 \in 0..MaxParts
    BY <1>1, StreamConstants DEF Pull
  <2> QED
    BY <2>1
<1>2. CASE h \in [full: {TRUE}, part: 0..MaxParts, fits: BOOLEAN, arrives: 0..Len(Sizes)]
  BY <1>2
<1> QED
  BY <1>1, <1>2 DEF Headers

\* The positions of a range, and their numbers within it.
LEMMA RangeNumbers ==
  ASSUME NEW n \in Nat, NEW a \in 0..n, NEW b \in 0..n
  PROVE  LET S == (a + 1)..b IN
         /\ S \subseteq 1..n /\ IsFiniteSet(S) /\ Cardinality(S) \in Nat
         /\ \A t \in S : t - Min(S) + 1 \in 1..Cardinality(S) /\ Min(S) + (t - Min(S) + 1) - 1 = t
         /\ \A i \in 1..Cardinality(S) : Min(S) \in Nat /\ Min(S) + i - 1 \in S
<1>. DEFINE S == (a + 1)..b
<1>1. IsFiniteSet(S) /\ Cardinality(S) = IF a + 1 > b THEN 0 ELSE b - a
  BY FS_Interval
<1>2. ASSUME a + 1 <= b PROVE Min(S) = a + 1
  <2>1. a + 1 \in S /\ \A y \in S : a + 1 <= y
    BY <1>2
  <2>. HIDE DEF S
  <2>2. Min(S) \in S /\ \A y \in S : Min(S) <= y
    BY <2>1 DEF Min
  <2>3. Min(S) <= a + 1 /\ a + 1 <= Min(S)
    BY <2>1, <2>2
  <2>4. Min(S) \in Int
    BY <2>2 DEF S
  <2> QED
    BY <2>3, <2>4
<1>3. CASE a + 1 <= b
  <2>1. Cardinality(S) = b - a /\ Min(S) = a + 1
    BY <1>1, <1>2, <1>3
  <2>2. \A t \in S : t - (a + 1) + 1 \in 1..(b - a) /\ (a + 1) + (t - (a + 1) + 1) - 1 = t
    OBVIOUS
  <2>3. \A i \in 1..(b - a) : a + 1 \in Nat /\ (a + 1) + i - 1 \in S
    OBVIOUS
  <2>4. S \subseteq 1..n /\ b - a \in Nat
    BY <1>3
  <2>. HIDE DEF S
  <2>5. /\ S \subseteq 1..n /\ IsFiniteSet(S) /\ Cardinality(S) \in Nat
        /\ \A t \in S : t - Min(S) + 1 \in 1..Cardinality(S) /\ Min(S) + (t - Min(S) + 1) - 1 = t
        /\ \A i \in 1..Cardinality(S) : Min(S) \in Nat /\ Min(S) + i - 1 \in S
    BY <1>1, <2>1, <2>2, <2>3, <2>4
  <2> QED
    BY <2>5 DEF S
<1>4. CASE ~(a + 1 <= b)
  <2>1. S = {} /\ Cardinality(S) = 0
    BY <1>1, <1>4
  <2> QED
    BY <1>1, <2>1
<1> QED
  BY <1>3, <1>4

\* What a push covers are tensors of the model, one after the other.
LEMMA FragsCut ==
  ASSUME parts \in 1..MaxParts, NEW r, header[r].part \in 0..MaxParts, header[r].part <= parts
  PROVE  /\ Frags(r) \subseteq Params /\ Cardinality(Frags(r)) \in Nat
         /\ \A t \in Frags(r) : t - Min(Frags(r)) + 1 \in 1..Cardinality(Frags(r))
                                /\ Min(Frags(r)) + (t - Min(Frags(r)) + 1) - 1 = t
         /\ \A i \in 1..Cardinality(Frags(r)) : Min(Frags(r)) \in Nat /\ Min(Frags(r)) + i - 1 \in Frags(r)
<1>1. \E a, b \in 0..Len(Sizes) : Frags(r) = (a + 1)..b
  <2>1. CASE header[r].part = 0
    <3>1. Frags(r) = (0 + 1)..Len(Sizes)
      BY <2>1, StreamConstants DEF Frags
    <3>2. 0 \in 0..Len(Sizes) /\ Len(Sizes) \in 0..Len(Sizes)
      BY StreamConstants
    <3> QED
      BY <3>1, <3>2
  <2>2. CASE header[r].part # 0
    <3>. DEFINE k == header[r].part
                c == FragmentBounds(Sizes, parts)[k]
    <3>1. k \in 1..parts
      BY <2>2, StreamConstants
    <3>2. Frags(r) = Members(c)
      <4>1. Fragments[parts] = [j \in 1..parts |-> Members(FragmentBounds(Sizes, parts)[j])]
        BY DEF Fragments
      <4> QED
        BY <2>2, <3>1, <4>1 DEF Frags
    <3>3. c \in (0..Len(Sizes)) \X (0..Len(Sizes))
      <4>1. Sizes \in Seq(Nat) /\ MaxParts \in 1..Len(Sizes) /\ Len(Sizes) \in Nat
        BY StreamAssumption
      <4>2. parts \in 1..Len(Sizes)
        BY <4>1
      <4> QED BY <3>1, <4>1, <4>2, FragmentsWhole
    <3>. HIDE DEF c
    <3>4. Frags(r) = (c[1] + 1)..c[2] /\ c[1] \in 0..Len(Sizes) /\ c[2] \in 0..Len(Sizes)
      BY <3>2, <3>3 DEF Members
    <3> QED
      BY <3>4
  <2> QED
    BY <2>1, <2>2
<1>2. PICK a \in 0..Len(Sizes), b \in 0..Len(Sizes) : Frags(r) = (a + 1)..b
  BY <1>1
<1> QED
  BY <1>2, StreamConstants, RangeNumbers, SMTT(30)

\* What each kind of step does to its own session, and to the others.
Ends(r) == Reject(r) \/ BreakOff(r) \/ HandlingFails(r) \/ Reply(r)

LEMMA EndsIsEnd ==
  ASSUME NEW r \in Requests, Ends(r)
  PROVE  \E from \in {"header", "reading", "handling", "replying"}, to \in {"answered", "failed"} : End(r, from, to)
BY DEF Ends, Reject, BreakOff, HandlingFails, Reply

LEMMA StreamTypes ==
  ASSUME StreamTypeOK, SlotsInv, BodyInv, NEW r \in Requests, Session(r)
  PROVE  StreamTypeOK' /\ SlotsInv'
<1>. USE StreamConstants
<1>0. /\ parts \in 1..MaxParts /\ streaming \in BOOLEAN
      /\ session \in [Requests -> Sessions] /\ header \in [Requests -> Headers]
      /\ got \in [Requests -> Seq(Requests)] /\ buffers \in [Params -> Requests \cup {Nobody}]
      /\ holder \in Requests \cup {Nobody} /\ slots \in 0..MaxSessions
      /\ \A s \in stepped : s.by \in Requests
      /\ IsFiniteSet(Served) /\ slots + Cardinality(Served) <= MaxSessions /\ Cardinality(Served) \in Nat
  BY FS_CardinalityType DEF StreamTypeOK, SlotsInv
<1>1. UNCHANGED still
  BY DEF Session, Open, Reject, Accept, TakeLock, ReadTensor, BreakOff, BodyRead, Handled, HandlingFails, Reply, End
<1>g. ASSUME session' \in [Requests -> Sessions], header' \in [Requests -> Headers],
             got' \in [Requests -> Seq(Requests)], buffers' \in [Params -> Requests \cup {Nobody}],
             holder' \in Requests \cup {Nobody}, slots' \in 0..MaxSessions,
             stepped' = stepped \/ \E g : stepped' = stepped \cup {[by |-> r, grads |-> g]},
             SlotsInv'
      PROVE  StreamTypeOK' /\ SlotsInv'
  <2>1. \A s \in stepped' : s.by \in Requests
    BY <1>0, <1>g
  <2> QED
    BY <1>0, <1>1, <1>g, <2>1 DEF StreamTypeOK, still
<1>m. ASSUME NEW from \in Sessions, NEW to \in Sessions, Move(r, from, to)
      PROVE  /\ session' \in [Requests -> Sessions]
             /\ from \in {"sent", "answered", "failed"} <=> r \notin Served
             /\ to \in {"sent", "answered", "failed"} => Served' = Served \ {r}
             /\ to \notin {"sent", "answered", "failed"} => Served' = Served \cup {r}
  BY <1>0, <1>m DEF Move, Served
<1>s. ASSUME NEW from \in Sessions \ {"sent", "answered", "failed"}, NEW to \in Sessions \ {"sent", "answered", "failed"},
             Move(r, from, to), UNCHANGED slots
      PROVE  session' \in [Requests -> Sessions] /\ SlotsInv'
  <2>1. Served' = Served
    BY <1>m, <1>s
  <2> QED
    BY <1>0, <1>m, <1>s, <2>1 DEF SlotsInv
<1>2. CASE Open(r)
  <2>1. Move(r, "sent", "header") /\ slots > 0 /\ slots' = slots - 1 /\ UNCHANGED <<got, buffers, holder, stepped>>
    BY <1>2 DEF Open
  <2>2. header' \in [Requests -> Headers]
    BY <1>0, <1>2 DEF Open
  <2>3. r \notin Served /\ Served' = Served \cup {r} /\ session' \in [Requests -> Sessions]
    BY <1>m, <2>1 DEF Sessions
  <2>4. IsFiniteSet(Served') /\ Cardinality(Served') = Cardinality(Served) + 1
    BY <1>0, <2>3, FS_AddElement
  <2>5. slots' \in 0..MaxSessions /\ slots' + Cardinality(Served') <= MaxSessions
    BY <1>0, <2>1, <2>4
  <2> QED
    BY <1>0, <1>g, <2>1, <2>2, <2>3, <2>4, <2>5 DEF SlotsInv
<1>3. CASE Ends(r)
  <2>1. PICK from \in {"header", "reading", "handling", "replying"}, to \in {"answered", "failed"} : End(r, from, to)
    BY <1>3, EndsIsEnd
  <2>2. /\ Move(r, from, to) /\ slots' = slots + 1 /\ holder' \in {holder, Nobody}
        /\ UNCHANGED <<header, got, buffers, stepped>>
    BY <2>1 DEF End, Freed, Leaves
  <2>3. r \in Served /\ Served' = Served \ {r} /\ session' \in [Requests -> Sessions]
    BY <1>m, <2>2 DEF Sessions
  <2>4. IsFiniteSet(Served') /\ Cardinality(Served') = Cardinality(Served) - 1 /\ Cardinality(Served') \in Nat
    BY <1>0, <2>3, FS_RemoveElement, FS_CardinalityType
  <2>5. slots' \in 0..MaxSessions /\ slots' + Cardinality(Served') <= MaxSessions
    BY <1>0, <2>2, <2>4
  <2> QED
    BY <1>0, <1>g, <2>2, <2>3, <2>4, <2>5 DEF SlotsInv
<1>4. CASE Accept(r)
  <2>1. PICK to \in {"handling", "waiting", "reading"} :
          Move(r, "header", to) /\ UNCHANGED <<header, got, buffers, holder, slots, stepped>>
    BY <1>4 DEF Accept
  <2>2. session' \in [Requests -> Sessions] /\ SlotsInv'
    BY <1>s, <2>1 DEF Sessions
  <2> QED
    BY <1>0, <1>g, <2>1, <2>2
<1>5. CASE TakeLock(r)
  <2>1. Move(r, "waiting", "reading") /\ holder' = r /\ UNCHANGED <<header, got, buffers, slots, stepped>>
    BY <1>5 DEF TakeLock
  <2>2. session' \in [Requests -> Sessions] /\ SlotsInv'
    BY <1>s, <2>1 DEF Sessions
  <2> QED
    BY <1>0, <1>g, <2>1, <2>2
<1>6. CASE ReadTensor(r)
  <2>1. /\ session[r] = "reading" /\ got' = [got EXCEPT ![r] = Append(@, r)]
        /\ buffers' = IF streaming THEN [buffers EXCEPT ![NextTensor(r)] = r] ELSE buffers
        /\ UNCHANGED <<session, header, holder, slots, stepped>>
    BY <1>6 DEF ReadTensor
  <2>2. got' \in [Requests -> Seq(Requests)]
    BY <1>0, <2>1
  <2>3. buffers' \in [Params -> Requests \cup {Nobody}]
    BY <1>0, <2>1
  <2>4. SlotsInv'
    BY <1>0, <2>1 DEF SlotsInv, Served
  <2> QED
    BY <1>0, <1>g, <2>1, <2>2, <2>3, <2>4
<1>7. CASE BodyRead(r)
  <2>1. Move(r, "reading", "handling") /\ UNCHANGED <<header, got, buffers, slots, stepped, holder>>
    BY <1>7 DEF BodyRead, HeldToApply
  <2>2. session' \in [Requests -> Sessions] /\ SlotsInv'
    BY <1>s, <2>1 DEF Sessions
  <2> QED
    BY <1>0, <1>g, <2>1, <2>2
<1>8. CASE Handled(r)
  <2>1. /\ Move(r, "handling", "replying") /\ UNCHANGED <<header, got, buffers, slots>>
        /\ holder' \in {holder, Nobody}
        /\ stepped' = stepped \/ stepped' = stepped \cup {[by |-> r, grads |-> PseudoGrads(r)]}
    BY <1>8 DEF Handled, Leaves
  <2>2. session' \in [Requests -> Sessions] /\ SlotsInv'
    BY <1>s, <2>1 DEF Sessions
  <2> QED
    BY <1>0, <1>g, <2>1, <2>2
<1> QED
  BY <1>2, <1>3, <1>4, <1>5, <1>6, <1>7, <1>8 DEF Session, Ends

\* The lock: a streamed push that is read or applied has it.
LEMMA StreamLock ==
  ASSUME StreamTypeOK, LockInv, NEW r \in Requests, Session(r)
  PROVE  LockInv'
<1>. USE StreamConstants
<1>0. /\ session \in [Requests -> Sessions] /\ header \in [Requests -> Headers]
      /\ \A q \in Requests : streaming /\ Pushing(q) => holder = q
      /\ \A q \in Requests : session[q] \in {"waiting", "reading"} => header[q].full
  BY DEF StreamTypeOK, LockInv
<1>1. UNCHANGED streaming
  BY DEF Session, Open, Reject, Accept, TakeLock, ReadTensor, BreakOff, BodyRead, Handled, HandlingFails, Reply, End, still
<1>g. ASSUME \A q \in Requests : (streaming /\ Pushing(q) => holder = q)' /\
                                  (session[q] \in {"waiting", "reading"} => header[q].full)'
      PROVE  LockInv'
  BY <1>g DEF LockInv
<1>m. ASSUME NEW from, NEW to, Move(r, from, to)
      PROVE  session[r] = from /\ session'[r] = to /\ \A q \in Requests : q # r => session'[q] = session[q]
  BY <1>0, <1>m DEF Move
<1>2. CASE Open(r)
  <2>1. Move(r, "sent", "header") /\ holder' = holder /\ \A q \in Requests : q # r => header'[q] = header[q]
    BY <1>0, <1>2 DEF Open
  <2> QED
    BY <1>0, <1>1, <1>g, <1>m, <2>1 DEF Pushing
<1>3. CASE Ends(r)
  <2>1. PICK from \in {"header", "reading", "handling", "replying"}, to \in {"answered", "failed"} : End(r, from, to)
    BY <1>3, EndsIsEnd
  <2>2. Move(r, from, to) /\ (holder # r => holder' = holder) /\ UNCHANGED header
    BY <2>1 DEF End, Leaves
  <2> QED
    BY <1>0, <1>1, <1>g, <1>m, <2>2 DEF Pushing
<1>4. CASE Accept(r)
  <2>1. /\ UNCHANGED <<header, holder>>
        /\ \/ ~header[r].full /\ Move(r, "header", "handling")
           \/ header[r].full /\ streaming /\ Move(r, "header", "waiting")
           \/ header[r].full /\ ~streaming /\ Move(r, "header", "reading")
    BY <1>4 DEF Accept
  <2> QED
    BY <1>0, <1>1, <1>g, <1>m, <2>1 DEF Pushing
<1>5. CASE TakeLock(r)
  <2>1. Move(r, "waiting", "reading") /\ holder = Nobody /\ holder' = r /\ UNCHANGED header
    BY <1>5 DEF TakeLock
  <2> QED
    BY <1>0, <1>1, <1>g, <1>m, <2>1 DEF Pushing
<1>6. CASE ReadTensor(r)
  <2>1. UNCHANGED <<session, header, holder>>
    BY <1>6 DEF ReadTensor
  <2> QED
    BY <1>0, <1>1, <1>g, <2>1 DEF Pushing
<1>7. CASE BodyRead(r)
  <2>1. Move(r, "reading", "handling") /\ UNCHANGED <<header, holder>>
    BY <1>7 DEF BodyRead, HeldToApply
  <2> QED
    BY <1>0, <1>1, <1>g, <1>m, <2>1 DEF Pushing
<1>8. CASE Handled(r)
  <2>1. Move(r, "handling", "replying") /\ (holder # r => holder' = holder) /\ UNCHANGED header
    BY <1>8 DEF Handled, Leaves
  <2> QED
    BY <1>0, <1>1, <1>g, <1>m, <2>1 DEF Pushing
<1> QED
  BY <1>2, <1>3, <1>4, <1>5, <1>6, <1>7, <1>8 DEF Session, Ends

\* The bodies: whoever reads is alone in the buffers.
LEMMA StreamBodies ==
  ASSUME StreamTypeOK, LockInv, BodyInv, NEW r \in Requests, Session(r)
  PROVE  BodyInv'
<1>. USE StreamConstants
<1>. DEFINE Buffered(q) == \A i \in DOMAIN got[q] : buffers[Min(Frags(q)) + i - 1] = q
            Body(q) == /\ header[q].part <= parts
                       /\ session[q] \in {"sent", "header", "waiting"} => got[q] = <<>>
                       /\ \A i \in DOMAIN got[q] : got[q][i] = q
                       /\ Pushing(q) =>
                            /\ Len(got[q]) <= Cardinality(Frags(q))
                            /\ streaming => Buffered(q)
                            /\ session[q] = "handling" => ReadWhole(q)
<1>0. /\ parts \in 1..MaxParts
      /\ session \in [Requests -> Sessions] /\ header \in [Requests -> Headers]
      /\ got \in [Requests -> Seq(Requests)] /\ buffers \in [Params -> Requests \cup {Nobody}]
      /\ \A q \in Requests : streaming /\ Pushing(q) => holder = q
      /\ \A q \in Requests : session[q] \in {"waiting", "reading"} => header[q].full
      /\ \A q \in Requests : Body(q)
  BY DEF StreamTypeOK, LockInv, BodyInv
<1>h. \A q \in Requests : header[q].part \in 0..MaxParts
  BY <1>0, HeaderPart
<1>f. \A q \in Requests :
        /\ Frags(q) \subseteq Params /\ Cardinality(Frags(q)) \in Nat
        /\ \A i \in 1..Cardinality(Frags(q)) : Min(Frags(q)) \in Nat /\ Min(Frags(q)) + i - 1 \in Frags(q)
  BY <1>0, <1>h, FragsCut
<1>1. UNCHANGED <<parts, streaming>>
  BY DEF Session, Open, Reject, Accept, TakeLock, ReadTensor, BreakOff, BodyRead, Handled, HandlingFails, Reply, End, still
<1>g. ASSUME \A q \in Requests : Body(q)' PROVE BodyInv'
  BY <1>g DEF BodyInv
<1>k. ASSUME NEW q \in Requests, header'[q] = header[q]
      PROVE  Frags(q)' = Frags(q) /\ (got'[q] = got[q] => (ReadWhole(q) => ReadWhole(q)'))
  <2>1. Frags(q)' = Frags(q)
    BY <1>1, <1>k DEF Frags
  <2> QED
    BY <2>1 DEF ReadWhole
<1>q. ASSUME NEW q \in Requests, header'[q] = header[q], session'[q] = session[q], got'[q] = got[q], buffers' = buffers
      PROVE  Body(q)'
  <2>1. Buffered(q) => Buffered(q)'
    BY <1>k, <1>q
  <2>2. Pushing(q)' => Pushing(q)
    BY <1>q DEF Pushing
  <2>. HIDE DEF Buffered
  <2>3. Len(got'[q]) = Len(got[q]) /\ Cardinality(Frags(q)') = Cardinality(Frags(q))
    BY <1>k, <1>q
  <2> QED
    BY <1>0, <1>1, <1>k, <1>q, <2>1, <2>2, <2>3
<1>m. ASSUME NEW from, NEW to, Move(r, from, to)
      PROVE  session[r] = from /\ session'[r] = to /\ \A q \in Requests : q # r => session'[q] = session[q]
  BY <1>0, <1>m DEF Move
<1>2. CASE Open(r)
  <2>1. /\ Move(r, "sent", "header") /\ UNCHANGED <<got, buffers>>
        /\ \A q \in Requests : q # r => header'[q] = header[q]
        /\ header'[r].part <= parts
    BY <1>0, <1>2 DEF Open
  <2>2. Body(r)'
    <3>1. got'[r] = <<>> /\ session'[r] = "header"
      BY <1>0, <1>m, <2>1
    <3> QED
      BY <1>1, <2>1, <3>1 DEF Pushing
  <2>3. \A q \in Requests : q # r => Body(q)'
    <3>. HIDE DEF Body
    <3> QED
      BY <1>m, <1>q, <2>1
  <2>. HIDE DEF Body
  <2> QED
    BY <1>g, <2>2, <2>3
\* A session that moves on, and reads nothing.
<1>3. ASSUME NEW from \in Sessions, NEW to \in Sessions \ {"sent", "header"}, Move(r, from, to),
             UNCHANGED <<header, got, buffers>>,
             to = "waiting" => from = "header",
             to = "reading" => from \in {"header", "waiting"},
             to = "handling" => (from = "header" /\ ~header[r].full) \/ (from = "reading" /\ ReadWhole(r))
      PROVE  BodyInv'
  <2>1. session[r] = from /\ session'[r] = to
    BY <1>m, <1>3
  <2>2. header'[r].part <= parts' /\ \A i \in DOMAIN got'[r] : got'[r][i] = r
    BY <1>0, <1>1, <1>3
  <2>3. to = "waiting" => got'[r] = <<>>
    BY <1>0, <1>3, <2>1
  <2>. DEFINE Rest(q) == /\ Len(got[q]) <= Cardinality(Frags(q))
                         /\ streaming => Buffered(q)
                         /\ session[q] = "handling" => ReadWhole(q)
  <2>4. ASSUME Pushing(r)' PROVE Rest(r)'
    <3>1. Frags(r)' = Frags(r) /\ (ReadWhole(r) => ReadWhole(r)')
      BY <1>3, <1>k
    <3>2. CASE from = "reading"
      <4>1. Pushing(r) /\ to = "handling"
        BY <1>0, <1>3, <2>1, <2>4, <3>2 DEF Pushing
      <4>2. Buffered(r) => Buffered(r)'
        BY <1>3, <3>1
      <4>. HIDE DEF Buffered
      <4> QED
        BY <1>0, <1>1, <1>3, <2>1, <3>1, <3>2, <4>1, <4>2
    <3>3. CASE from # "reading"
      <4>1. to = "reading" /\ from \in {"header", "waiting"}
        BY <1>3, <2>1, <2>4, <3>3 DEF Pushing
      <4>2. got'[r] = <<>> /\ session'[r] = "reading"
        BY <1>0, <1>3, <2>1, <4>1
      <4>3. Len(got'[r]) = 0 /\ DOMAIN got'[r] = {}
        BY <4>2
      <4>4. Len(got'[r]) <= Cardinality(Frags(r)')
        BY <1>f, <3>1, <4>3
      <4> QED
        BY <4>2, <4>3, <4>4
    <3> QED
      BY <3>2, <3>3
  <2>5. Body(r)'
    <3>1. session'[r] \in {"sent", "header", "waiting"} => got'[r] = <<>>
      BY <1>3, <2>1, <2>3
    <3>3. Body(r)' <=> /\ header'[r].part <= parts'
                       /\ session'[r] \in {"sent", "header", "waiting"} => got'[r] = <<>>
                       /\ \A i \in DOMAIN got'[r] : got'[r][i] = r
                       /\ Pushing(r)' => Rest(r)'
      OBVIOUS
    <3>. HIDE DEF Body, Rest, Buffered
    <3> QED
      BY <2>2, <2>4, <3>1, <3>3
  <2>. HIDE DEF Body
  <2>6. \A q \in Requests : q # r => Body(q)'
    BY <1>3, <1>m, <1>q
  <2> QED
    BY <1>g, <2>5, <2>6
<1>4. CASE Ends(r)
  <2>1. PICK from \in {"header", "reading", "handling", "replying"}, to \in {"answered", "failed"} : End(r, from, to)
    BY <1>4, EndsIsEnd
  <2>2. Move(r, from, to) /\ UNCHANGED <<header, got, buffers>>
    BY <2>1 DEF End
  <2> QED
    BY <1>3, <2>2 DEF Sessions
<1>5. CASE Accept(r)
  <2>1. /\ UNCHANGED <<header, got, buffers>>
        /\ \/ ~header[r].full /\ Move(r, "header", "handling")
           \/ Move(r, "header", "waiting")
           \/ Move(r, "header", "reading")
    BY <1>5 DEF Accept
  <2> QED
    BY <1>3, <2>1 DEF Sessions
<1>6. CASE TakeLock(r)
  <2>1. Move(r, "waiting", "reading") /\ UNCHANGED <<header, got, buffers>>
    BY <1>6 DEF TakeLock
  <2> QED
    BY <1>3, <2>1 DEF Sessions
<1>7. CASE BodyRead(r)
  <2>1. Move(r, "reading", "handling") /\ ReadWhole(r) /\ UNCHANGED <<header, got, buffers>>
    BY <1>7 DEF BodyRead
  <2> QED
    BY <1>3, <2>1 DEF Sessions
<1>8. CASE Handled(r)
  <2>1. Move(r, "handling", "replying") /\ UNCHANGED <<header, got, buffers>>
    BY <1>8 DEF Handled
  <2> QED
    BY <1>3, <2>1 DEF Sessions
<1>9. CASE ReadTensor(r)
  <2>. DEFINE n == Len(got[r])
              lo == Min(Frags(r))
  <2>1. /\ session[r] = "reading" /\ ~ReadWhole(r) /\ got' = [got EXCEPT ![r] = Append(@, r)]
        /\ buffers' = IF streaming THEN [buffers EXCEPT ![NextTensor(r)] = r] ELSE buffers
        /\ UNCHANGED <<session, header>>
    BY <1>9 DEF ReadTensor
  <2>2. Pushing(r) /\ n \in Nat /\ DOMAIN got[r] = 1..n
    BY <1>0, <2>1 DEF Pushing
  <2>3. n + 1 \in 1..Cardinality(Frags(r)) /\ NextTensor(r) = lo + n
    BY <1>0, <1>f, <2>1, <2>2 DEF ReadWhole, NextTensor
  <2>4. lo \in Nat /\ lo + (n + 1) - 1 \in Frags(r)
    BY <1>f, <2>3
  <2>5. lo + n \in Params
    BY <1>f, <2>2, <2>4
  <2>6. got'[r] = Append(got[r], r) /\ got[r] \in Seq(Requests) /\ \A q \in Requests : q # r => got'[q] = got[q]
    BY <1>0, <2>1
  <2>7. /\ Len(got'[r]) = n + 1 /\ DOMAIN got'[r] = 1..(n + 1)
        /\ got'[r][n + 1] = r /\ \A i \in 1..n : got'[r][i] = got[r][i]
    BY <2>6
  <2>8. Frags(r)' = Frags(r)
    BY <1>k, <2>1
  <2>9. \A i \in 1..(n + 1) : i \in 1..n \/ i = n + 1
    BY <2>2
  <2>10. \A i \in DOMAIN got'[r] : got'[r][i] = r
    BY <1>0, <2>2, <2>7, <2>9
  <2>11. streaming => Buffered(r)'
    <3>. SUFFICES ASSUME streaming, NEW i \in 1..(n + 1) PROVE buffers'[lo + i - 1] = r
      BY <2>7, <2>8
    <3>1. buffers' = [buffers EXCEPT ![lo + n] = r]
      BY <2>1, <2>3
    <3>2. CASE i = n + 1
      <4>1. lo + i - 1 = lo + n
        BY <2>2, <2>4, <3>2
      <4> QED
        BY <1>0, <2>5, <3>1, <4>1
    <3>3. CASE i \in 1..n
      <4>1. lo + i - 1 # lo + n
        BY <2>2, <2>4, <3>3
      <4>2. i \in 1..Cardinality(Frags(r))
        BY <1>f, <2>2, <2>3, <3>3
      <4>3. lo + i - 1 \in Params
        BY <1>f, <4>2
      <4>4. buffers[lo + i - 1] = r
        BY <1>0, <2>2, <3>3
      <4>. HIDE DEF lo, n
      <4> QED
        BY <1>0, <3>1, <4>1, <4>3, <4>4
    <3> QED
      BY <2>9, <3>2, <3>3
  <2>12. Body(r)'
    <3>1. header'[r].part <= parts' /\ session'[r] = "reading"
      BY <1>0, <1>1, <2>1
    <3>2. Len(got'[r]) <= Cardinality(Frags(r)')
      BY <1>f, <2>2, <2>3, <2>7, <2>8
    <3>. HIDE DEF Buffered
    <3> QED
      BY <1>1, <2>10, <2>11, <3>1, <3>2
  <2>13. ASSUME NEW q \in Requests, q # r PROVE Body(q)'
    <3>1. CASE streaming
      <4>1. ~Pushing(q)
        BY <1>0, <2>2, <2>13, <3>1
      <4>2. ~Pushing(q)'
        BY <2>1, <4>1 DEF Pushing
      <4>. HIDE DEF Buffered
      <4> QED
        BY <1>0, <1>1, <2>1, <2>6, <2>13, <4>2
    <3>2. CASE ~streaming
      <4>1. buffers' = buffers
        BY <2>1, <3>2
      <4>. HIDE DEF Body
      <4> QED
        BY <1>q, <2>1, <2>6, <2>13, <4>1
    <3> QED
      BY <3>1, <3>2
  <2>. HIDE DEF Body
  <2> QED
    BY <1>g, <2>12, <2>13
<1> QED
  BY <1>2, <1>4, <1>5, <1>6, <1>7, <1>8, <1>9 DEF Session, Ends

\* What is applied.
LEMMA StreamApplied ==
  ASSUME StreamTypeOK, LockInv, BodyInv, AppliedOwn, NEW r \in Requests, Session(r)
  PROVE  AppliedOwn'
<1>. USE StreamConstants
<1>0. /\ parts \in 1..MaxParts
      /\ session \in [Requests -> Sessions] /\ header \in [Requests -> Headers]
      /\ got \in [Requests -> Seq(Requests)]
      /\ \A s \in stepped : s.by \in Requests /\ s.grads = [t \in Frags(s.by) |-> s.by]
                            /\ session[s.by] \in {"replying", "answered"}
  BY DEF StreamTypeOK, AppliedOwn
<1>1. UNCHANGED parts
  BY DEF Session, Open, Reject, Accept, TakeLock, ReadTensor, BreakOff, BodyRead, Handled, HandlingFails, Reply, End, still
<1>k. ASSUME \A q \in Requests : session[q] \in {"replying", "answered"} =>
                                 header'[q] = header[q] /\ session'[q] \in {"replying", "answered"}
      PROVE  \A s \in stepped : s.grads = [t \in Frags(s.by)' |-> s.by] /\ session'[s.by] \in {"replying", "answered"}
  <2>1. \A s \in stepped : Frags(s.by)' = Frags(s.by)
    BY <1>0, <1>1, <1>k DEF Frags
  <2> QED
    BY <1>0, <1>k, <2>1
<1>m. ASSUME NEW from, NEW to, Move(r, from, to)
      PROVE  session[r] = from /\ session'[r] = to /\ \A q \in Requests : q # r => session'[q] = session[q]
  BY <1>0, <1>m DEF Move
<1>2. CASE Open(r)
  <2>1. Move(r, "sent", "header") /\ UNCHANGED stepped /\ \A q \in Requests : q # r => header'[q] = header[q]
    BY <1>0, <1>2 DEF Open
  <2>2. session[r] = "sent"
    BY <1>m, <2>1
  <2>3. \A q \in Requests : session[q] \in {"replying", "answered"} =>
          header'[q] = header[q] /\ session'[q] \in {"replying", "answered"}
    <3>. SUFFICES ASSUME NEW q \in Requests, session[q] \in {"replying", "answered"}
                  PROVE  header'[q] = header[q] /\ session'[q] = session[q]
      OBVIOUS
    <3>1. q # r
      BY <2>2
    <3> QED
      BY <1>m, <2>1, <3>1
  <2> QED
    BY <1>k, <2>1, <2>3 DEF AppliedOwn
<1>3. CASE Reject(r) \/ BreakOff(r) \/ HandlingFails(r) \/ Reply(r) \/ Accept(r) \/ TakeLock(r) \/ ReadTensor(r) \/ BodyRead(r)
  <2>1. /\ UNCHANGED <<header, stepped>>
        /\ \/ UNCHANGED session
           \/ \E from \in {"header", "reading", "handling", "waiting"}, to \in Sessions : Move(r, from, to)
           \/ Move(r, "replying", "answered")
    BY <1>3 DEF Reject, BreakOff, HandlingFails, Reply, Accept, TakeLock, ReadTensor, BodyRead, End, Sessions
  <2>2. \A q \in Requests : session[q] \in {"replying", "answered"} => session'[q] \in {"replying", "answered"}
    BY <1>m, <2>1
  <2> QED
    BY <1>k, <2>1, <2>2 DEF AppliedOwn
<1>4. CASE Handled(r)
  <2>1. /\ Move(r, "handling", "replying") /\ UNCHANGED header
        /\ stepped' = IF header[r].full THEN stepped \cup {[by |-> r, grads |-> PseudoGrads(r)]} ELSE stepped
    BY <1>4 DEF Handled
  <2>2. \A q \in Requests : session[q] \in {"replying", "answered"} => session'[q] \in {"replying", "answered"}
    BY <1>m, <2>1
  <2>3. \A s \in stepped : s.grads = [t \in Frags(s.by)' |-> s.by] /\ session'[s.by] \in {"replying", "answered"}
    BY <1>k, <2>1, <2>2
  <2>4. ASSUME header[r].full PROVE PseudoGrads(r) = [t \in Frags(r)' |-> r]
    <3>1. Pushing(r) /\ session[r] = "handling"
      BY <1>m, <2>1, <2>4 DEF Pushing
    <3>2. /\ header[r].part <= parts /\ \A i \in DOMAIN got[r] : got[r][i] = r
          /\ streaming => \A i \in DOMAIN got[r] : buffers[Min(Frags(r)) + i - 1] = r
          /\ Len(got[r]) = Cardinality(Frags(r)) /\ DOMAIN got[r] = 1..Len(got[r])
      BY <1>0, <3>1 DEF BodyInv, ReadWhole
    <3>3. header[r].part \in 0..MaxParts
      BY <1>0, HeaderPart
    <3>4. \A t \in Frags(r) : t - Min(Frags(r)) + 1 \in DOMAIN got[r] /\ Min(Frags(r)) + (t - Min(Frags(r)) + 1) - 1 = t
      BY <1>0, <3>2, <3>3, FragsCut
    <3>5. \A t \in Frags(r) : (IF streaming THEN buffers[t] ELSE got[r][t - Min(Frags(r)) + 1]) = r
      BY <3>2, <3>4
    <3>6. Frags(r)' = Frags(r)
      BY <1>1, <2>1 DEF Frags
    <3> QED
      BY <3>5, <3>6 DEF PseudoGrads
  <2>5. session'[r] = "replying"
    BY <1>m, <2>1
  <2>6. ASSUME NEW s \in stepped' PROVE s.grads = [t \in Frags(s.by)' |-> s.by] /\ session'[s.by] \in {"replying", "answered"}
    <3>1. CASE s \in stepped
      BY <2>3, <3>1
    <3>2. CASE s \notin stepped
      <4>1. header[r].full /\ s = [by |-> r, grads |-> PseudoGrads(r)]
        BY <2>1, <2>6, <3>2
      <4>2. s.by = r /\ s.grads = PseudoGrads(r)
        BY <4>1
      <4> QED
        BY <2>4, <2>5, <4>1, <4>2
    <3> QED
      BY <3>1, <3>2
  <2> QED
    BY <2>6 DEF AppliedOwn
<1> QED
  BY <1>2, <1>3, <1>4 DEF Session

LEMMA StreamStarts ==
  ASSUME StreamInit
  PROVE  StreamInv
<1>. USE StreamConstants
<1>1. PICK p \in 1..MaxParts, s \in BOOLEAN, n \in 1..MaxSessions : StreamInitAs(p, s, n)
  BY DEF StreamInit
<1>2. /\ parts = p /\ streaming = s /\ session = [r \in Requests |-> "sent"] /\ header = [r \in Requests |-> Pull]
      /\ got = [r \in Requests |-> <<>>] /\ buffers = [t \in Params |-> Nobody] /\ holder = Nobody
      /\ slots = n /\ stepped = {}
  BY <1>1 DEF StreamInitAs
<1>3. Pull \in Headers /\ Pull.part = 0 /\ Pull.full = FALSE
  BY DEF Headers, Pull
<1>4. StreamTypeOK
  <2>1. session \in [Requests -> Sessions] /\ header \in [Requests -> Headers] /\ got \in [Requests -> Seq(Requests)]
    BY <1>2, <1>3 DEF Sessions
  <2> QED
    BY <1>2, <2>1 DEF StreamTypeOK
<1>5. SlotsInv
  <2>1. Served = {}
    BY <1>2 DEF Served
  <2> QED
    BY <1>2, <2>1, FS_EmptySet DEF SlotsInv
<1>6. LockInv
  BY <1>2 DEF LockInv, Pushing
<1>7. BodyInv
  BY <1>2, <1>3 DEF BodyInv, Pushing
<1>8. AppliedOwn
  BY <1>2 DEF AppliedOwn
<1> QED
  BY <1>4, <1>5, <1>6, <1>7, <1>8 DEF StreamInv

\* Nothing happens.
LEMMA StreamRests ==
  ASSUME StreamInv, UNCHANGED streamVars
  PROVE  StreamInv'
<1>1. StreamTypeOK'
  BY DEF StreamInv, StreamTypeOK, streamVars
<1>2. SlotsInv' /\ LockInv' /\ AppliedOwn'
  BY DEF StreamInv, SlotsInv, Served, LockInv, Pushing, AppliedOwn, Frags, streamVars
<1>3. BodyInv'
  BY DEF StreamInv, BodyInv, Pushing, ReadWhole, Frags, streamVars
<1> QED
  BY <1>1, <1>2, <1>3 DEF StreamInv

\* Whatever breaks off or fails in other sessions, what is applied for a push
\* is all of its own body (the streaming path of do_POST and _handle_sync).
THEOREM PushesAreWhole == StreamSafety => [](StreamTypeOK /\ AppliedOwn)
<1>1. ASSUME StreamInv, StreamNext PROVE StreamInv'
  BY <1>1, StreamTypes, StreamLock, StreamBodies, StreamApplied DEF StreamNext, StreamInv
<1>2. StreamInv /\ [StreamNext]_streamVars => StreamInv'
  BY <1>1, StreamRests
<1>3. StreamInv => StreamTypeOK /\ AppliedOwn
  BY DEF StreamInv
<1> QED
  BY <1>2, <1>3, StreamStarts, PTL DEF StreamSafety

-----------------------------------------------------------------------------
(* The outer steps: the handlers' jobs. *)

LEMMA Scenario ==
  ASSUME scenario \in Scenarios
  PROVE  scenario.period \in Nat \ {0} /\ scenario.method \in {"heloco", "diloco", "mla", "bayes"} /\ One \in Nat \ {0}
BY StepAssumption

LEMMA ArrivingArePushes ==
  Arriving \subseteq Push
<1>. SUFFICES ASSUME NEW p \in Arriving PROVE p \in Push
  OBVIOUS
<1>1. /\ p = [island |-> p.island, fragment |-> p.fragment, zero |-> p.zero]
      /\ p.island \in IslandIds \cup {Unknown} /\ p.fragment \in 1..scenario.fragments
      /\ p.zero \in SUBSET Tensors
  BY DEF Arriving
<1> QED
  BY <1>1 DEF Push

\* A push that was received stays where it is.
LEMMA PushesGrow ==
  ASSUME JobsInv, NEW batch \in Seq(Push), pushes' = pushes \o batch
  PROVE  /\ pushes' \in Seq(Push) /\ DOMAIN pushes \subseteq DOMAIN pushes'
         /\ \A p \in DOMAIN pushes : pushes'[p] = pushes[p]
         /\ \A i \in 1..Len(batch) : Len(pushes) + i \in DOMAIN pushes'
<1>1. pushes \in Seq(Push) /\ Len(pushes) \in Nat /\ Len(batch) \in Nat /\ DOMAIN pushes = 1..Len(pushes)
  BY DEF JobsInv
<1>2. /\ pushes' \in Seq(Push) /\ Len(pushes') = Len(pushes) + Len(batch) /\ DOMAIN pushes' = 1..Len(pushes')
      /\ \A p \in 1..Len(pushes) : pushes'[p] = pushes[p]
  BY <1>1
<1>3. \A i \in 1..Len(batch) : Len(pushes) + i \in 1..(Len(pushes) + Len(batch))
  BY <1>1
<1>4. \A p \in 1..Len(pushes) : p \in 1..(Len(pushes) + Len(batch))
  BY <1>1
<1> QED
  BY <1>1, <1>2, <1>3, <1>4

\* What a batch is.
LEMMA BatchArrives ==
  ASSUME NEW th, Begin(th)
  PROVE  \E batch \in Seq(Push) :
           /\ Len(batch) \in {1, 2} /\ pushes' = pushes \o batch
           /\ job' = [job EXCEPT ![th] = [Idle EXCEPT !.phase = "received",
                                                      !.batch = [i \in DOMAIN batch |-> Len(pushes) + i]]]
<1>1. PICK batch \in {<<p>> : p \in Arriving} \cup (IF scenario.grace THEN Arriving \X Arriving ELSE {}) :
        /\ pushes' = pushes \o batch
        /\ job' = [job EXCEPT ![th] = [Idle EXCEPT !.phase = "received",
                                                   !.batch = [i \in DOMAIN batch |-> Len(pushes) + i]]]
  BY DEF Begin
<1>2. batch \in Seq(Push) /\ Len(batch) \in {1, 2}
  <2>1. CASE \E p \in Arriving : batch = <<p>>
    BY <2>1, ArrivingArePushes
  <2>2. CASE batch \in Arriving \X Arriving
    <3>1. PICK p \in Arriving, q \in Arriving : batch = <<p, q>>
      BY <2>2
    <3> QED
      BY <3>1, ArrivingArePushes
  <2> QED
    BY <2>1, <2>2
<1> QED
  BY <1>1, <1>2

\* A job that is not touched.
LEMMA JobStays ==
  ASSUME JobsInv, NEW th \in Handlers, NEW e, job' = [job EXCEPT ![th] = e]
  PROVE  /\ job'[th] = e /\ \A h \in Handlers : h # th => job'[h] = job[h] /\ (Busy(h)' <=> Busy(h))
         /\ (e = [phase |-> e.phase, batch |-> e.batch, at |-> e.at, read |-> e.read] =>
               job' = [h \in Handlers |-> [phase |-> job'[h].phase, batch |-> job'[h].batch,
                                           at |-> job'[h].at, read |-> job'[h].read]])
<1>. DEFINE Whole(j) == j = [phase |-> j.phase, batch |-> j.batch, at |-> j.at, read |-> j.read]
<1>1. DOMAIN job = Handlers /\ \A h \in Handlers : Whole(job[h])
  BY DEF JobsInv
<1>2. job' = [h \in Handlers |-> job'[h]] /\ job'[th] = e /\ \A h \in Handlers : h # th => job'[h] = job[h]
  BY <1>1
<1>3. ASSUME Whole(e) PROVE \A h \in Handlers : Whole(job'[h])
  BY <1>1, <1>2, <1>3
<1> QED
  BY <1>2, <1>3 DEF Busy

LEMMA StepsJobs ==
  ASSUME JobsInv, CorrectionCurrent, StepsNext
  PROVE  JobsInv' /\ CorrectionCurrent'
<1>0. /\ scenario \in Scenarios /\ pushes \in Seq(Push)
      /\ DOMAIN job = Handlers
      /\ \A th \in Handlers :
           job[th] = [phase |-> job[th].phase, batch |-> job[th].batch, at |-> job[th].at, read |-> job[th].read]
      /\ \A th \in Handlers : Busy(th) =>
           job[th].batch \in Seq(DOMAIN pushes) /\ job[th].at \in 1..Len(job[th].batch)
      /\ ~scenario.grace => \A th, other \in Handlers : Busy(th) /\ Busy(other) => th = other
  BY DEF JobsInv
<1>1. UNCHANGED scenario
  BY DEF StepsNext, Begin, ReadMomentum, CommitPush, Finish, RestartFromDisk
<1>p. Push' = Push
  BY <1>1 DEF Push, Tensors
<1>. DEFINE Whole(j) == j = [phase |-> j.phase, batch |-> j.batch, at |-> j.at, read |-> j.read]
            Works(th) == job[th].batch \in Seq(DOMAIN pushes) /\ job[th].at \in 1..Len(job[th].batch)
            Current(th) == job[th].phase = "corrected" => job[th].read = Momentum(Present(th))
\* One handler's step.
<1>g. ASSUME NEW th \in Handlers, NEW e, job' = [job EXCEPT ![th] = e], Whole(e), pushes' \in Seq(Push),
             DOMAIN pushes \subseteq DOMAIN pushes', e.phase # "idle" => Works(th)',
             ~scenario.grace => Current(th)', ~scenario.grace /\ ~Busy(th) => \A h \in Handlers : ~Busy(h)
      PROVE  JobsInv' /\ CorrectionCurrent'
  <2>1. /\ job'[th] = e /\ \A h \in Handlers : h # th => job'[h] = job[h] /\ (Busy(h)' <=> Busy(h))
        /\ job' = [h \in Handlers |-> [phase |-> job'[h].phase, batch |-> job'[h].batch,
                                       at |-> job'[h].at, read |-> job'[h].read]]
    BY <1>g, JobStays
  <2>2. ASSUME NEW h \in Handlers, Busy(h)' PROVE Works(h)'
    <3>1. CASE h = th
      BY <1>g, <2>1, <2>2, <3>1 DEF Busy
    <3>2. CASE h # th
      <4>1. job'[h] = job[h] /\ job[h].batch \in Seq(DOMAIN pushes) /\ job[h].at \in 1..Len(job[h].batch)
        BY <1>0, <2>1, <2>2, <3>2
      <4>2. job[h].batch \in Seq(DOMAIN pushes')
        BY <1>g, <4>1
      <4> QED
        BY <4>1, <4>2
    <3> QED
      BY <3>1, <3>2
  <2>3. ASSUME ~scenario.grace, NEW h \in Handlers, h # th PROVE ~Busy(h)'
    BY <1>0, <1>g, <2>1, <2>3
  <2>4. JobsInv'
    <3>1. ~scenario.grace => \A h, other \in Handlers : Busy(h)' /\ Busy(other)' => h = other
      BY <2>3
    <3> QED
      BY <1>0, <1>1, <1>g, <1>p, <2>1, <2>2, <3>1 DEF JobsInv
  <2>5. CorrectionCurrent'
    <3>. SUFFICES ASSUME ~scenario.grace, NEW h \in Handlers PROVE Current(h)'
      BY <1>1 DEF CorrectionCurrent
    <3>1. CASE h = th
      BY <1>g, <3>1
    <3>2. CASE h # th
      BY <2>3, <3>2 DEF Busy
    <3> QED
      BY <3>1, <3>2
  <2> QED
    BY <2>4, <2>5
<1>2. ASSUME NEW th \in Handlers, Begin(th) PROVE JobsInv' /\ CorrectionCurrent'
  <2>1. PICK batch \in Seq(Push) :
          /\ Len(batch) \in {1, 2} /\ pushes' = pushes \o batch
          /\ job' = [job EXCEPT ![th] = [Idle EXCEPT !.phase = "received",
                                                     !.batch = [i \in DOMAIN batch |-> Len(pushes) + i]]]
    BY <1>2, BatchArrives
  <2>. DEFINE e == [phase |-> "received", batch |-> [i \in DOMAIN batch |-> Len(pushes) + i], at |-> 1, read |-> <<>>]
  <2>2. job' = [job EXCEPT ![th] = e]
    <3>. DEFINE b == [i \in DOMAIN batch |-> Len(pushes) + i]
    <3>1. Idle = [phase |-> Idle.phase, batch |-> Idle.batch, at |-> Idle.at, read |-> Idle.read]
          /\ Idle.at = 1 /\ Idle.read = <<>> /\ Idle.batch = <<>>
      BY DEF Idle
    <3>2. job' = [job EXCEPT ![th] = [Idle EXCEPT !.phase = "received", !.batch = b]]
      BY <2>1
    <3>3. e = [phase |-> "received", batch |-> b, at |-> 1, read |-> <<>>]
      OBVIOUS
    <3>. HIDE DEF b, e
    <3>4. [Idle EXCEPT !.phase = "received", !.batch = b] = e
      <4>1. [Idle EXCEPT !.phase = "received"] = [phase |-> "received", batch |-> <<>>, at |-> 1, read |-> <<>>]
        BY <3>1
      <4>2. [[phase |-> "received", batch |-> <<>>, at |-> 1, read |-> <<>>] EXCEPT !.batch = b]
              = [phase |-> "received", batch |-> b, at |-> 1, read |-> <<>>]
        OBVIOUS
      <4>3. [Idle EXCEPT !.phase = "received", !.batch = b] = [[Idle EXCEPT !.phase = "received"] EXCEPT !.batch = b]
        OBVIOUS
      <4> QED
        BY <3>3, <4>1, <4>2, <4>3
    <3> QED
      BY <3>2, <3>4
  <2>3. /\ pushes' \in Seq(Push) /\ DOMAIN pushes \subseteq DOMAIN pushes'
        /\ \A i \in 1..Len(batch) : Len(pushes) + i \in DOMAIN pushes'
    BY <2>1, PushesGrow
  <2>4. e.batch \in Seq(DOMAIN pushes') /\ e.at \in 1..Len(e.batch)
    <3>1. DOMAIN batch = 1..Len(batch) /\ Len(batch) \in Nat
      OBVIOUS
    <3>2. e.batch \in [1..Len(batch) -> DOMAIN pushes']
      BY <2>3, <3>1
    <3>3. e.batch \in Seq(DOMAIN pushes') /\ Len(e.batch) = Len(batch)
      BY <3>1, <3>2
    <3> QED
      BY <2>1, <3>3
  <2>5. job'[th] = e
    BY <1>0, <2>2
  <2>6. Works(th)' /\ Current(th)' /\ Whole(e) /\ e.phase = "received"
    <3>1. Works(th)'
      BY <2>4, <2>5
    <3> QED
      BY <2>5, <3>1
  <2>7. ~Busy(th) /\ (scenario.grace \/ \A other \in Handlers : ~Busy(other))
    BY <1>2 DEF Begin, MayBegin
  <2>. HIDE DEF e, Works, Current, Whole
  <2> QED
    BY <1>g, <2>2, <2>3, <2>6, <2>7
<1>3. ASSUME NEW th \in Handlers, ReadMomentum(th) PROVE JobsInv' /\ CorrectionCurrent'
  <2>1. /\ job[th].phase = "received" /\ UNCHANGED <<own, pushes>>
        /\ job' = [job EXCEPT ![th].phase = "corrected", ![th].read = Momentum(Present(th))]
    BY <1>3 DEF ReadMomentum, MomentumRead
  <2>. DEFINE e == [phase |-> "corrected", batch |-> job[th].batch, at |-> job[th].at, read |-> Momentum(Present(th))]
  <2>2. job' = [job EXCEPT ![th] = e]
    <3>. DEFINE read == Momentum(Present(th))
    <3>3. e = [phase |-> "corrected", batch |-> job[th].batch, at |-> job[th].at, read |-> read]
      OBVIOUS
    <3>1. [job[th] EXCEPT !.phase = "corrected", !.read = read] = e
      <4>. HIDE DEF read, e
      <4>1. [job[th] EXCEPT !.phase = "corrected"]
              = [phase |-> "corrected", batch |-> job[th].batch, at |-> job[th].at, read |-> job[th].read]
        BY <1>0
      <4>2. [[phase |-> "corrected", batch |-> job[th].batch, at |-> job[th].at, read |-> job[th].read] EXCEPT !.read = read]
              = [phase |-> "corrected", batch |-> job[th].batch, at |-> job[th].at, read |-> read]
        OBVIOUS
      <4>3. [job[th] EXCEPT !.phase = "corrected", !.read = read]
              = [[job[th] EXCEPT !.phase = "corrected"] EXCEPT !.read = read]
        OBVIOUS
      <4> QED
        BY <3>3, <4>1, <4>2, <4>3
    <3>2. job' = [job EXCEPT ![th] = [job[th] EXCEPT !.phase = "corrected", !.read = Momentum(Present(th))]]
      BY <1>0, <2>1
    <3> QED
      BY <3>1, <3>2
  <2>3. Busy(th) /\ job'[th] = e
    BY <1>0, <2>1, <2>2 DEF Busy
  <2>4. Works(th)' /\ Whole(e)
    BY <1>0, <2>1, <2>3
  <2>5. Current(th)'
    <3>1. Present(th)' = Present(th)
      BY <2>3 DEF Present
    <3>2. \A p : Momentum(p)' = [t \in Covered(p)' |-> own'.state[t].m]
      BY DEF Momentum
    <3>3. Momentum(Present(th))' = Momentum(Present(th))
      BY <1>1, <2>1, <3>1 DEF Momentum, Covered
    <3> QED
      BY <2>3, <3>3
  <2>. HIDE DEF e, Works, Current, Whole
  <2> QED
    BY <1>0, <1>g, <2>1, <2>2, <2>3, <2>4, <2>5
<1>4. ASSUME NEW th \in Handlers, CommitPush(th) PROVE JobsInv' /\ CorrectionCurrent'
  <2>. DEFINE last == job[th].at = Len(job[th].batch)
              e == [phase |-> IF last THEN "applied" ELSE "received", batch |-> job[th].batch,
                    at |-> IF last THEN job[th].at ELSE job[th].at + 1, read |-> job[th].read]
  <2>1. /\ job[th].phase \in {"corrected", "received"} /\ UNCHANGED pushes
        /\ job' = [job EXCEPT ![th].phase = IF last THEN "applied" ELSE "received",
                              ![th].at = IF last THEN @ ELSE @ + 1]
    BY <1>4 DEF CommitPush
  <2>2. job' = [job EXCEPT ![th] = e]
    <3>. DEFINE phase == IF last THEN "applied" ELSE "received"
                place == IF last THEN job[th].at ELSE job[th].at + 1
    <3>3. e = [phase |-> phase, batch |-> job[th].batch, at |-> place, read |-> job[th].read]
      OBVIOUS
    <3>1. [job[th] EXCEPT !.phase = phase, !.at = place] = e
      <4>. HIDE DEF phase, place, e
      <4>1. [job[th] EXCEPT !.phase = phase]
              = [phase |-> phase, batch |-> job[th].batch, at |-> job[th].at, read |-> job[th].read]
        BY <1>0
      <4>2. [[phase |-> phase, batch |-> job[th].batch, at |-> job[th].at, read |-> job[th].read] EXCEPT !.at = place]
              = [phase |-> phase, batch |-> job[th].batch, at |-> place, read |-> job[th].read]
        OBVIOUS
      <4>3. [job[th] EXCEPT !.phase = phase, !.at = place] = [[job[th] EXCEPT !.phase = phase] EXCEPT !.at = place]
        OBVIOUS
      <4> QED
        BY <3>3, <4>1, <4>2, <4>3
    <3>2. job' = [job EXCEPT ![th] = [job[th] EXCEPT !.phase = phase, !.at = place]]
      BY <1>0, <2>1
    <3> QED
      BY <3>1, <3>2
  <2>3. Busy(th) /\ job'[th] = e
    BY <1>0, <2>1, <2>2 DEF Busy
  <2>4. job[th].batch \in Seq(DOMAIN pushes) /\ job[th].at \in 1..Len(job[th].batch) /\ Len(job[th].batch) \in Nat
    BY <1>0, <2>3
  <2>5. e.at \in 1..Len(job[th].batch)
    BY <2>4
  <2>6. Works(th)' /\ Current(th)' /\ Whole(e)
    BY <2>1, <2>3, <2>4, <2>5
  <2>. HIDE DEF e, Works, Current, Whole
  <2> QED
    BY <1>0, <1>g, <2>1, <2>2, <2>3, <2>6
<1>5. ASSUME NEW th \in Handlers, Finish(th) PROVE JobsInv' /\ CorrectionCurrent'
  <2>1. job[th].phase = "applied" /\ UNCHANGED pushes /\ job' = [job EXCEPT ![th] = Idle]
    BY <1>5 DEF Finish
  <2>2. Whole(Idle) /\ Idle.phase = "idle" /\ job'[th] = Idle /\ Busy(th)
    BY <1>0, <2>1 DEF Idle, Busy
  <2>3. Current(th)'
    BY <2>2
  <2>. HIDE DEF Works, Current, Whole
  <2> QED
    BY <1>0, <1>g, <2>1, <2>2, <2>3
<1>6. CASE RestartFromDisk
  <2>1. job' = [th \in Handlers |-> Idle] /\ UNCHANGED pushes
    BY <1>6 DEF RestartFromDisk
  <2>2. \A th \in Handlers : job'[th].phase = "idle" /\ Whole(job'[th])
    BY <2>1 DEF Idle
  <2>3. job' = [h \in Handlers |-> [phase |-> job'[h].phase, batch |-> job'[h].batch,
                                    at |-> job'[h].at, read |-> job'[h].read]]
    BY <2>1 DEF Idle
  <2> QED
    BY <1>0, <1>1, <1>p, <2>1, <2>2, <2>3 DEF JobsInv, CorrectionCurrent, Busy
<1> QED
  BY <1>2, <1>3, <1>4, <1>5, <1>6 DEF StepsNext

-----------------------------------------------------------------------------
(* The outer steps: the momenta. *)

LEMMA NoneOfNone ==
  /\ 0 + 0 = 0 /\ \A n \in Nat \ {0} : 0 \div n = 0
OBVIOUS

\* A momentum with nothing of a push in it takes in nothing of it but by its gradient.
LEMMA LookAheadTakesIn ==
  ASSUME NEW x, NEW s, NEW g, NEW q \in Ids, s.m[q] = 0, g[q] = 0
  PROVE  MomentumLookAhead(x, s, g).s.m[q] = 0
<1>1. MomentumLookAhead(x, s, g).s.m = Half(Plus(s.m, g))
  BY DEF MomentumLookAhead, Touched
<1> QED
  BY <1>1, NoneOfNone DEF Half, Over, Plus

LEMMA NesterovTakesIn ==
  ASSUME scenario \in Scenarios, NEW x, NEW s, NEW g, NEW milestone, NEW q \in Ids, ~Holds(s, q), g[q] = 0
  PROVE  ~Holds(DelayedNesterov(x, s, g, milestone).s, q)
<1>. DEFINE sum == Plus(s.buffer, g)
            m == IF milestone THEN Plus(Half(s.m), Over(sum, scenario.period)) ELSE s.m
            buffer == IF milestone THEN Zero ELSE sum
<1>1. DelayedNesterov(x, s, g, milestone).s.m = m /\ DelayedNesterov(x, s, g, milestone).s.buffer = buffer
  BY DEF DelayedNesterov, Touched
<1>2. sum[q] = 0 /\ s.m[q] = 0
  BY NoneOfNone DEF Holds, Plus
<1>3. Half(s.m)[q] = 0
  BY <1>2, NoneOfNone DEF Half, Over
<1>. HIDE DEF sum
<1>4. Over(sum, scenario.period)[q] = 0
  BY <1>2, NoneOfNone, Scenario DEF Over
<1>5. Plus(Half(s.m), Over(sum, scenario.period))[q] = 0 /\ Zero[q] = 0
  BY <1>3, <1>4, NoneOfNone DEF Plus, Zero
<1>6. m[q] = 0 /\ buffer[q] = 0
  BY <1>2, <1>5
<1> QED
  BY <1>1, <1>6 DEF Holds

\* What a commit makes of the optimizer it steps.
AfterPush(name, o, p, gain) ==
  Counted([o EXCEPT !.state =
    [t \in Tensors |-> IF t \in Covered(p) THEN Stepped(name, o, t, Grad(p, t), gain).s ELSE o.state[t]]])

LEMMA CommitSteps ==
  ASSUME JobsInv, NEW th \in Handlers, CommitPush(th)
  PROVE  /\ Present(th) \in DOMAIN pushes /\ UNCHANGED <<scenario, pushes, disk>>
         /\ \E gain \in {1, 2} :
              \/ ~IsDiloco(pushes[Present(th)].island) /\ own' = AfterPush("own", own, Present(th), gain) /\ second' = second
              \/ IsDiloco(pushes[Present(th)].island) /\ second' = AfterPush("second", second, Present(th), gain) /\ own' = own
<1>1. Present(th) \in DOMAIN pushes
  <2>1. Busy(th)
    BY DEF CommitPush, Busy
  <2>2. job[th].batch \in Seq(DOMAIN pushes) /\ job[th].at \in 1..Len(job[th].batch)
    BY <2>1 DEF JobsInv
  <2> QED
    BY <2>2 DEF Present
<1>2. UNCHANGED <<scenario, pushes, disk>>
  BY DEF CommitPush
<1>. DEFINE p == Present(th)
            name == OptimizerOf(p)
            o == IF name = "own" THEN own ELSE second
<1>3. PICK gain \in {1, 2} :
        LET step == [t \in Covered(p) |-> Stepped(name, o, t, Grad(p, t), gain)]
            next == Counted([o EXCEPT !.state = [t \in Tensors |-> IF t \in Covered(p) THEN step[t].s ELSE o.state[t]]])
        IN  own' = (IF name = "own" THEN next ELSE own) /\ second' = (IF name = "second" THEN next ELSE second)
  BY DEF CommitPush
<1>4. own' = (IF name = "own" THEN AfterPush(name, o, p, gain) ELSE own)
      /\ second' = (IF name = "second" THEN AfterPush(name, o, p, gain) ELSE second)
  BY <1>3 DEF AfterPush
<1>5. name = IF IsDiloco(pushes[p].island) THEN "second" ELSE "own"
  BY DEF OptimizerOf
<1>. HIDE DEF p, name
<1>6. \/ ~IsDiloco(pushes[p].island) /\ own' = AfterPush("own", own, p, gain) /\ second' = second
      \/ IsDiloco(pushes[p].island) /\ second' = AfterPush("second", second, p, gain) /\ own' = own
  BY <1>4, <1>5
<1> QED
  BY <1>1, <1>2, <1>6 DEF p

\* A gradient is its own push's only.
LEMMA OneGradient ==
  ASSUME NEW p, NEW t, NEW q \in Ids, q # p
  PROVE  Grad(p, t)[q] = 0
BY DEF Grad, Zero

\* Of the optimizer that is stepped, what a tensor holds afterwards.
LEMMA CommitHolds ==
  ASSUME NEW name, NEW o, NEW p, NEW gain, Shaped(o)
  PROVE  LET n == AfterPush(name, o, p, gain) IN
         /\ Shaped(n)
         /\ \A t \in Tensors :
              n.state[t] = IF t \in Covered(p) THEN Stepped(name, o, t, Grad(p, t), gain).s ELSE o.state[t]
<1>. DEFINE S == [t \in Tensors |-> IF t \in Covered(p) THEN Stepped(name, o, t, Grad(p, t), gain).s ELSE o.state[t]]
            n == AfterPush(name, o, p, gain)
<1>1. n = [[o EXCEPT !.state = S] EXCEPT !.count = @ + 1]
  BY DEF AfterPush, Counted
<1>2. \A t \in Tensors : S[t] = IF t \in Covered(p) THEN Stepped(name, o, t, Grad(p, t), gain).s ELSE o.state[t]
  OBVIOUS
<1>. HIDE DEF S, n
<1>3. [o EXCEPT !.state = S] = [state |-> S, count |-> o.count]
  BY DEF Shaped
<1>4. n = [state |-> S, count |-> o.count + 1]
  BY <1>1, <1>3
<1>5. n.state = S /\ Shaped(n)
  BY <1>4 DEF Shaped
<1> QED
  BY <1>2, <1>5 DEF n

LEMMA StepsApart ==
  ASSUME JobsInv, ApartInv, StepsNext
  PROVE  ApartInv'
<1>1. scenario \in Scenarios /\ UNCHANGED scenario
  BY DEF JobsInv, StepsNext, Begin, ReadMomentum, CommitPush, Finish, RestartFromDisk
<1>2. Ids' = Ids /\ Tensors' = Tensors /\ \A i : IsDiloco(i)' <=> IsDiloco(i)
  BY <1>1 DEF Ids, Tensors, IsDiloco, GetsCorrection
\* Nothing is stepped.
<1>3. ASSUME UNCHANGED <<own, second>>, disk'.state \in {disk.state, own.state},
             DOMAIN pushes \subseteq DOMAIN pushes', \A p \in DOMAIN pushes : pushes'[p] = pushes[p]
      PROVE  ApartInv'
  <2>1. scenario.method = "heloco" => MainApart'
    <3>. SUFFICES ASSUME MainApart PROVE MainApart'
      BY DEF ApartInv
    <3>1. Shaped(own)'
      BY <1>3 DEF MainApart, Shaped
    <3>2. ASSUME NEW t \in Tensors, NEW p \in Ids, own'.state[t].m[p] # 0 \/ disk'.state[t].m[p] # 0
          PROVE  p \in DOMAIN pushes' /\ ~IsDiloco(pushes'[p].island)
      <4>1. own.state[t].m[p] # 0 \/ disk.state[t].m[p] # 0
        BY <1>3, <3>2
      <4> QED
        BY <1>3, <4>1 DEF MainApart
    <3> QED
      BY <1>2, <3>1, <3>2 DEF MainApart
  <2>2. SecondApart'
    <3>1. Shaped(second)'
      BY <1>3 DEF ApartInv, SecondApart, Shaped
    <3>2. ASSUME NEW t \in Tensors, NEW p \in Ids, Holds(second'.state[t], p)
          PROVE  p \in DOMAIN pushes' /\ IsDiloco(pushes'[p].island)
      BY <1>3, <3>2 DEF ApartInv, SecondApart
    <3> QED
      BY <1>2, <3>1, <3>2 DEF SecondApart
  <2> QED
    BY <1>1, <2>1, <2>2 DEF ApartInv
<1>4. ASSUME NEW th \in Handlers, Begin(th) PROVE ApartInv'
  <2>1. PICK batch \in Seq(Push) : pushes' = pushes \o batch
    BY <1>4, BatchArrives
  <2>2. UNCHANGED <<own, second, disk>>
    BY <1>4 DEF Begin
  <2> QED
    BY <1>3, <2>1, <2>2, PushesGrow
<1>5. ASSUME NEW th \in Handlers, ReadMomentum(th) PROVE ApartInv'
  BY <1>3, <1>5 DEF ReadMomentum
<1>6. ASSUME NEW th \in Handlers, Finish(th) PROVE ApartInv'
  <2>1. UNCHANGED <<own, second, pushes>> /\ disk' \in {disk, Saved} /\ Saved.state = own.state
    BY <1>6 DEF Finish, Saved
  <2> QED
    BY <1>3, <2>1
<1>7. ASSUME NEW th \in Handlers, CommitPush(th) PROVE ApartInv'
  <2>. DEFINE p == Present(th)
  <2>1. PICK gain \in {1, 2} :
          \/ ~IsDiloco(pushes[p].island) /\ own' = AfterPush("own", own, p, gain) /\ second' = second
          \/ IsDiloco(pushes[p].island) /\ second' = AfterPush("second", second, p, gain) /\ own' = own
    BY <1>7, CommitSteps
  <2>2. p \in DOMAIN pushes /\ UNCHANGED <<pushes, disk>>
    BY <1>7, CommitSteps
  <2>. HIDE DEF p
  <2>3. CASE ~IsDiloco(pushes[p].island) /\ own' = AfterPush("own", own, p, gain) /\ second' = second
    <3>1. SecondApart'
      BY <1>2, <2>2, <2>3 DEF ApartInv, SecondApart, Shaped
    <3>2. ASSUME scenario.method = "heloco" PROVE MainApart'
      <4>0. MainApart
        BY <3>2 DEF ApartInv
      <4>1. Shaped(own') /\ \A t \in Tensors :
              own'.state[t] = IF t \in Covered(p) THEN Stepped("own", own, t, Grad(p, t), gain).s ELSE own.state[t]
        BY <2>3, <4>0, CommitHolds DEF MainApart
      <4>2. ASSUME NEW t \in Tensors, NEW q \in Ids, own'.state[t].m[q] # 0, q # p PROVE own.state[t].m[q] # 0
        <5>1. CASE t \notin Covered(p)
          BY <4>1, <4>2, <5>1
        <5>2. CASE t \in Covered(p)
          <6>1. Stepped("own", own, t, Grad(p, t), gain) = MomentumLookAhead(theta[t], own.state[t], Grad(p, t))
            BY <3>2 DEF Stepped
          <6>2. own'.state[t].m = MomentumLookAhead(theta[t], own.state[t], Grad(p, t)).s.m
            BY <4>1, <5>2, <6>1
          <6> QED
            BY <4>2, <6>2, LookAheadTakesIn, OneGradient
        <5> QED
          BY <5>1, <5>2
      <4>3. ASSUME NEW t \in Tensors, NEW q \in Ids, own'.state[t].m[q] # 0 \/ disk'.state[t].m[q] # 0
            PROVE  q \in DOMAIN pushes /\ ~IsDiloco(pushes[q].island)
        BY <2>2, <2>3, <4>0, <4>2, <4>3 DEF MainApart
      <4> QED
        BY <1>2, <2>2, <4>1, <4>3 DEF MainApart, Shaped
    <3> QED
      BY <1>1, <3>1, <3>2 DEF ApartInv
  <2>4. CASE IsDiloco(pushes[p].island) /\ second' = AfterPush("second", second, p, gain) /\ own' = own
    <3>1. scenario.method = "heloco" => MainApart'
      BY <1>2, <2>2, <2>4 DEF ApartInv, MainApart, Shaped
    <3>2. SecondApart
      BY DEF ApartInv
    <3>3. Shaped(second') /\ \A t \in Tensors :
            second'.state[t] = IF t \in Covered(p) THEN Stepped("second", second, t, Grad(p, t), gain).s ELSE second.state[t]
      BY <2>4, <3>2, CommitHolds DEF SecondApart
    <3>4. ASSUME NEW t \in Tensors, NEW q \in Ids, Holds(second'.state[t], q), q # p PROVE Holds(second.state[t], q)
      <4>1. CASE t \notin Covered(p)
        BY <3>3, <3>4, <4>1
      <4>2. CASE t \in Covered(p)
        <5>1. Stepped("second", second, t, Grad(p, t), gain)
                = DelayedNesterov(theta[t], second.state[t], Grad(p, t), AtMilestone(second))
          BY DEF Stepped
        <5>2. second'.state[t] = DelayedNesterov(theta[t], second.state[t], Grad(p, t), AtMilestone(second)).s
          BY <3>3, <4>2, <5>1
        <5> QED
          BY <1>1, <3>4, <5>2, NesterovTakesIn, OneGradient
      <4> QED
        BY <4>1, <4>2
    <3>5. ASSUME NEW t \in Tensors, NEW q \in Ids, Holds(second'.state[t], q)
          PROVE  q \in DOMAIN pushes /\ IsDiloco(pushes[q].island)
      BY <2>2, <2>4, <3>2, <3>4, <3>5 DEF SecondApart
    <3>6. SecondApart'
      BY <1>2, <2>2, <3>3, <3>5 DEF SecondApart, Shaped
    <3> QED
      BY <1>1, <3>1, <3>6 DEF ApartInv
  <2> QED
    BY <2>1, <2>3, <2>4
<1>8. CASE RestartFromDisk
  <2>1. own' = [state |-> disk.state, count |-> 0] /\ second' = NoOptimizer /\ UNCHANGED <<pushes, disk>>
    BY <1>8 DEF RestartFromDisk
  <2>2. scenario.method = "heloco" => MainApart'
    BY <1>2, <2>1 DEF ApartInv, MainApart, Shaped
  <2>3. Shaped(NoOptimizer) /\ \A t \in Tensors : \A q \in Ids : ~Holds(NoOptimizer.state[t], q)
    BY DEF NoOptimizer, NoState, Zero, Holds, Shaped
  <2>4. SecondApart'
    BY <1>2, <2>1, <2>3 DEF SecondApart, Shaped
  <2> QED
    BY <1>1, <2>2, <2>4 DEF ApartInv
<1> QED
  BY <1>4, <1>5, <1>6, <1>7, <1>8 DEF StepsNext

-----------------------------------------------------------------------------
(* The outer steps: the theorem. *)

LEMMA StepsStart ==
  ASSUME StepsInit
  PROVE  StepsInv
<1>1. PICK s \in Scenarios : StepsInitAs(s)
  BY DEF StepsInit
<1>2. /\ scenario = s /\ own = NoOptimizer /\ second = NoOptimizer /\ pushes = <<>>
      /\ job = [th \in Handlers |-> Idle] /\ disk.state = own.state
  BY <1>1 DEF StepsInitAs
<1>3. JobsInv /\ CorrectionCurrent
  <2>1. \A th \in Handlers : job[th].phase = "idle" /\ job[th] = [phase |-> job[th].phase, batch |-> job[th].batch,
                                                             at |-> job[th].at, read |-> job[th].read]
    BY <1>2 DEF Idle
  <2>2. job = [th \in Handlers |-> [phase |-> job[th].phase, batch |-> job[th].batch,
                                   at |-> job[th].at, read |-> job[th].read]]
    BY <1>2 DEF Idle
  <2>3. pushes \in Seq(Push)
    BY <1>2
  <2> QED
    BY <1>2, <2>1, <2>2, <2>3 DEF JobsInv, CorrectionCurrent, Busy
<1>4. Shaped(NoOptimizer) /\ \A t \in Tensors : \A q \in Ids : ~Holds(NoOptimizer.state[t], q)
  BY DEF NoOptimizer, NoState, Zero, Holds, Shaped
<1>5. ApartInv
  BY <1>2, <1>4 DEF ApartInv, MainApart, SecondApart, Holds
<1> QED
  BY <1>3, <1>5 DEF StepsInv

LEMMA StepsRest ==
  ASSUME StepsInv, UNCHANGED stepVars
  PROVE  StepsInv'
<1>1. JobsInv'
  BY DEF StepsInv, JobsInv, stepVars, Push, Tensors, Busy
<1>2. CorrectionCurrent'
  BY DEF StepsInv, CorrectionCurrent, stepVars, Momentum, Covered, Present
<1>3. ApartInv'
  BY DEF StepsInv, ApartInv, MainApart, SecondApart, Shaped, Ids, Tensors, IsDiloco, GetsCorrection, stepVars
<1> QED
  BY <1>1, <1>2, <1>3 DEF StepsInv

LEMMA ApartImplies ==
  ASSUME StepsInv
  PROVE  MomentaApart
<1>1. SecondApart /\ (scenario.method = "heloco" => MainApart)
  BY DEF StepsInv, ApartInv
<1>. SUFFICES ASSUME NEW t \in Tensors, NEW p \in DOMAIN pushes
              PROVE  /\ p \in In(own.state[t].m) => ~IsDiloco(pushes[p].island)
                     /\ p \in In(second.state[t].m) \cup In(second.state[t].buffer) => IsDiloco(pushes[p].island)
  BY DEF MomentaApart
<1>2. CASE scenario.method = "heloco"
  BY <1>1, <1>2 DEF MainApart, SecondApart, In, Holds
<1>3. CASE scenario.method # "heloco"
  BY <1>1, <1>3 DEF SecondApart, In, Holds, IsDiloco
<1> QED
  BY <1>2, <1>3

\* However many handlers, islands, fragments and restarts there are: without a
\* grace period HeLoCo commits a correction to the very momentum it was
\* computed against (_apply_one), and HeLoCo's momentum and that of the second
\* optimizer never have a gradient of the other's islands in them.
THEOREM MomentaStayApart == StepsSafety => [](CorrectionCurrent /\ MomentaApart)
<1>1. ASSUME StepsInv, StepsNext PROVE StepsInv'
  BY <1>1, StepsJobs, StepsApart DEF StepsInv
<1>2. StepsInv /\ [StepsNext]_stepVars => StepsInv'
  BY <1>1, StepsRest
<1>3. StepsInv => CorrectionCurrent /\ MomentaApart
  BY ApartImplies DEF StepsInv
<1> QED
  BY <1>2, <1>3, StepsStart, PTL DEF StepsSafety

-----------------------------------------------------------------------------
(* The outer steps: powers, and counting modulo the period. *)

\* Powers of two.
LEMMA PowerSteps ==
  /\ 2^0 = 1
  /\ \A n \in Nat : 2^n \in Nat \ {0} /\ 2^(n + 1) = 2 * 2^n
<1>. DEFINE P(n) == SUBSET (1..n)
<1>1. ASSUME NEW n \in Nat PROVE IsFiniteSet(P(n)) /\ Cardinality(P(n)) = 2^n /\ 2^n \in Nat
  <2>1. IsFiniteSet(1..n) /\ Cardinality(1..n) = n
    BY FS_Interval
  <2>2. IsFiniteSet(P(n)) /\ Cardinality(P(n)) = 2^n
    BY <2>1, FS_SUBSET
  <2> QED BY <2>2, FS_CardinalityType
<1>2. 2^0 = 1
  <2>1. P(0) = {{}}
    OBVIOUS
  <2>2. Cardinality({{}}) = 1
    BY FS_Singleton
  <2>3. 0 \in Nat /\ Cardinality(P(0)) = 2^0
    BY <1>1
  <2>. HIDE DEF P
  <2> QED BY <2>1, <2>2, <2>3
<1>3. ASSUME NEW n \in Nat PROVE 2^(n + 1) = 2 * 2^n
  <2>. DEFINE f == [s \in P(n) |-> s \cup {n + 1}]
              Q == {s \in P(n + 1) : n + 1 \in s}
  <2>1. 1..(n + 1) = (1..n) \cup {n + 1} /\ n + 1 \notin 1..n
    OBVIOUS
  <2>2. P(n + 1) = P(n) \cup Q /\ P(n) \cap Q = {}
    BY <2>1
  <2>3. f \in Bijection(P(n), Q)
    <3>1. \A s \in P(n) : s \cup {n + 1} \in Q
      BY <2>1
    <3>2. f \in [P(n) -> Q]
      BY <3>1
    <3>3. \A s, t \in P(n) : f[s] = f[t] => s = t
      <4>1. \A s \in P(n) : n + 1 \notin s
        BY <2>1
      <4> QED BY <4>1
    <3>4. \A u \in Q : \E s \in P(n) : f[s] = u
      <4>1. ASSUME NEW u \in Q PROVE u \ {n + 1} \in P(n) /\ u = (u \ {n + 1}) \cup {n + 1}
        BY <2>1
      <4>. HIDE DEF P, Q
      <4> QED BY <4>1
    <3>. HIDE DEF P, Q, f
    <3> QED BY <3>2, <3>3, <3>4 DEF Bijection, Injection, Surjection, IsInjective
  <2>4. IsFiniteSet(P(n)) /\ Cardinality(P(n)) = 2^n /\ 2^n \in Nat /\ Cardinality(P(n + 1)) = 2^(n + 1)
    BY <1>1
  <2>. HIDE DEF P, Q, f
  <2>5. IsFiniteSet(Q) /\ Cardinality(Q) = 2^n
    BY <2>3, <2>4, FS_Bijection DEF ExistsBijection
  <2>6. Cardinality(P(n) \cup Q) = Cardinality(P(n)) + Cardinality(Q) - Cardinality(P(n) \cap Q)
    BY <2>4, <2>5, FS_Union
  <2>7. Cardinality({}) = 0
    BY FS_EmptySet
  <2>8. Cardinality(P(n) \cup Q) = 2^n + 2^n - 0
    BY <2>2, <2>4, <2>5, <2>6, <2>7, Zenon
  <2>9. 2^(n + 1) = 2^n + 2^n - 0
    BY <2>2, <2>4, <2>8, Zenon
  <2> QED BY <2>4, <2>9
<1>4. \A n \in Nat : n \in {k \in Nat : 2^k # 0}
  <2>. DEFINE S == {k \in Nat : 2^k # 0}
  <2>1. 0 \in S
    BY <1>2
  <2>2. ASSUME NEW n \in Nat, n \in S PROVE n + 1 \in S
    BY <1>1, <1>3, <2>2
  <2>3. \A n \in Nat : n \in S
    <3>. HIDE DEF S
    <3> QED BY <2>1, <2>2, SetInduction
  <2> QED BY <2>3
<1>5. ASSUME NEW n \in Nat PROVE 2^n \in Nat \ {0}
  BY <1>1, <1>4
<1> QED
  BY <1>2, <1>3, <1>5

LEMMA PowerGrows ==
  ASSUME NEW n \in Nat, NEW k \in Nat, n <= k
  PROVE  2^n <= 2^k
<1>. DEFINE S == {d \in Nat : 2^n <= 2^(n + d)}
<1>1. 0 \in S
  BY PowerSteps
<1>2. ASSUME NEW d \in Nat, d \in S PROVE d + 1 \in S
  <2>1. 2^(n + d + 1) = 2 * 2^(n + d) /\ 2^(n + d) \in Nat /\ 2^n \in Nat /\ n + d \in Nat
    BY PowerSteps
  <2>2. n + (d + 1) = n + d + 1
    OBVIOUS
  <2> QED BY <1>2, <2>1, <2>2
<1>3. k - n \in S
  <2>1. k - n \in Nat
    OBVIOUS
  <2>. HIDE DEF S
  <2> QED BY <1>1, <1>2, <2>1, SetInduction
<1> QED
  <2>1. n + (k - n) = k
    OBVIOUS
  <2> QED BY <1>3, <2>1

LEMMA Dividing ==
  ASSUME NEW a \in Nat, NEW n \in Nat \ {0}
  PROVE  a \div n \in Nat /\ a % n \in 0..(n - 1) /\ a = (n * (a \div n)) + (a % n) /\ 0 \div n = 0
BY NoneOfNone

LEMMA CountSteps ==
  ASSUME NEW c \in Nat, NEW n \in Nat \ {0}
  PROVE  /\ c % n \in 0..(n - 1)
         /\ (c + 1) % n = 0 => c % n = n - 1
         /\ (c + 1) % n # 0 => (c + 1) % n = (c % n) + 1
         /\ 0 % n = 0
<1>. DEFINE r == c % n
            k == c \div n
            e == (c + 1) % n
            l == (c + 1) \div n
<1>1. c = n * k + r /\ r \in 0..(n - 1) /\ k \in Nat
  BY Dividing
<1>2. c + 1 = n * l + e /\ e \in 0..(n - 1) /\ l \in Nat
  <2>1. c + 1 \in Nat
    OBVIOUS
  <2> QED BY <2>1, Dividing
<1>. HIDE DEF r, k, e, l
<1>3. n * (l - k) = r + 1 - e
  BY <1>1, <1>2
<1>. DEFINE d == l - k
<1>4. d \in Int /\ n * d <= n /\ n * d > - n
  BY <1>1, <1>2, <1>3
<1>. HIDE DEF d
<1>5. d <= 1 /\ d >= 0
  BY <1>4
<1>6. d \in {0, 1}
  BY <1>4, <1>5
<1>7. n * d = r + 1 - e
  BY <1>3 DEF d
<1>8. \/ e = r + 1
      \/ n = r + 1 - e
  BY <1>1, <1>2, <1>6, <1>7
<1>9. /\ r \in 0..(n - 1)
      /\ e = 0 => r = n - 1
      /\ e # 0 => e = r + 1
  BY <1>1, <1>2, <1>8
<1> QED
  BY <1>9 DEF r, e

\* What One is divided into.
LEMMA Units ==
  ASSUME scenario \in Scenarios
  PROVE  /\ One \div scenario.period \in Nat /\ One \div scenario.period >= 2 * 2^scenario.pushes
         /\ 0 \div scenario.period = 0
         /\ One \in Nat \ {0} /\ One \div 2 >= 2^scenario.pushes
<1>. DEFINE n == scenario.period
            w == 2^scenario.pushes
            d == One \div n
            r == One % n
<1>1. n \in Nat \ {0} /\ One \in Nat \ {0} /\ w \in Nat \ {0} /\ One >= 2 * n * w
  BY StepAssumption, PowerSteps
<1>. HIDE DEF n, w
<1>2. d \in Nat /\ One = n * d + r /\ r \in 0..(n - 1) /\ 0 \div n = 0
  BY <1>1, Dividing
<1>. HIDE DEF d, r
<1>3. d >= 2 * w
  <2>. SUFFICES ASSUME d < 2 * w PROVE FALSE
    BY <1>1, <1>2
  <2>1. d + 1 <= 2 * w /\ d + 1 \in Nat /\ 2 * w \in Nat
    BY <1>1, <1>2
  <2>2. n * (d + 1) <= n * (2 * w)
    BY <1>1, <2>1
  <2>3. n * (d + 1) = n * d + n /\ n * (2 * w) = 2 * n * w
    BY <1>1, <1>2
  <2>4. n * d \in Nat /\ 2 * n * w \in Nat
    BY <1>1, <1>2
  <2> QED BY <1>1, <1>2, <2>2, <2>3, <2>4
<1>4. One \div 2 >= w
  <2>1. n * w >= w /\ n * w \in Nat
    BY <1>1
  <2>2. 2 * n * w = 2 * (n * w)
    BY <1>1
  <2>3. One >= 2 * w
    BY <1>1, <2>1, <2>2
  <2> QED BY <1>1, <2>3
<1> QED
  BY <1>1, <1>2, <1>3, <1>4 DEF n, w, d

-----------------------------------------------------------------------------
(* The outer steps: what a step does to the jobs. *)

\* What each step does to its handler's job, and to no other.
Others(th) == \A h \in Handlers \ {th} : job'[h] = job[h]

LEMMA JobShapes ==
  ASSUME JobsInv
  PROVE  /\ DOMAIN job = Handlers
         /\ \A th \in Handlers :
              job[th] = [phase |-> job[th].phase, batch |-> job[th].batch, at |-> job[th].at, read |-> job[th].read]
         /\ scenario \in Scenarios /\ pushes \in Seq(Push) /\ DOMAIN pushes = 1..Len(pushes) /\ Len(pushes) \in Nat
         /\ \A th \in Handlers : Busy(th) =>
              /\ job[th].batch \in Seq(DOMAIN pushes) /\ job[th].at \in 1..Len(job[th].batch)
              /\ Len(job[th].batch) \in Nat
              /\ \A i \in 1..Len(job[th].batch) : job[th].batch[i] \in DOMAIN pushes
         /\ ~scenario.grace => \A th, other \in Handlers : Busy(th) /\ Busy(other) => th = other
<1>1. /\ job = [th \in Handlers |-> [phase |-> job[th].phase, batch |-> job[th].batch, at |-> job[th].at, read |-> job[th].read]]
      /\ scenario \in Scenarios /\ pushes \in Seq(Push)
      /\ \A th \in Handlers : Busy(th) =>
           job[th].batch \in Seq(DOMAIN pushes) /\ job[th].at \in 1..Len(job[th].batch)
      /\ ~scenario.grace => \A th, other \in Handlers : Busy(th) /\ Busy(other) => th = other
  BY DEF JobsInv
<1>2. DOMAIN pushes = 1..Len(pushes) /\ Len(pushes) \in Nat
  BY <1>1
<1>3. DOMAIN job = Handlers /\ \A th \in Handlers :
        job[th] = [phase |-> job[th].phase, batch |-> job[th].batch, at |-> job[th].at, read |-> job[th].read]
  BY <1>1
<1>4. ASSUME NEW th \in Handlers, Busy(th)
      PROVE  Len(job[th].batch) \in Nat /\ \A i \in 1..Len(job[th].batch) : job[th].batch[i] \in DOMAIN pushes
  BY <1>1, <1>4
<1> QED
  BY <1>1, <1>2, <1>3, <1>4

LEMMA CommitMoves ==
  ASSUME JobsInv, NEW th \in Handlers, CommitPush(th)
  PROVE  /\ Busy(th) /\ job[th].phase \in {"received", "corrected"} /\ Others(th) /\ DOMAIN job' = Handlers
         /\ job'[th].batch = job[th].batch /\ job'[th].read = job[th].read
         /\ job[th].at = Len(job[th].batch) => job'[th].phase = "applied" /\ job'[th].at = job[th].at
         /\ job[th].at # Len(job[th].batch) => job'[th].phase = "received" /\ job'[th].at = job[th].at + 1
<1>1. /\ job[th].phase \in {"corrected", "received"}
      /\ job' = [job EXCEPT ![th].phase = IF job[th].at = Len(job[th].batch) THEN "applied" ELSE "received",
                            ![th].at = IF job[th].at = Len(job[th].batch) THEN @ ELSE @ + 1]
  BY DEF CommitPush
<1>2. DOMAIN job = Handlers
      /\ job[th] = [phase |-> job[th].phase, batch |-> job[th].batch, at |-> job[th].at, read |-> job[th].read]
  BY JobShapes
<1>3. Others(th) /\ DOMAIN job' = Handlers
  BY <1>1, <1>2 DEF Others
<1>. DEFINE a == IF job[th].at = Len(job[th].batch) THEN "applied" ELSE "received"
            b == IF job[th].at = Len(job[th].batch) THEN job[th].at ELSE job[th].at + 1
<1>4. job'[th] = [job[th] EXCEPT !.phase = a, !.at = b]
  BY <1>1, <1>2
<1>5. job'[th].batch = job[th].batch /\ job'[th].read = job[th].read /\ job'[th].phase = a /\ job'[th].at = b
  <2>. HIDE DEF a, b
  <2> QED BY <1>2, <1>4
<1> QED
  BY <1>1, <1>3, <1>5 DEF Busy

LEMMA ReadMoves ==
  ASSUME JobsInv, NEW th \in Handlers, ReadMomentum(th)
  PROVE  /\ Busy(th) /\ job[th].phase = "received" /\ Others(th) /\ DOMAIN job' = Handlers /\ ReadsFirst(Present(th))
         /\ job'[th].batch = job[th].batch /\ job'[th].read = Momentum(Present(th))
         /\ job'[th].phase = "corrected" /\ job'[th].at = job[th].at
         /\ UNCHANGED <<scenario, theta, own, second, pushes, disk, restarts, base>>
<1>1. /\ job[th].phase = "received" /\ ReadsFirst(Present(th))
      /\ UNCHANGED <<scenario, theta, own, second, pushes, disk, restarts, base>>
      /\ job' = [job EXCEPT ![th].phase = "corrected", ![th].read = Momentum(Present(th))]
  BY DEF ReadMomentum, MomentumRead
<1>2. DOMAIN job = Handlers
      /\ job[th] = [phase |-> job[th].phase, batch |-> job[th].batch, at |-> job[th].at, read |-> job[th].read]
  BY JobShapes
<1>3. Others(th) /\ DOMAIN job' = Handlers
  BY <1>1, <1>2 DEF Others
<1>. DEFINE r == Momentum(Present(th))
<1>4. job'[th] = [job[th] EXCEPT !.phase = "corrected", !.read = r]
  BY <1>1, <1>2
<1>5. job'[th].batch = job[th].batch /\ job'[th].read = r /\ job'[th].phase = "corrected" /\ job'[th].at = job[th].at
  <2>. HIDE DEF r
  <2> QED BY <1>2, <1>4
<1> QED
  BY <1>1, <1>3, <1>5 DEF Busy

LEMMA FinishMoves ==
  ASSUME JobsInv, NEW th \in Handlers, Finish(th)
  PROVE  /\ Busy(th) /\ job[th].phase = "applied" /\ Others(th) /\ DOMAIN job' = Handlers /\ job'[th] = Idle
         /\ disk' \in {disk, Saved} /\ UNCHANGED <<scenario, theta, own, second, pushes, restarts, base>>
<1>1. /\ job[th].phase = "applied" /\ job' = [job EXCEPT ![th] = Idle]
      /\ disk' \in {disk, Saved} /\ UNCHANGED <<scenario, theta, own, second, pushes, restarts, base>>
  BY DEF Finish
<1>2. DOMAIN job = Handlers
  BY JobShapes
<1> QED
  BY <1>1, <1>2 DEF Busy, Others

\* What is received, and by whom.
LEMMA BeginMoves ==
  ASSUME JobsInv, NEW th \in Handlers, Begin(th)
  PROVE  \E batch \in Seq(Arriving) :
           /\ Len(batch) \in {1, 2} /\ (Len(batch) = 2 => scenario.grace) /\ pushes' = pushes \o batch
           /\ Len(pushes) + Len(batch) <= scenario.pushes
           /\ job'[th] = [phase |-> "received", batch |-> [i \in 1..Len(batch) |-> Len(pushes) + i], at |-> 1, read |-> <<>>]
           /\ Others(th) /\ DOMAIN job' = Handlers /\ ~Busy(th) /\ (scenario.grace \/ \A h \in Handlers : ~Busy(h))
           /\ UNCHANGED <<scenario, theta, own, second, disk, restarts, base>>
<1>1. PICK batch \in {<<p>> : p \in Arriving} \cup (IF scenario.grace THEN Arriving \X Arriving ELSE {}) :
        /\ Len(pushes) + Len(batch) <= scenario.pushes
        /\ pushes' = pushes \o batch
        /\ job' = [job EXCEPT ![th] = [Idle EXCEPT !.phase = "received",
                                                   !.batch = [i \in DOMAIN batch |-> Len(pushes) + i]]]
  BY DEF Begin
<1>2. batch \in Seq(Arriving) /\ Len(batch) \in {1, 2} /\ (Len(batch) = 2 => scenario.grace)
  <2>1. CASE \E p \in Arriving : batch = <<p>>
    BY <2>1
  <2>2. CASE scenario.grace /\ batch \in Arriving \X Arriving
    <3>1. PICK p \in Arriving, q \in Arriving : batch = <<p, q>>
      BY <2>2
    <3> QED
      BY <2>2, <3>1
  <2> QED
    BY <2>1, <2>2
<1>3. ~Busy(th) /\ (scenario.grace \/ \A h \in Handlers : ~Busy(h)) /\ UNCHANGED <<scenario, theta, own, second, disk, restarts, base>>
  BY DEF Begin, MayBegin
<1>4. DOMAIN job = Handlers
  BY JobShapes
<1>. DEFINE b == [i \in 1..Len(batch) |-> Len(pushes) + i]
            e == [phase |-> "received", batch |-> b, at |-> 1, read |-> <<>>]
<1>5. [Idle EXCEPT !.phase = "received", !.batch = [i \in DOMAIN batch |-> Len(pushes) + i]] = e
  <2>1. [i \in DOMAIN batch |-> Len(pushes) + i] = b
    BY <1>2
  <2>. HIDE DEF b
  <2>2. [Idle EXCEPT !.phase = "received"] = [phase |-> "received", batch |-> <<>>, at |-> 1, read |-> <<>>]
    BY DEF Idle
  <2>3. [[phase |-> "received", batch |-> <<>>, at |-> 1, read |-> <<>>] EXCEPT !.batch = b]
          = [phase |-> "received", batch |-> b, at |-> 1, read |-> <<>>]
    OBVIOUS
  <2>4. [Idle EXCEPT !.phase = "received", !.batch = b] = [[Idle EXCEPT !.phase = "received"] EXCEPT !.batch = b]
    OBVIOUS
  <2>5. [Idle EXCEPT !.phase = "received", !.batch = b] = e
    BY <2>2, <2>3, <2>4
  <2>. HIDE DEF e
  <2> QED BY <2>1, <2>5, Zenon
<1>. HIDE DEF b, e
<1>6. job' = [job EXCEPT ![th] = e]
  BY <1>1, <1>5
<1>7. job'[th] = e /\ Others(th) /\ DOMAIN job' = Handlers
  BY <1>4, <1>6 DEF Others
<1> QED
  BY <1>1, <1>2, <1>3, <1>7 DEF e, b

-----------------------------------------------------------------------------
(* The outer steps: the order of pushes. *)

LEMMA ScenarioStays ==
  ASSUME StepsNext
  PROVE  scenario' = scenario
BY DEF StepsNext, Begin, ReadMomentum, CommitPush, Finish, RestartFromDisk

\* What can arrive is a push; a received one stays where it is.
LEMMA Received ==
  ASSUME JobsInv, NEW batch \in Seq(Arriving), pushes' = pushes \o batch
  PROVE  /\ Len(pushes') = Len(pushes) + Len(batch) /\ DOMAIN pushes' = 1..Len(pushes')
         /\ Len(pushes') \in Nat /\ Len(batch) \in Nat
         /\ \A p \in DOMAIN pushes : p \in DOMAIN pushes' /\ pushes'[p] = pushes[p]
         /\ \A i \in 1..Len(batch) : Len(pushes) + i \in DOMAIN pushes' /\ pushes'[Len(pushes) + i] = batch[i]
                                     /\ batch[i] \in Arriving
<1>1. pushes \in Seq(Push) /\ DOMAIN pushes = 1..Len(pushes) /\ Len(pushes) \in Nat /\ Len(batch) \in Nat
  BY JobShapes
<1>2. Len(pushes') = Len(pushes) + Len(batch) /\ DOMAIN pushes' = 1..Len(pushes')
  BY <1>1
<1>3. \A p \in 1..Len(pushes) : p \in 1..Len(pushes') /\ pushes'[p] = pushes[p]
  BY <1>1, <1>2
<1>4. \A i \in 1..Len(batch) : Len(pushes) + i \in 1..Len(pushes') /\ pushes'[Len(pushes) + i] = batch[i]
                               /\ batch[i] \in Arriving
  BY <1>1, <1>2
<1> QED
  BY <1>1, <1>2, <1>3, <1>4

LEMMA OrderKept ==
  ASSUME JobsInv, OrderInv, StepsNext
  PROVE  OrderInv'
<1>0. scenario' = scenario /\ \A p \in DOMAIN pushes : p \in DOMAIN pushes' /\ pushes'[p] = pushes[p]
  <2>1. ASSUME NEW th \in Handlers, Begin(th) PROVE \A p \in DOMAIN pushes : p \in DOMAIN pushes' /\ pushes'[p] = pushes[p]
    BY <2>1, BeginMoves, Received
  <2>2. StepsNext => UNCHANGED pushes \/ \E th \in Handlers : Begin(th)
    BY DEF StepsNext, ReadMomentum, CommitPush, Finish, RestartFromDisk
  <2> QED BY <2>1, <2>2, ScenarioStays
<1>r. ASSUME NEW p \in DOMAIN pushes PROVE ReadsFirst(p)' <=> ReadsFirst(p)
  BY <1>0 DEF ReadsFirst, IsDiloco, GetsCorrection
<1>. DEFINE Apart(b, c) == \A i \in 1..Len(b), j \in 1..Len(c) : b[i] # c[j]
            Single(b) == \A i, j \in 1..Len(b) : i # j => b[i] # b[j]
            Fine(th) == /\ Single(job[th].batch)
                        /\ ~scenario.grace => Len(job[th].batch) = 1 /\ job[th].batch[1] = Len(pushes)
                        /\ job[th].phase = "corrected" => ReadsFirst(Present(th))
<1>o. /\ OrderInv <=> \A th \in Handlers : Busy(th) =>
           Fine(th) /\ \A other \in Handlers : other # th /\ Busy(other) => Apart(job[th].batch, job[other].batch)
      /\ OrderInv' <=> \A th \in Handlers : Busy(th)' =>
           Fine(th)' /\ \A other \in Handlers : other # th /\ Busy(other)' => Apart(job'[th].batch, job'[other].batch)
  BY DEF OrderInv
<1>p. ASSUME NEW th \in Handlers, Busy(th) PROVE Present(th) \in DOMAIN pushes
  BY <1>p, JobShapes DEF Present
\* A handler that goes on with its batch.
<1>g. ASSUME NEW th \in Handlers, Busy(th), Others(th), UNCHANGED pushes, Busy(th)' => job'[th].batch = job[th].batch,
             job'[th].phase = "corrected" => ReadsFirst(Present(th))'
      PROVE  OrderInv'
  <2>1. \A h \in Handlers : Busy(h)' => Busy(h) /\ job'[h].batch = job[h].batch
    BY <1>g DEF Others, Busy
  <2>2. ASSUME NEW h \in Handlers, Busy(h)' PROVE Fine(h)'
    <3>1. Busy(h) /\ job'[h].batch = job[h].batch /\ Fine(h)
      BY <1>o, <2>1, <2>2
    <3>2. job'[h].phase = "corrected" => ReadsFirst(Present(h))'
      <4>1. CASE h = th
        BY <1>g, <4>1
      <4>2. CASE h # th
        <5>1. job'[h] = job[h] /\ Present(h)' = Present(h)
          BY <1>g, <4>2 DEF Others, Present
        <5>2. job[h].phase = "corrected" => ReadsFirst(Present(h))
          BY <3>1
        <5> QED BY <1>p, <1>r, <3>1, <5>1, <5>2
      <4> QED BY <4>1, <4>2
    <3> QED BY <1>0, <1>g, <3>1, <3>2
  <2>. HIDE DEF Fine, Apart
  <2>3. ASSUME NEW h \in Handlers, NEW other \in Handlers, other # h, Busy(h)', Busy(other)'
        PROVE  Apart(job'[h].batch, job'[other].batch)
    <3>1. Busy(h) /\ Busy(other) /\ job'[h].batch = job[h].batch /\ job'[other].batch = job[other].batch
      BY <2>1, <2>3
    <3>2. Apart(job[h].batch, job[other].batch)
      BY <1>o, <2>3, <3>1
    <3> QED BY <3>1, <3>2
  <2> QED BY <1>o, <2>2, <2>3
<1>1. ASSUME NEW th \in Handlers, Begin(th) PROVE OrderInv'
  <2>1. PICK batch \in Seq(Arriving) :
           /\ Len(batch) \in {1, 2} /\ (Len(batch) = 2 => scenario.grace) /\ pushes' = pushes \o batch
           /\ job'[th] = [phase |-> "received", batch |-> [i \in 1..Len(batch) |-> Len(pushes) + i], at |-> 1, read |-> <<>>]
           /\ Others(th) /\ ~Busy(th) /\ (scenario.grace \/ \A h \in Handlers : ~Busy(h))
    BY <1>1, BeginMoves
  <2>2. Len(pushes') = Len(pushes) + Len(batch) /\ DOMAIN pushes = 1..Len(pushes) /\ Len(pushes) \in Nat
    BY <2>1, Received, JobShapes
  <2>. DEFINE b == [i \in 1..Len(batch) |-> Len(pushes) + i]
  <2>3. job'[th].batch = b /\ job'[th].phase = "received" /\ Len(b) = Len(batch)
        /\ \A i \in 1..Len(b) : b[i] = Len(pushes) + i
    BY <2>1
  <2>. HIDE DEF b
  <2>4. Fine(th)'
    BY <1>0, <2>1, <2>2, <2>3
  <2>5. ASSUME NEW h \in Handlers, h # th, Busy(h)' PROVE Fine(h)' /\ Apart(job'[h].batch, b) /\ Apart(b, job'[h].batch)
    <3>1. job'[h] = job[h] /\ Busy(h) /\ scenario.grace /\ Fine(h) /\ Present(h)' = Present(h)
      BY <1>o, <2>1, <2>5 DEF Others, Busy, Present
    <3>2. \A i \in 1..Len(job[h].batch) : job[h].batch[i] \in 1..Len(pushes)
      BY <2>2, <3>1, JobShapes
    <3>3. Apart(job'[h].batch, b) /\ Apart(b, job'[h].batch)
      BY <2>2, <2>3, <3>1, <3>2
    <3>4. job'[h].phase = "corrected" => ReadsFirst(Present(h))'
      BY <1>p, <1>r, <3>1
    <3> QED BY <1>0, <3>1, <3>3, <3>4
  <2>6. ASSUME NEW h \in Handlers, NEW other \in Handlers, h # th, other # th, other # h, Busy(h)', Busy(other)'
        PROVE  Apart(job'[h].batch, job'[other].batch)
    <3>1. job'[h] = job[h] /\ Busy(h) /\ job'[other] = job[other] /\ Busy(other)
      BY <2>1, <2>6 DEF Others, Busy
    <3>. HIDE DEF Fine, Apart
    <3> QED BY <1>o, <2>6, <3>1
  <2>. HIDE DEF Fine, Apart
  <2> QED BY <1>o, <2>3, <2>4, <2>5, <2>6
<1>2. ASSUME NEW th \in Handlers, ReadMomentum(th) PROVE OrderInv'
  <2>1. /\ Busy(th) /\ Others(th) /\ ReadsFirst(Present(th)) /\ UNCHANGED pushes
        /\ job'[th].batch = job[th].batch /\ job'[th].at = job[th].at
    BY <1>2, ReadMoves
  <2>2. Present(th)' = Present(th)
    BY <2>1 DEF Present
  <2>3. ReadsFirst(Present(th))'
    BY <1>p, <1>r, <2>1, <2>2
  <2>. HIDE DEF Fine, Apart
  <2> QED BY <1>g, <2>1, <2>3
<1>3. ASSUME NEW th \in Handlers, CommitPush(th) PROVE OrderInv'
  <2>1. /\ Busy(th) /\ Others(th) /\ UNCHANGED pushes /\ job'[th].batch = job[th].batch
        /\ job'[th].phase \in {"applied", "received"}
    BY <1>3, CommitMoves, CommitSteps
  <2>. HIDE DEF Fine, Apart
  <2> QED BY <1>g, <2>1
<1>4. ASSUME NEW th \in Handlers, Finish(th) PROVE OrderInv'
  <2>1. Busy(th) /\ Others(th) /\ UNCHANGED pushes /\ job'[th].phase = "idle" /\ ~Busy(th)'
    BY <1>4, FinishMoves DEF Idle, Busy
  <2>. HIDE DEF Fine, Apart
  <2> QED BY <1>g, <2>1
<1>5. CASE RestartFromDisk
  <2>1. \A h \in Handlers : ~Busy(h)'
    BY <1>5 DEF RestartFromDisk, Idle, Busy
  <2> QED BY <2>1 DEF OrderInv
<1> QED
  BY <1>1, <1>2, <1>3, <1>4, <1>5 DEF StepsNext

-----------------------------------------------------------------------------
(* The outer steps: what is committed. *)

LEMMA Counting ==
  ASSUME JobsInv, ArrivedInv
  PROVE  /\ DOMAIN pushes \subseteq Ids /\ Committed \subseteq DOMAIN pushes
         /\ IsFiniteSet(Committed) /\ Cardinality(Committed) \in Nat /\ Cardinality(Committed) <= Len(pushes)
         /\ Left \in Nat /\ scenario.pushes \in Nat /\ Left <= scenario.pushes
         /\ Lasting \in Nat \ {0} /\ Lasting <= 2^scenario.pushes
<1>1. /\ scenario.pushes \in Nat /\ Len(pushes) \in Nat /\ DOMAIN pushes = 1..Len(pushes)
      /\ Len(pushes) <= scenario.pushes
  BY JobShapes, StepAssumption DEF ArrivedInv
<1>2. DOMAIN pushes \subseteq Ids /\ Committed \subseteq DOMAIN pushes
  BY <1>1 DEF Ids, Committed
<1>3. IsFiniteSet(1..Len(pushes)) /\ Cardinality(1..Len(pushes)) = Len(pushes)
  <2>1. ASSUME NEW n \in Nat PROVE IsFiniteSet(1..n) /\ Cardinality(1..n) = n
    BY FS_Interval
  <2> QED BY <1>1, <2>1
<1>4. IsFiniteSet(Committed) /\ Cardinality(Committed) <= Len(pushes)
  BY <1>1, <1>2, <1>3, FS_Subset
<1>5. Cardinality(Committed) \in Nat
  BY <1>4, FS_CardinalityType
<1>6. Left \in Nat /\ Left <= scenario.pushes
  BY <1>1, <1>4, <1>5 DEF Left
<1>7. Lasting \in Nat \ {0} /\ Lasting <= 2^scenario.pushes
  BY <1>1, <1>6, PowerSteps, PowerGrows DEF Lasting
<1> QED
  BY <1>1, <1>2, <1>4, <1>5, <1>6, <1>7

\* A handler commits its present push and no other; a restart commits nothing, but
\* what was under way is lost.
LEMMA CommitCounts ==
  ASSUME JobsInv, OrderInv, NEW th \in Handlers, CommitPush(th)
  PROVE  /\ Present(th) \in DOMAIN pushes /\ Present(th) \notin Committed
         /\ Committed' = Committed \cup {Present(th)}
<1>. DEFINE p == Present(th)
            b == job[th].batch
            n == job[th].at
<1>1. /\ Busy(th) /\ job[th].phase \in {"received", "corrected"} /\ Others(th)
      /\ job'[th].batch = b
      /\ n = Len(b) => job'[th].phase = "applied" /\ job'[th].at = n
      /\ n # Len(b) => job'[th].phase = "received" /\ job'[th].at = n + 1
  BY CommitMoves
<1>2. /\ n \in 1..Len(b) /\ Len(b) \in Nat /\ b \in Seq(DOMAIN pushes)
      /\ \A i \in 1..Len(b) : b[i] \in DOMAIN pushes
  BY <1>1, JobShapes
<1>3. pushes' = pushes /\ p \in DOMAIN pushes /\ p = b[n]
  BY CommitSteps DEF Present
<1>4. /\ \A i, j \in 1..Len(b) : i # j => b[i] # b[j]
      /\ \A other \in Handlers : other # th /\ Busy(other) =>
           \A i \in 1..Len(b), j \in 1..Len(job[other].batch) : b[i] # job[other].batch[j]
  BY <1>1 DEF OrderInv
<1>. HIDE DEF b, n, p
<1>5. Waiting(th) = {b[i] : i \in n..Len(b)}
  BY <1>1 DEF Waiting, b, n
<1>6. Waiting(th)' = Waiting(th) \ {p} /\ p \in Waiting(th)
  <2>1. CASE n = Len(b)
    <3>1. Waiting(th)' = {}
      BY <1>1, <2>1 DEF Waiting
    <3>2. Waiting(th) = {p}
      BY <1>2, <1>3, <1>5, <2>1
    <3> QED BY <3>1, <3>2
  <2>2. CASE n # Len(b)
    <3>1. Waiting(th)' = {b[i] : i \in (n + 1)..Len(b)}
      BY <1>1, <2>2 DEF Waiting
    <3>2. \A i \in n..Len(b) : i \in 1..Len(b) /\ (b[i] = p <=> i = n)
      BY <1>2, <1>3, <1>4
    <3>3. \A i \in n..Len(b) : i # n <=> i \in (n + 1)..Len(b)
      BY <1>2
    <3>4. \A i \in (n + 1)..Len(b) : i \in n..Len(b)
      BY <1>2
    <3>5. n \in n..Len(b)
      BY <1>2
    <3> QED BY <1>3, <1>5, <3>1, <3>2, <3>3, <3>4, <3>5
  <2> QED BY <2>1, <2>2
<1>7. ASSUME NEW h \in Handlers, h # th PROVE Waiting(h)' = Waiting(h) /\ p \notin Waiting(h)
  <2>1. Waiting(h)' = Waiting(h)
    BY <1>1, <1>7 DEF Waiting, Others
  <2>2. p \notin Waiting(h)
    <3>. SUFFICES ASSUME NEW i \in job[h].at..Len(job[h].batch), job[h].phase \in {"received", "corrected"}
                  PROVE  job[h].batch[i] # p
      BY DEF Waiting
    <3>1. Busy(h) /\ job[h].at \in 1..Len(job[h].batch) /\ Len(job[h].batch) \in Nat
      <4>1. Busy(h)
        BY DEF Busy
      <4> QED BY <4>1, JobShapes
    <3>2. i \in 1..Len(job[h].batch)
      BY <3>1
    <3> QED BY <1>2, <1>3, <1>4, <1>7, <3>1, <3>2
  <2> QED BY <2>1, <2>2
<1>8. UNION {Waiting(h)' : h \in Handlers} = (UNION {Waiting(h) : h \in Handlers}) \ {p}
  <2>1. \A x : (\E h \in Handlers : x \in Waiting(h)') <=> (\E h \in Handlers : x \in Waiting(h)) /\ x # p
    BY <1>6, <1>7
  <2> QED BY <2>1
<1>9. p \in UNION {Waiting(h) : h \in Handlers}
  BY <1>6
<1> QED
  BY <1>3, <1>8, <1>9 DEF Committed, p

LEMMA RestCounts ==
  ASSUME JobsInv, NEW th \in Handlers, Begin(th) \/ ReadMomentum(th) \/ Finish(th)
  PROVE  Committed' = Committed
<1>1. ASSUME Others(th), pushes' = pushes, Waiting(th)' = Waiting(th) PROVE Committed' = Committed
  <2>1. \A h \in Handlers \ {th} : Waiting(h)' = Waiting(h)
    BY <1>1 DEF Others, Waiting
  <2>2. \A h \in Handlers : Waiting(h)' = Waiting(h)
    BY <1>1, <2>1
  <2> QED BY <1>1, <2>2 DEF Committed
<1>2. CASE ReadMomentum(th)
  <2>1. /\ job[th].phase = "received" /\ Others(th) /\ job'[th].batch = job[th].batch
        /\ job'[th].phase = "corrected" /\ job'[th].at = job[th].at /\ pushes' = pushes
    BY <1>2, ReadMoves
  <2>2. Waiting(th)' = Waiting(th)
    BY <2>1 DEF Waiting
  <2> QED BY <1>1, <2>1, <2>2
<1>3. CASE Finish(th)
  <2>1. job[th].phase = "applied" /\ Others(th) /\ job'[th] = Idle /\ pushes' = pushes
    BY <1>3, FinishMoves
  <2>2. Waiting(th)' = Waiting(th)
    BY <2>1 DEF Waiting, Idle
  <2> QED BY <1>1, <2>1, <2>2
<1>4. CASE Begin(th)
  <2>1. PICK batch \in Seq(Arriving) :
           /\ pushes' = pushes \o batch
           /\ job'[th] = [phase |-> "received", batch |-> [i \in 1..Len(batch) |-> Len(pushes) + i], at |-> 1, read |-> <<>>]
           /\ Others(th) /\ ~Busy(th)
    BY <1>4, BeginMoves
  <2>2. /\ Len(pushes') = Len(pushes) + Len(batch) /\ DOMAIN pushes' = 1..Len(pushes') /\ Len(batch) \in Nat
        /\ DOMAIN pushes = 1..Len(pushes) /\ Len(pushes) \in Nat
    BY <2>1, Received, JobShapes
  <2>3. Waiting(th) = {}
    BY <2>1 DEF Waiting, Busy
  <2>. DEFINE b == [i \in 1..Len(batch) |-> Len(pushes) + i]
  <2>4. Waiting(th)' = (Len(pushes) + 1)..(Len(pushes) + Len(batch))
    <3>1. job'[th].batch = b /\ job'[th].phase = "received" /\ job'[th].at = 1
      BY <2>1
    <3>2. Len(b) = Len(batch) /\ \A i \in 1..Len(batch) : b[i] = Len(pushes) + i
      BY <2>2
    <3>. HIDE DEF b
    <3>3. Waiting(th)' = {b[i] : i \in 1..Len(batch)}
      BY <3>1, <3>2 DEF Waiting
    <3>4. \A x \in (Len(pushes) + 1)..(Len(pushes) + Len(batch)) :
            x - Len(pushes) \in 1..Len(batch) /\ Len(pushes) + (x - Len(pushes)) = x
      BY <2>2
    <3>5. \A i \in 1..Len(batch) : Len(pushes) + i \in (Len(pushes) + 1)..(Len(pushes) + Len(batch))
      BY <2>2
    <3>6. ASSUME NEW x \in Waiting(th)' PROVE x \in (Len(pushes) + 1)..(Len(pushes) + Len(batch))
      <4>1. PICK i \in 1..Len(batch) : x = b[i]
        BY <3>3, <3>6
      <4> QED BY <3>2, <3>5, <4>1
    <3>7. ASSUME NEW x \in (Len(pushes) + 1)..(Len(pushes) + Len(batch)) PROVE x \in Waiting(th)'
      <4>1. x - Len(pushes) \in 1..Len(batch) /\ b[x - Len(pushes)] = x
        BY <3>2, <3>4
      <4> QED BY <3>3, <4>1
    <3> QED BY <3>6, <3>7
  <2>5. ASSUME NEW h \in Handlers, h # th PROVE Waiting(h)' = Waiting(h)
    BY <2>1, <2>5 DEF Others, Waiting
  <2>6. \A x : (\E h \in Handlers : x \in Waiting(h)') <=>
               (\E h \in Handlers : x \in Waiting(h)) \/ x \in Waiting(th)'
    BY <2>3, <2>5
  <2>7. \A x : x \in DOMAIN pushes' <=> x \in DOMAIN pushes \/ x \in Waiting(th)'
    BY <2>2, <2>4
  <2>8. \A x \in DOMAIN pushes : x \notin Waiting(th)'
    BY <2>2, <2>4
  <2>9. Committed' = DOMAIN pushes' \ UNION {Waiting(h)' : h \in Handlers}
    BY DEF Committed
  <2>10. Committed = DOMAIN pushes \ UNION {Waiting(h) : h \in Handlers}
    BY DEF Committed
  <2>11. \A x : x \in Committed' <=> x \in DOMAIN pushes' /\ ~\E h \in Handlers : x \in Waiting(h)'
    BY <2>9
  <2>12. \A x : x \in Committed <=> x \in DOMAIN pushes /\ ~\E h \in Handlers : x \in Waiting(h)
    BY <2>10
  <2>. HIDE DEF Committed, Waiting
  <2>13. \A x : x \in Committed' <=> x \in Committed
    BY <2>6, <2>7, <2>8, <2>11, <2>12, Zenon
  <2>14. Committed' \subseteq DOMAIN pushes' /\ Committed \subseteq DOMAIN pushes
    BY <2>9, <2>10
  <2> QED BY <2>13
<1> QED
  BY <1>2, <1>3, <1>4

LEMMA RestartCounts ==
  ASSUME JobsInv, RestartFromDisk
  PROVE  Committed' = DOMAIN pushes /\ pushes' = pushes /\ Committed \subseteq DOMAIN pushes
<1>1. \A h \in Handlers : Waiting(h)' = {}
  BY DEF RestartFromDisk, Idle, Waiting
<1> QED
  BY <1>1 DEF RestartFromDisk, Committed

LEMMA CountingMoves ==
  ASSUME JobsInv, JobsInv', ArrivedInv, ArrivedInv', OrderInv, StepsNext
  PROVE  /\ Committed \subseteq Committed'
         /\ Lasting' \in Nat \ {0} /\ Lasting' <= Lasting
         /\ \A th \in Handlers : CommitPush(th) =>
              Cardinality(Committed') = Cardinality(Committed) + 1 /\ Lasting = 2 * Lasting'
<1>1. /\ IsFiniteSet(Committed) /\ Cardinality(Committed) \in Nat /\ Left \in Nat /\ Lasting \in Nat \ {0}
      /\ scenario.pushes \in Nat
  BY Counting
<1>2. ASSUME Committed \subseteq Committed' PROVE Left' <= Left /\ Lasting' <= Lasting /\ Lasting' \in Nat \ {0} /\ Left' \in Nat
  <2>1. /\ Left' \in Nat /\ Lasting' \in Nat \ {0} /\ IsFiniteSet(Committed') /\ Cardinality(Committed') \in Nat
        /\ scenario' = scenario
    <3>1. scenario \in Scenarios /\ scenario' \in Scenarios
      BY JobShapes DEF JobsInv
    <3>2. (JobsInv /\ ArrivedInv)' => (Left \in Nat /\ Lasting \in Nat \ {0} /\ IsFiniteSet(Committed) /\ Cardinality(Committed) \in Nat)'
      BY Counting, PTL
    <3> QED BY <3>2, ScenarioStays
  <2>2. Cardinality(Committed) <= Cardinality(Committed')
    BY <1>2, <2>1, FS_Subset
  <2>3. Left' <= Left
    BY <1>1, <2>1, <2>2 DEF Left
  <2> QED BY <1>1, <2>1, <2>3, PowerGrows DEF Lasting
<1>3. ASSUME NEW th \in Handlers, CommitPush(th)
      PROVE  /\ Committed \subseteq Committed'
             /\ Cardinality(Committed') = Cardinality(Committed) + 1 /\ Lasting = 2 * Lasting'
  <2>1. Present(th) \notin Committed /\ Committed' = Committed \cup {Present(th)}
    BY <1>3, CommitCounts
  <2>2. Cardinality(Committed') = Cardinality(Committed) + 1
    BY <1>1, <2>1, FS_AddElement
  <2>3. Left = Left' + 1 /\ Left' \in Nat
    BY <1>1, <1>2, <2>1, <2>2, ScenarioStays DEF Left
  <2>4. Lasting = 2 * Lasting'
    BY <2>3, PowerSteps DEF Lasting
  <2> QED BY <2>1, <2>2, <2>4
<1>4. Committed \subseteq Committed'
  BY <1>3, RestCounts, RestartCounts DEF StepsNext
<1> QED
  BY <1>2, <1>3, <1>4

-----------------------------------------------------------------------------
(* The outer steps: what a commit does. *)

LEMMA ArrivedKept ==
  ASSUME JobsInv, ArrivedInv, StepsNext
  PROVE  ArrivedInv'
<1>1. ASSUME NEW th \in Handlers, Begin(th) PROVE ArrivedInv'
  <2>1. PICK batch \in Seq(Arriving) : pushes' = pushes \o batch /\ Len(pushes) + Len(batch) <= scenario.pushes
                                       /\ scenario' = scenario
    BY <1>1, BeginMoves
  <2>2. /\ Len(pushes') = Len(pushes) + Len(batch) /\ DOMAIN pushes' = 1..Len(pushes') /\ Len(batch) \in Nat
        /\ DOMAIN pushes = 1..Len(pushes) /\ Len(pushes) \in Nat
        /\ \A p \in DOMAIN pushes : pushes'[p] = pushes[p]
        /\ \A i \in 1..Len(batch) : pushes'[Len(pushes) + i] \in Arriving
    BY <2>1, Received, JobShapes
  <2>3. ASSUME NEW q \in Arriving
        PROVE  /\ scenario.method # "bayes" => q.zero = {}
               /\ scenario.grace => q.island = Unknown
    BY DEF Arriving
  <2>4. ASSUME NEW p \in DOMAIN pushes', p \notin DOMAIN pushes PROVE pushes'[p] \in Arriving
    <3>1. p - Len(pushes) \in 1..Len(batch) /\ Len(pushes) + (p - Len(pushes)) = p
      BY <2>2, <2>4
    <3> QED BY <2>2, <3>1
  <2> QED BY <2>1, <2>2, <2>3, <2>4 DEF ArrivedInv
<1>2. ASSUME UNCHANGED <<scenario, pushes>> PROVE ArrivedInv'
  BY <1>2 DEF ArrivedInv
<1> QED
  BY <1>1, <1>2 DEF StepsNext, ReadMomentum, CommitPush, Finish, RestartFromDisk

\* The tensors of a fragment are tensors; without fragments they are all.
LEMMA CoveredTensors ==
  ASSUME JobsInv, NEW p \in DOMAIN pushes
  PROVE  Covered(p) \subseteq Tensors /\ (scenario.fragments = 1 => Covered(p) = Tensors)
<1>. DEFINE q == scenario.numels
            k == scenario.fragments
            b == FragmentBounds(q, k)
            f == pushes[p].fragment
<1>1. q \in Seq(Nat) /\ k \in 1..Len(q) /\ Tensors = 1..Len(q) /\ Len(q) \in Nat
  BY JobShapes, StepAssumption DEF Tensors
<1>2. f \in 1..k
  <2>1. pushes \in Seq(Push) /\ DOMAIN pushes = 1..Len(pushes)
    BY JobShapes
  <2>2. pushes[p] \in Push
    BY <2>1
  <2> QED BY <2>2 DEF Push
<1>3. WholeFragments(q, k) /\ \A j \in 1..k : b[j] \in (0..Len(q)) \X (0..Len(q))
  BY <1>1, FragmentsWhole
<1>4. Covered(p) = (b[f][1] + 1)..b[f][2]
  BY DEF Covered, Members
<1>5. k = 1 => b[1][1] = 0 /\ b[1][2] = Len(q)
  BY <1>3 DEF WholeFragments, Covers
<1>. HIDE DEF q, k, b, f
<1>6. b[f][1] \in 0..Len(q) /\ b[f][2] \in 0..Len(q)
  BY <1>2, <1>3
<1>7. Covered(p) \subseteq Tensors
  BY <1>1, <1>4, <1>6
<1>8. k = 1 => Covered(p) = Tensors
  BY <1>1, <1>2, <1>4, <1>5
<1> QED
  BY <1>7, <1>8 DEF k

\* What a commit does to the model, to the optimizer that it steps and to the
\* model at that one's last milestone.
OneStep(name, o, n, b, c, p, gain) ==
  /\ n.count = o.count + 1 /\ n = [state |-> [t \in Tensors |-> n.state[t]], count |-> n.count]
  /\ c = [t \in Tensors |-> c[t]]
  /\ \A t \in Tensors :
       IF t \in Covered(p)
       THEN /\ theta'[t] = Stepped(name, o, t, Grad(p, t), gain).x
            /\ n.state[t] = Stepped(name, o, t, Grad(p, t), gain).s
            /\ c[t] = IF AtMilestone(o) THEN theta'[t] ELSE b[t]
       ELSE theta'[t] = theta[t] /\ n.state[t] = o.state[t] /\ c[t] = b[t]

CommitsTo(name, p, gain) ==
  /\ gain \in {1, 2} /\ theta' = [t \in Tensors |-> theta'[t]]
  /\ UNCHANGED <<scenario, pushes, disk, restarts>>
  /\ base' = [k \in {"own", "second"} |-> base'[k]]
  /\ name = "own" =>
       /\ OneStep(name, own, own', base["own"], base'["own"], p, gain)
       /\ second' = second /\ base'["second"] = base["second"] /\ ~IsDiloco(pushes[p].island)
  /\ name = "second" =>
       /\ OneStep(name, second, second', base["second"], base'["second"], p, gain)
       /\ own' = own /\ base'["own"] = base["own"] /\ IsDiloco(pushes[p].island)

LEMMA AfterIs ==
  ASSUME NEW name, NEW o, NEW p, NEW gain, o = [state |-> o.state, count |-> o.count]
  PROVE  /\ AfterPush(name, o, p, gain).count = o.count + 1
         /\ AfterPush(name, o, p, gain).state =
              [t \in Tensors |-> IF t \in Covered(p) THEN Stepped(name, o, t, Grad(p, t), gain).s ELSE o.state[t]]
         /\ AfterPush(name, o, p, gain) = [state |-> AfterPush(name, o, p, gain).state, count |-> o.count + 1]
<1>. DEFINE S == [t \in Tensors |-> IF t \in Covered(p) THEN Stepped(name, o, t, Grad(p, t), gain).s ELSE o.state[t]]
            n == AfterPush(name, o, p, gain)
<1>1. n = [[o EXCEPT !.state = S] EXCEPT !.count = @ + 1]
  BY DEF AfterPush, Counted
<1>. HIDE DEF S, n
<1>2. [o EXCEPT !.state = S] = [state |-> S, count |-> o.count]
  OBVIOUS
<1>3. n = [state |-> S, count |-> o.count + 1]
  BY <1>1, <1>2
<1>4. n.state = S /\ n.count = o.count + 1 /\ n = [state |-> n.state, count |-> o.count + 1]
  BY <1>3
<1> QED
  BY <1>4 DEF S, n

LEMMA CommitDoes ==
  ASSUME JobsInv, TypedInv, NEW th \in Handlers, CommitPush(th)
  PROVE  \E name \in {"own", "second"}, gain \in {1, 2} :
           name = OptimizerOf(Present(th)) /\ CommitsTo(name, Present(th), gain)
<1>. DEFINE p == Present(th)
            name == OptimizerOf(p)
            o == IF name = "own" THEN own ELSE second
            After(gain) == AfterPush(name, o, p, gain)
            x(gain) == [t \in Tensors |-> IF t \in Covered(p) THEN Stepped(name, o, t, Grad(p, t), gain).x ELSE theta[t]]
<1>1. PICK gain \in {1, 2} :
        LET step == [t \in Covered(p) |-> Stepped(name, o, t, Grad(p, t), gain)]
            next == Counted([o EXCEPT !.state = [t \in Tensors |-> IF t \in Covered(p) THEN step[t].s ELSE o.state[t]]])
            y == [t \in Tensors |-> IF t \in Covered(p) THEN step[t].x ELSE theta[t]]
        IN  /\ theta' = y
            /\ own' = (IF name = "own" THEN next ELSE own)
            /\ second' = (IF name = "second" THEN next ELSE second)
            /\ base' = [base EXCEPT ![name] = [t \in Tensors |-> IF t \in Covered(p) /\ AtMilestone(o) THEN y[t] ELSE @[t]]]
  BY DEF CommitPush
<1>2. /\ theta' = x(gain)
      /\ own' = (IF name = "own" THEN After(gain) ELSE own)
      /\ second' = (IF name = "second" THEN After(gain) ELSE second)
  BY <1>1 DEF AfterPush
<1>3. base' = [base EXCEPT ![name] = [t \in Tensors |-> IF t \in Covered(p) /\ AtMilestone(o) THEN theta'[t] ELSE @[t]]]
  BY <1>1
<1>4. name \in {"own", "second"} /\ (name = "own" <=> ~IsDiloco(pushes[p].island))
  BY DEF OptimizerOf
<1>5. UNCHANGED <<scenario, pushes, disk, restarts>>
  BY DEF CommitPush
<1>6. DOMAIN base = {"own", "second"} /\ own = [state |-> own.state, count |-> own.count]
      /\ second = [state |-> second.state, count |-> second.count]
      /\ base["own"] = [t \in Tensors |-> base["own"][t]] /\ base["second"] = [t \in Tensors |-> base["second"][t]]
  BY DEF TypedInv
<1>7. o = [state |-> o.state, count |-> o.count]
  BY <1>6
<1>8. /\ After(gain).count = o.count + 1
      /\ After(gain).state = [t \in Tensors |-> IF t \in Covered(p) THEN Stepped(name, o, t, Grad(p, t), gain).s ELSE o.state[t]]
      /\ After(gain) = [state |-> After(gain).state, count |-> o.count + 1]
  BY <1>7, AfterIs
<1>9. \A t \in Tensors : theta'[t] = IF t \in Covered(p) THEN Stepped(name, o, t, Grad(p, t), gain).x ELSE theta[t]
  BY <1>2
<1>10. theta' = [t \in Tensors |-> theta'[t]]
  BY <1>2
<1>11. /\ base' = [k \in {"own", "second"} |-> base'[k]]
       /\ base'[name] = [t \in Tensors |-> IF t \in Covered(p) /\ AtMilestone(o) THEN theta'[t] ELSE base[name][t]]
       /\ \A k \in {"own", "second"} : k # name => base'[k] = base[k]
  BY <1>3, <1>4, <1>6
<1>. HIDE DEF o, name, After, x, p
<1>12. OneStep(name, o, After(gain), base[name], base'[name], p, gain)
  <2>. DEFINE n == After(gain)
              c == base'[name]
  <2>1. n.count = o.count + 1 /\ n = [state |-> n.state, count |-> n.count]
    BY <1>8
  <2>2. \A t \in Tensors : n.state[t] = IF t \in Covered(p) THEN Stepped(name, o, t, Grad(p, t), gain).s ELSE o.state[t]
    BY <1>8
  <2>3. n.state = [t \in Tensors |-> n.state[t]]
    BY <1>8
  <2>4. c = [t \in Tensors |-> c[t]]
        /\ \A t \in Tensors : c[t] = IF t \in Covered(p) /\ AtMilestone(o) THEN theta'[t] ELSE base[name][t]
    BY <1>11
  <2>. HIDE DEF n, c
  <2>5. OneStep(name, o, n, base[name], c, p, gain)
    BY <1>9, <2>1, <2>2, <2>3, <2>4 DEF OneStep
  <2> QED BY <2>5 DEF n, c
<1>13. CASE name = "own"
  <2>1. own' = After(gain) /\ second' = second /\ o = own /\ base'["second"] = base["second"]
    BY <1>2, <1>11, <1>13 DEF o
  <2>2. OneStep("own", own, own', base["own"], base'["own"], p, gain)
    BY <1>12, <1>13, <2>1
  <2>3. CommitsTo(name, p, gain)
    BY <1>4, <1>5, <1>10, <1>11, <1>13, <2>1, <2>2 DEF CommitsTo
  <2> QED BY <1>4, <2>3 DEF name, p
<1>14. CASE name = "second"
  <2>1. second' = After(gain) /\ own' = own /\ o = second /\ base'["own"] = base["own"]
    BY <1>2, <1>11, <1>14 DEF o
  <2>2. OneStep("second", second, second', base["second"], base'["second"], p, gain)
    BY <1>12, <1>14, <2>1
  <2>3. CommitsTo(name, p, gain)
    BY <1>4, <1>5, <1>10, <1>11, <1>14, <2>1, <2>2 DEF CommitsTo
  <2> QED BY <1>4, <2>3 DEF name, p
<1> QED
  BY <1>4, <1>13, <1>14

-----------------------------------------------------------------------------
(* The outer steps: the rules, part by part. *)

State == [seen: BOOLEAN, m: Vector, buffer: Vector, sure: BOOLEAN]

LEMMA VectorsTyped ==
  ASSUME NEW x \in Vector, NEW y \in Vector, NEW n \in Nat \ {0}
  PROVE  Plus(x, y) \in Vector /\ Minus(x, y) \in Vector /\ Over(x, n) \in Vector /\ Half(x) \in Vector /\ Zero \in Vector
<1>1. \A p \in Ids : x[p] \in Int /\ y[p] \in Int
  BY DEF Vector
<1>2. \A p \in Ids : x[p] + y[p] \in Int /\ x[p] - y[p] \in Int
  BY <1>1
<1>3. \A i \in Int : i \div n \in Int /\ i \div 2 \in Int
  OBVIOUS
<1>4. \A p \in Ids : x[p] \div n \in Int /\ x[p] \div 2 \in Int
  BY <1>1, <1>3
<1> QED
  BY <1>2, <1>4 DEF Plus, Minus, Over, Half, Zero, Vector

\* What each rule makes of a tensor's model and state, by the parts.
LEMMA NesterovIs ==
  ASSUME scenario \in Scenarios, NEW x \in Vector, NEW s \in State, NEW g \in Vector, NEW milestone \in BOOLEAN
  PROVE  LET r == DelayedNesterov(x, s, g, milestone)
             n == scenario.period
         IN
         /\ r.x \in Vector /\ r.s \in State
         /\ \A q \in Ids :
              /\ r.s.buffer[q] = IF milestone THEN 0 ELSE s.buffer[q] + g[q]
              /\ r.s.m[q] = IF milestone THEN (s.m[q] \div 2) + ((s.buffer[q] + g[q]) \div n) ELSE s.m[q]
              /\ r.x[q] = x[q] - ((g[q] \div n) + (IF milestone THEN r.s.m[q] \div 2 ELSE 0))
<1>. DEFINE n == scenario.period
            sum == Plus(s.buffer, g)
            m == IF milestone THEN Plus(Half(s.m), Over(sum, n)) ELSE s.m
            buffer == IF milestone THEN Zero ELSE sum
            y == Minus(x, Plus(Over(g, n), IF milestone THEN Half(m) ELSE Zero))
            r == DelayedNesterov(x, s, g, milestone)
<1>1. n \in Nat \ {0} /\ s.m \in Vector /\ s.buffer \in Vector /\ s.sure \in BOOLEAN
  BY Scenario DEF State
<1>2. r = [x |-> y, s |-> Touched(m, buffer, s.sure)]
  BY DEF DelayedNesterov
<1>3. sum \in Vector
  BY <1>1, VectorsTyped
<1>4. m \in Vector /\ buffer \in Vector
  <2>. HIDE DEF sum, n
  <2> QED BY <1>1, <1>3, VectorsTyped
<1>5. y \in Vector
  <2>. HIDE DEF m, n
  <2>1. Half(m) \in Vector /\ Over(g, n) \in Vector /\ Zero \in Vector
    BY <1>1, <1>4, VectorsTyped
  <2> QED BY <1>1, <2>1, VectorsTyped
<1>6. r.x = y /\ r.s = Touched(m, buffer, s.sure)
  <2>. HIDE DEF y, m, buffer, r
  <2> QED BY <1>2
<1>7. r.s \in State /\ r.s.m = m /\ r.s.buffer = buffer
  <2>. HIDE DEF m, buffer, r
  <2>1. Touched(m, buffer, s.sure) \in State /\ Touched(m, buffer, s.sure).m = m /\ Touched(m, buffer, s.sure).buffer = buffer
    BY <1>1, <1>4 DEF Touched, State
  <2> QED BY <1>6, <2>1
<1>8. \A q \in Ids : /\ buffer[q] = IF milestone THEN 0 ELSE s.buffer[q] + g[q]
                     /\ m[q] = IF milestone THEN (s.m[q] \div 2) + ((s.buffer[q] + g[q]) \div n) ELSE s.m[q]
  BY DEF Plus, Half, Over, Zero
<1>9. \A q \in Ids : y[q] = x[q] - ((g[q] \div n) + (IF milestone THEN m[q] \div 2 ELSE 0))
  <2>. HIDE DEF m
  <2> QED BY DEF Minus, Plus, Half, Over, Zero
<1>. HIDE DEF m, buffer, y, r
<1> QED
  BY <1>5, <1>6, <1>7, <1>8, <1>9 DEF r

LEMMA LookAheadIs ==
  ASSUME NEW x \in Vector, NEW s \in State, NEW g \in Vector
  PROVE  LET r == MomentumLookAhead(x, s, g) IN
         /\ r.x \in Vector /\ r.s \in State /\ r.s.buffer = s.buffer
         /\ \A q \in Ids : /\ r.s.m[q] = (s.m[q] + g[q]) \div 2
                           /\ r.x[q] = x[q] - (g[q] + (r.s.m[q] \div 2))
<1>. DEFINE m == Half(Plus(s.m, g))
            y == Minus(x, Plus(g, Half(m)))
            r == MomentumLookAhead(x, s, g)
<1>1. s.m \in Vector /\ s.buffer \in Vector /\ s.sure \in BOOLEAN /\ 1 \in Nat \ {0}
  BY DEF State
<1>2. r = [x |-> y, s |-> Touched(m, s.buffer, s.sure)]
  BY DEF MomentumLookAhead
<1>3. m \in Vector
  BY <1>1, VectorsTyped
<1>4. y \in Vector
  <2>. HIDE DEF m
  <2>1. Half(m) \in Vector
    BY <1>1, <1>3, VectorsTyped
  <2> QED BY <1>1, <2>1, VectorsTyped
<1>5. \A q \in Ids : m[q] = (s.m[q] + g[q]) \div 2
  BY DEF Plus, Half, Over
<1>6. \A q \in Ids : y[q] = x[q] - (g[q] + (m[q] \div 2))
  <2>. HIDE DEF m
  <2> QED BY DEF Minus, Plus, Half, Over
<1>. HIDE DEF m, y, r
<1>7. r.x = y /\ r.s = Touched(m, s.buffer, s.sure)
  BY <1>2
<1>8. r.s \in State /\ r.s.m = m /\ r.s.buffer = s.buffer
  <2>1. /\ Touched(m, s.buffer, s.sure) \in State
        /\ Touched(m, s.buffer, s.sure).m = m /\ Touched(m, s.buffer, s.sure).buffer = s.buffer
    BY <1>1, <1>3 DEF Touched, State
  <2> QED BY <1>7, <2>1
<1> QED
  BY <1>4, <1>5, <1>6, <1>7, <1>8 DEF r

\* The gradient that Bayes blends in.
Blended(s, g, gain, q) == s.m[q] + ((gain * (g[q] - s.m[q])) \div 2)

BayesAt(x, s, g, gain, q) ==
  LET r    == Bayes(x, s, g, gain)
      sure == IF s.seen THEN s.sure ELSE g # Zero
      G    == IF sure THEN Blended(s, g, gain, q) ELSE s.m[q]
  IN  G \in Int /\ r.s.m[q] = (s.m[q] + G) \div 2 /\ r.x[q] = x[q] - (G + (r.s.m[q] \div 2))

BayesDoes(x, s, g, gain) ==
  LET r    == Bayes(x, s, g, gain)
      sure == IF s.seen THEN s.sure ELSE g # Zero
  IN
  /\ r.x \in Vector /\ r.s \in State /\ r.s.buffer = s.buffer
  /\ r.s.seen = TRUE /\ (r.s.sure <=> sure \/ s.m # Zero)
  /\ \A q \in Ids : BayesAt(x, s, g, gain, q)

LEMMA BayesIs ==
  ASSUME NEW x \in Vector, NEW s \in State, NEW g \in Vector, NEW gain \in {1, 2}
  PROVE  BayesDoes(x, s, g, gain)
<1>. DEFINE r == Bayes(x, s, g, gain)
            sure == IF s.seen THEN s.sure ELSE g # Zero
            D == [p \in Ids |-> gain * (g[p] - s.m[p])]
            B == Plus(s.m, Over(D, 2))
            H == IF sure THEN B ELSE s.m
            m == Half(Plus(s.m, H))
            y == Minus(x, Plus(H, Half(m)))
            known == sure \/ s.m # Zero
            G(q) == IF sure THEN Blended(s, g, gain, q) ELSE s.m[q]
<1>1. s.m \in Vector /\ s.buffer \in Vector /\ s.sure \in BOOLEAN /\ s.seen \in BOOLEAN /\ 2 \in Nat \ {0}
  BY DEF State
<1>2. r = [x |-> y, s |-> Touched(m, s.buffer, known)]
  BY DEF Bayes, Half
<1>3. D \in Vector
  <2>1. \A p \in Ids : g[p] \in Int /\ s.m[p] \in Int
    BY <1>1 DEF Vector
  <2>2. \A p \in Ids : gain * (g[p] - s.m[p]) \in Int
    BY <2>1
  <2> QED BY <2>2 DEF Vector
<1>4. B \in Vector /\ \A q \in Ids : B[q] = Blended(s, g, gain, q)
  <2>1. B \in Vector
    <3>. HIDE DEF D
    <3>1. Over(D, 2) \in Vector
      BY <1>1, <1>3, VectorsTyped
    <3> QED BY <1>1, <3>1, VectorsTyped
  <2>2. \A q \in Ids : B[q] = Blended(s, g, gain, q)
    BY DEF Plus, Over, Blended
  <2> QED BY <2>1, <2>2
<1>5. known \in BOOLEAN /\ sure \in BOOLEAN
  BY <1>1
<1>. HIDE DEF B, known, sure, r
<1>6. H \in Vector /\ \A q \in Ids : H[q] = G(q)
  BY <1>1, <1>4
<1>. HIDE DEF H
<1>7. m \in Vector /\ \A q \in Ids : m[q] = (s.m[q] + H[q]) \div 2
  <2>1. m \in Vector
    BY <1>1, <1>6, VectorsTyped
  <2> QED BY <2>1 DEF Plus, Half, Over
<1>. HIDE DEF m
<1>8. y \in Vector /\ \A q \in Ids : y[q] = x[q] - (H[q] + (m[q] \div 2))
  <2>1. Half(m) \in Vector
    BY <1>1, <1>7, VectorsTyped
  <2>2. y \in Vector
    BY <1>1, <1>6, <2>1, VectorsTyped
  <2>3. \A q \in Ids : y[q] = x[q] - (H[q] + (m[q] \div 2))
    BY DEF Minus, Plus, Half, Over
  <2> QED BY <2>2, <2>3
<1>. HIDE DEF y
<1>9. r.x = y /\ r.s = Touched(m, s.buffer, known)
  BY <1>2
<1>10. r.s \in State /\ r.s.m = m /\ r.s.buffer = s.buffer /\ r.s.seen = TRUE /\ r.s.sure = known
  <2>1. /\ Touched(m, s.buffer, known) \in State
        /\ Touched(m, s.buffer, known).m = m /\ Touched(m, s.buffer, known).buffer = s.buffer
        /\ Touched(m, s.buffer, known).seen = TRUE /\ Touched(m, s.buffer, known).sure = known
    BY <1>1, <1>5, <1>7 DEF Touched, State
  <2> QED BY <1>9, <2>1
<1>11. \A q \in Ids : H[q] \in Int
  BY <1>6 DEF Vector
<1>12. \A q \in Ids : /\ G(q) \in Int /\ r.s.m[q] = (s.m[q] + G(q)) \div 2
                      /\ r.x[q] = x[q] - (G(q) + (r.s.m[q] \div 2))
  BY <1>6, <1>7, <1>8, <1>9, <1>10, <1>11
<1>13. \A q \in Ids : BayesAt(x, s, g, gain, q)
  BY <1>12 DEF r, sure, BayesAt
<1> QED
  BY <1>8, <1>9, <1>10, <1>13 DEF r, sure, known, BayesDoes

-----------------------------------------------------------------------------
(* The outer steps: types. *)

LEMMA GradTyped ==
  ASSUME NEW p, NEW t
  PROVE  /\ Grad(p, t) \in Vector
         /\ \A q \in Ids : Grad(p, t)[q] = IF q = p /\ t \notin pushes[p].zero THEN One ELSE 0
         /\ (p \in Ids /\ t \notin pushes[p].zero => Grad(p, t) # Zero) /\ (t \in pushes[p].zero => Grad(p, t) = Zero)
<1>1. One \in Nat \ {0}
  BY StepAssumption
<1>2. Zero \in Vector /\ [Zero EXCEPT ![p] = One] \in Vector
      /\ \A q \in Ids : Zero[q] = 0 /\ [Zero EXCEPT ![p] = One][q] = IF q = p THEN One ELSE 0
  <2>1. Zero \in Vector /\ \A q \in Ids : Zero[q] = 0
    BY DEF Zero, Vector
  <2>2. [Zero EXCEPT ![p] = One] = [q \in Ids |-> IF q = p THEN One ELSE 0]
    BY DEF Zero
  <2>3. [q \in Ids |-> IF q = p THEN One ELSE 0] \in Vector
    BY <1>1 DEF Vector
  <2>4. \A q \in Ids : [Zero EXCEPT ![p] = One][q] = IF q = p THEN One ELSE 0
    BY <2>2
  <2> QED BY <2>1, <2>2, <2>3, <2>4
<1>3. p \in Ids => [Zero EXCEPT ![p] = One] # Zero
  BY <1>1, <1>2
<1> QED
  BY <1>2, <1>3 DEF Grad

LEMMA SteppedIs ==
  ASSUME scenario \in Scenarios, NEW name \in {"own", "second"}, NEW o, NEW t, NEW g, NEW gain
  PROVE  LET r == Stepped(name, o, t, g, gain) IN
         /\ name = "second" \/ scenario.method = "diloco" =>
              r = DelayedNesterov(theta[t], o.state[t], g, AtMilestone(o))
         /\ name = "own" /\ scenario.method \in {"heloco", "mla"} => r = MomentumLookAhead(theta[t], o.state[t], g)
         /\ name = "own" /\ scenario.method = "bayes" => r = Bayes(theta[t], o.state[t], g, gain)
BY DEF Stepped

LEMMA SteppedTyped ==
  ASSUME scenario \in Scenarios, NEW name \in {"own", "second"}, NEW o, NEW t, NEW g \in Vector, NEW gain \in {1, 2},
         theta[t] \in Vector, o.state[t] \in State
  PROVE  Stepped(name, o, t, g, gain).x \in Vector /\ Stepped(name, o, t, g, gain).s \in State
<1>1. scenario.method \in {"heloco", "diloco", "mla", "bayes"}
  BY Scenario
<1>2. AtMilestone(o) \in BOOLEAN
  BY DEF AtMilestone
<1>3. CASE name = "second" \/ scenario.method = "diloco"
  BY <1>2, <1>3, SteppedIs, NesterovIs
<1>4. CASE name = "own" /\ scenario.method \in {"heloco", "mla"}
  BY <1>4, SteppedIs, LookAheadIs
<1>5. CASE name = "own" /\ scenario.method = "bayes"
  <2>1. Stepped(name, o, t, g, gain) = Bayes(theta[t], o.state[t], g, gain)
    BY <1>5, SteppedIs
  <2>2. Bayes(theta[t], o.state[t], g, gain).x \in Vector /\ Bayes(theta[t], o.state[t], g, gain).s \in State
    BY BayesIs DEF BayesDoes
  <2> QED BY <2>1, <2>2
<1> QED
  BY <1>1, <1>3, <1>4, <1>5

JobTyped(j) ==
  /\ j.phase \in {"idle", "received", "corrected", "applied"} /\ j.batch \in Seq(Ids)
  /\ \A t \in DOMAIN j.read : t \in Tensors /\ j.read[t] \in Vector

ModelsTyped ==
  /\ theta \in [Tensors -> Vector]
  /\ own \in [state: States, count: Nat] /\ second \in [state: States, count: Nat]
  /\ disk \in [theta: [Tensors -> Vector], state: States, base: [Tensors -> Vector]]
  /\ restarts \in 0..scenario.restarts
  /\ base \in [{"own", "second"} -> [Tensors -> Vector]]

LEMMA TypedParts ==
  /\ TypedInv <=> ModelsTyped /\ \A th \in Handlers : JobTyped(job[th])
  /\ TypedInv' <=> ModelsTyped' /\ \A th \in Handlers : JobTyped(job[th])'
BY DEF TypedInv, ModelsTyped, JobTyped

LEMMA SameSpace ==
  ASSUME scenario' = scenario
  PROVE  Ids' = Ids /\ Tensors' = Tensors /\ Vector' = Vector /\ States' = States /\ Zero' = Zero
BY DEF Ids, Tensors, Vector, States, Zero

LEMMA CommitTyped ==
  ASSUME scenario \in Scenarios, ModelsTyped, NEW name \in {"own", "second"}, NEW p, NEW gain, CommitsTo(name, p, gain)
  PROVE  ModelsTyped'
<1>0. scenario' = scenario /\ disk' = disk /\ restarts' = restarts /\ gain \in {1, 2}
  BY DEF CommitsTo
<1>1. Ids' = Ids /\ Tensors' = Tensors /\ Vector' = Vector /\ States' = States
  BY <1>0, SameSpace
<1>2. States = [Tensors -> State]
  BY DEF States, State
<1>3. ASSUME NEW o, NEW n, NEW b, NEW c, o \in [state: States, count: Nat], b \in [Tensors -> Vector],
             OneStep(name, o, n, b, c, p, gain)
      PROVE  /\ \A t \in Tensors : theta'[t] \in Vector
             /\ n \in [state: States, count: Nat] /\ c \in [Tensors -> Vector]
  <2>1. ASSUME NEW t \in Tensors PROVE theta'[t] \in Vector /\ n.state[t] \in State /\ c[t] \in Vector
    <3>1. theta[t] \in Vector /\ o.state[t] \in State /\ b[t] \in Vector
      BY <1>2, <1>3 DEF ModelsTyped
    <3>2. CASE t \in Covered(p)
      <4>1. Stepped(name, o, t, Grad(p, t), gain).x \in Vector /\ Stepped(name, o, t, Grad(p, t), gain).s \in State
        BY <1>0, <3>1, GradTyped, SteppedTyped
      <4> QED BY <1>3, <3>1, <3>2, <4>1 DEF OneStep
    <3>3. CASE t \notin Covered(p)
      BY <1>3, <3>1, <3>3 DEF OneStep
    <3> QED BY <3>2, <3>3
  <2>2. n = [state |-> [t \in Tensors |-> n.state[t]], count |-> n.count] /\ n.count = o.count + 1
        /\ c = [t \in Tensors |-> c[t]]
    BY <1>3 DEF OneStep
  <2>3. n.count \in Nat
    BY <1>3, <2>2
  <2>4. [t \in Tensors |-> n.state[t]] \in States /\ [t \in Tensors |-> c[t]] \in [Tensors -> Vector]
    BY <1>2, <2>1
  <2> QED BY <2>1, <2>2, <2>3, <2>4
<1>4. theta' = [t \in Tensors |-> theta'[t]] /\ base' = [k \in {"own", "second"} |-> base'[k]]
  BY DEF CommitsTo
<1>5. CASE name = "own"
  <2>1. OneStep(name, own, own', base["own"], base'["own"], p, gain) /\ second' = second /\ base'["second"] = base["second"]
    BY <1>5 DEF CommitsTo
  <2>2. (\A t \in Tensors : theta'[t] \in Vector) /\ own' \in [state: States, count: Nat] /\ base'["own"] \in [Tensors -> Vector]
    BY <1>3, <2>1 DEF ModelsTyped
  <2>3. theta' \in [Tensors -> Vector]
    BY <1>4, <2>2
  <2>4. base' \in [{"own", "second"} -> [Tensors -> Vector]]
    BY <1>4, <2>1, <2>2 DEF ModelsTyped
  <2> QED BY <1>0, <1>1, <2>1, <2>2, <2>3, <2>4 DEF ModelsTyped
<1>6. CASE name = "second"
  <2>1. OneStep(name, second, second', base["second"], base'["second"], p, gain) /\ own' = own /\ base'["own"] = base["own"]
    BY <1>6 DEF CommitsTo
  <2>2. (\A t \in Tensors : theta'[t] \in Vector) /\ second' \in [state: States, count: Nat] /\ base'["second"] \in [Tensors -> Vector]
    BY <1>3, <2>1 DEF ModelsTyped
  <2>3. theta' \in [Tensors -> Vector]
    BY <1>4, <2>2
  <2>4. base' \in [{"own", "second"} -> [Tensors -> Vector]]
    BY <1>4, <2>1, <2>2 DEF ModelsTyped
  <2> QED BY <1>0, <1>1, <2>1, <2>2, <2>3, <2>4 DEF ModelsTyped
<1> QED
  BY <1>5, <1>6

LEMMA FreshTyped ==
  /\ NoOptimizer = [state |-> NoOptimizer.state, count |-> 0] /\ NoOptimizer \in [state: States, count: Nat]
  /\ \A t \in Tensors : NoOptimizer.state[t] = NoState
  /\ \A q \in Ids : NoState.m[q] = 0 /\ NoState.buffer[q] = 0 /\ NoState.seen = FALSE /\ NoState.sure = FALSE /\ NoState.m = Zero
<1>1. Zero \in Vector /\ \A q \in Ids : Zero[q] = 0
  BY DEF Zero, Vector
<1>2. NoState \in State
  BY <1>1 DEF NoState, State
<1>3. [t \in Tensors |-> NoState] \in States
  BY <1>2 DEF States, State
<1> QED
  BY <1>1, <1>3 DEF NoOptimizer, NoState

LEMMA TypedKept ==
  ASSUME JobsInv, TypedInv, ArrivedInv, StepsNext
  PROVE  TypedInv'
<1>0. scenario' = scenario /\ scenario \in Scenarios
  BY ScenarioStays, JobShapes
<1>1. Ids' = Ids /\ Tensors' = Tensors /\ Vector' = Vector /\ States' = States
  BY <1>0, SameSpace
<1>2. ModelsTyped /\ \A th \in Handlers : JobTyped(job[th])
  BY TypedParts
<1>3. \A j : JobTyped(j)' <=> JobTyped(j')
  BY <1>1 DEF JobTyped
<1>t. \A th \in Handlers : JobTyped(job[th])' <=> JobTyped(job'[th])
  BY <1>1 DEF JobTyped
<1>4. ASSUME NEW th \in Handlers, Others(th), JobTyped(job'[th]), ModelsTyped' PROVE TypedInv'
  <2>1. \A h \in Handlers : JobTyped(job'[h])
    BY <1>2, <1>4 DEF Others
  <2> QED BY <1>4, <1>t, <2>1, TypedParts
<1>5. ASSUME UNCHANGED <<theta, own, second, restarts, base>>, disk' \in {disk, Saved} PROVE ModelsTyped'
  <2>1. Saved \in [theta: [Tensors -> Vector], state: States, base: [Tensors -> Vector]]
    BY <1>2 DEF Saved, ModelsTyped
  <2> QED BY <1>0, <1>1, <1>2, <1>5, <2>1 DEF ModelsTyped
<1>6. ASSUME NEW th \in Handlers, Begin(th) PROVE TypedInv'
  <2>1. PICK batch \in Seq(Arriving) :
           /\ Len(pushes) + Len(batch) <= scenario.pushes
           /\ job'[th] = [phase |-> "received", batch |-> [i \in 1..Len(batch) |-> Len(pushes) + i], at |-> 1, read |-> <<>>]
           /\ Others(th) /\ UNCHANGED <<scenario, theta, own, second, disk, restarts, base>>
    BY <1>6, BeginMoves
  <2>. DEFINE b == [i \in 1..Len(batch) |-> Len(pushes) + i]
  <2>2. Len(pushes) \in Nat /\ Len(batch) \in Nat /\ scenario.pushes \in Nat
    BY <1>0, JobShapes, StepAssumption
  <2>3. \A i \in 1..Len(batch) : Len(pushes) + i \in 1..scenario.pushes
    BY <2>1, <2>2
  <2>4. b \in [1..Len(batch) -> Ids]
    BY <2>3 DEF Ids
  <2>5. b \in Seq(Ids)
    <3>. HIDE DEF b
    <3> QED BY <2>2, <2>4
  <2>6. job'[th].batch = b /\ job'[th].phase = "received" /\ job'[th].read = <<>>
    BY <2>1
  <2>7. JobTyped(job'[th])
    <3>. HIDE DEF b
    <3> QED BY <2>5, <2>6 DEF JobTyped
  <2> QED BY <1>4, <1>5, <2>1, <2>7
<1>7. ASSUME NEW th \in Handlers, ReadMomentum(th) PROVE TypedInv'
  <2>1. /\ Busy(th) /\ Others(th) /\ job'[th].batch = job[th].batch /\ job'[th].read = Momentum(Present(th))
        /\ job'[th].phase = "corrected"
        /\ UNCHANGED <<scenario, theta, own, second, pushes, disk, restarts, base>>
    BY <1>7, ReadMoves
  <2>2. Present(th) \in DOMAIN pushes
    BY <2>1, JobShapes DEF Present
  <2>3. \A t \in Tensors : own.state[t].m \in Vector
    BY <1>2 DEF ModelsTyped, States
  <2>4. \A t \in DOMAIN Momentum(Present(th)) : t \in Tensors /\ Momentum(Present(th))[t] \in Vector
    BY <2>2, <2>3, CoveredTensors DEF Momentum
  <2>5. JobTyped(job'[th])
    BY <1>2, <2>1, <2>4 DEF JobTyped
  <2> QED BY <1>4, <1>5, <2>1, <2>5
<1>8. ASSUME NEW th \in Handlers, CommitPush(th) PROVE TypedInv'
  <2>1. /\ Others(th) /\ job'[th].batch = job[th].batch /\ job'[th].read = job[th].read
        /\ job'[th].phase \in {"received", "applied"}
    BY <1>8, CommitMoves
  <2>2. JobTyped(job'[th])
    BY <1>2, <2>1 DEF JobTyped
  <2>3. ModelsTyped'
    BY <1>0, <1>2, <1>8, CommitDoes, CommitTyped
  <2> QED BY <1>4, <2>1, <2>2, <2>3
<1>9. ASSUME NEW th \in Handlers, Finish(th) PROVE TypedInv'
  <2>1. /\ Others(th) /\ job'[th] = Idle /\ disk' \in {disk, Saved}
        /\ UNCHANGED <<scenario, theta, own, second, pushes, restarts, base>>
    BY <1>9, FinishMoves
  <2>2. JobTyped(Idle)
    BY DEF JobTyped, Idle
  <2> QED BY <1>4, <1>5, <2>1, <2>2
<1>10. CASE RestartFromDisk
  <2>1. /\ restarts < scenario.restarts /\ restarts' = restarts + 1 /\ theta' = disk.theta
        /\ own' = [state |-> disk.state, count |-> 0] /\ second' = NoOptimizer
        /\ base' = [own |-> disk.base, second |-> disk.theta]
        /\ job' = [th \in Handlers |-> Idle] /\ disk' = disk
    BY <1>10 DEF RestartFromDisk
  <2>2. restarts' \in 0..scenario.restarts
    <3>1. restarts \in 0..scenario.restarts /\ scenario.restarts \in Nat
      BY <1>0, <1>2, StepAssumption DEF ModelsTyped
    <3> QED BY <2>1, <3>1
  <2>3. disk.theta \in [Tensors -> Vector] /\ disk.state \in States /\ disk.base \in [Tensors -> Vector]
    BY <1>2 DEF ModelsTyped
  <2>4. own' \in [state: States, count: Nat] /\ second' \in [state: States, count: Nat]
    BY <2>1, <2>3, FreshTyped
  <2>5. base' \in [{"own", "second"} -> [Tensors -> Vector]]
    BY <2>1, <2>3
  <2>6. ModelsTyped'
    BY <1>0, <1>1, <1>2, <2>1, <2>2, <2>3, <2>4, <2>5 DEF ModelsTyped
  <2>7. JobTyped(Idle) /\ \A th \in Handlers : job'[th] = Idle
    BY <2>1 DEF JobTyped, Idle
  <2> QED BY <1>t, <2>6, <2>7, TypedParts
<1> QED
  BY <1>6, <1>7, <1>8, <1>9, <1>10 DEF StepsNext

-----------------------------------------------------------------------------
(* The outer steps: what was not committed is nowhere. *)

LEMMA CountsKept ==
  ASSUME JobsInv, JobsInv', TypedInv, ArrivedInv, ArrivedInv', OrderInv, CountsInv, StepsNext
  PROVE  CountsInv'
<1>1. own.count \in Nat /\ second.count \in Nat /\ own.count + second.count <= Cardinality(Committed)
  BY DEF TypedInv, CountsInv
<1>2. Cardinality(Committed) \in Nat
  BY Counting
<1>3. ASSUME NEW th \in Handlers, CommitPush(th) PROVE CountsInv'
  <2>1. Cardinality(Committed') = Cardinality(Committed) + 1
    BY <1>3, CountingMoves
  <2>2. \/ own'.count = own.count + 1 /\ second' = second
        \/ second'.count = second.count + 1 /\ own' = own
    <3>1. PICK name \in {"own", "second"}, gain \in {1, 2} : CommitsTo(name, Present(th), gain)
      BY <1>3, CommitDoes
    <3> QED BY <3>1 DEF CommitsTo, OneStep
  <2> QED BY <1>1, <1>2, <2>1, <2>2 DEF CountsInv
<1>4. ASSUME NEW th \in Handlers, Begin(th) \/ ReadMomentum(th) \/ Finish(th) PROVE CountsInv'
  <2>1. Committed' = Committed
    BY <1>4, RestCounts
  <2>2. UNCHANGED <<own, second>>
    BY <1>4 DEF Begin, ReadMomentum, Finish
  <2> QED BY <2>1, <2>2 DEF CountsInv
<1>5. CASE RestartFromDisk
  <2>1. own'.count = 0 /\ second'.count = 0
    BY <1>5, FreshTyped DEF RestartFromDisk
  <2>2. Cardinality(Committed') \in Nat
    <3>1. (JobsInv /\ ArrivedInv)' => (Cardinality(Committed) \in Nat)'
      BY Counting, PTL
    <3> QED BY <3>1
  <2> QED BY <2>1, <2>2 DEF CountsInv
<1> QED
  BY <1>3, <1>4, <1>5 DEF StepsNext

\* What Delayed Nesterov makes of one coefficient.
NesterovDoes(x, s, g, milestone, q, r) ==
  /\ r.s.buffer[q] = IF milestone THEN 0 ELSE s.buffer[q] + g[q]
  /\ r.s.m[q] = IF milestone THEN (s.m[q] \div 2) + ((s.buffer[q] + g[q]) \div scenario.period) ELSE s.m[q]
  /\ r.x[q] = x[q] - ((g[q] \div scenario.period) + (IF milestone THEN r.s.m[q] \div 2 ELSE 0))

LEMMA NesterovEach ==
  ASSUME scenario \in Scenarios, NEW x \in Vector, NEW s \in State, NEW g \in Vector, NEW milestone \in BOOLEAN,
         NEW q \in Ids, NEW r, r = DelayedNesterov(x, s, g, milestone)
  PROVE  NesterovDoes(x, s, g, milestone, q, r)
BY NesterovIs DEF NesterovDoes

\* A step has nothing to do with other pushes than its own and those of its optimizer.
LEMMA SteppedWithout ==
  ASSUME scenario \in Scenarios, NEW name \in {"own", "second"}, NEW o, NEW t, NEW g \in Vector, NEW gain \in {1, 2},
         theta[t] \in Vector, o.state[t] \in State, NEW q \in Ids, ~Holds(o.state[t], q), g[q] = 0
  PROVE  LET r == Stepped(name, o, t, g, gain) IN r.x[q] = theta[t][q] /\ ~Holds(r.s, q)
<1>. DEFINE r == Stepped(name, o, t, g, gain)
            s == o.state[t]
            n == scenario.period
<1>1. scenario.method \in {"heloco", "diloco", "mla", "bayes"} /\ n \in Nat \ {0}
  BY Scenario
<1>z. /\ 0 \div n = 0 /\ 0 \div 2 = 0 /\ 0 + 0 = 0 /\ gain * 0 = 0
      /\ \A i \in Int : i - 0 = i
  <2>1. 2 \in Nat \ {0} /\ \A i \in Nat \ {0} : 0 \div i = 0
    BY NoneOfNone
  <2>2. 0 \div n = 0 /\ 0 \div 2 = 0
    BY <1>1, <2>1, Zenon
  <2>3. 0 + 0 = 0 /\ gain * 0 = 0 /\ \A i \in Int : i - 0 = i
    OBVIOUS
  <2> QED BY <2>2, <2>3
<1>2. s.m[q] = 0 /\ s.buffer[q] = 0 /\ theta[t][q] \in Int
  BY DEF Holds, Vector
<1>3. CASE name = "second" \/ scenario.method = "diloco"
  <2>. DEFINE ms == AtMilestone(o)
  <2>1. r = DelayedNesterov(theta[t], s, g, ms) /\ ms \in BOOLEAN
    BY <1>3, SteppedIs DEF AtMilestone
  <2>. HIDE DEF r, ms, s, n
  <2>2. /\ r.s.buffer[q] = IF ms THEN 0 ELSE s.buffer[q] + g[q]
        /\ r.s.m[q] = IF ms THEN (s.m[q] \div 2) + ((s.buffer[q] + g[q]) \div n) ELSE s.m[q]
        /\ r.x[q] = theta[t][q] - ((g[q] \div n) + (IF ms THEN r.s.m[q] \div 2 ELSE 0))
    <3>1. theta[t] \in Vector /\ s \in State
      BY DEF s
    <3>2. NesterovDoes(theta[t], s, g, ms, q, r)
      BY <2>1, <3>1, NesterovEach
    <3> QED BY <3>2 DEF NesterovDoes, n
  <2>3. r.s.buffer[q] = 0 /\ r.s.m[q] = 0
    BY <1>z, <1>2, <2>2, Zenon
  <2>4. (g[q] \div n) + (IF ms THEN r.s.m[q] \div 2 ELSE 0) = 0
    BY <1>z, <2>3, Zenon
  <2>5. r.x[q] = theta[t][q]
    BY <1>z, <1>2, <2>2, <2>4, Zenon
  <2> QED BY <2>3, <2>5 DEF Holds, r
<1>4. CASE name = "own" /\ scenario.method \in {"heloco", "mla"}
  <2>1. r = MomentumLookAhead(theta[t], s, g)
    BY <1>4, SteppedIs
  <2>. HIDE DEF r, s
  <2>2. /\ r.s.buffer = s.buffer /\ r.s.m[q] = (s.m[q] + g[q]) \div 2
        /\ r.x[q] = theta[t][q] - (g[q] + (r.s.m[q] \div 2))
    BY <2>1, LookAheadIs DEF s
  <2>3. r.s.buffer[q] = 0 /\ r.s.m[q] = 0
    BY <1>z, <1>2, <2>2, Zenon
  <2>4. r.x[q] = theta[t][q]
    BY <1>z, <1>2, <2>2, <2>3, Zenon
  <2> QED BY <2>3, <2>4 DEF Holds, r
<1>5. CASE name = "own" /\ scenario.method = "bayes"
  <2>1. r = Bayes(theta[t], s, g, gain)
    BY <1>5, SteppedIs
  <2>. DEFINE sure == IF s.seen THEN s.sure ELSE g # Zero
              G == IF sure THEN Blended(s, g, gain, q) ELSE s.m[q]
  <2>2. G = 0
    <3>1. Blended(s, g, gain, q) = 0
      <4>1. Blended(s, g, gain, q) = s.m[q] + ((gain * (g[q] - s.m[q])) \div 2)
        BY DEF Blended
      <4>. HIDE DEF s
      <4>2. gain * (g[q] - s.m[q]) = 0
        BY <1>2
      <4> QED BY <1>z, <1>2, <4>1, <4>2, Zenon
    <3>. HIDE DEF sure, s
    <3> QED BY <1>2, <3>1
  <2>3. r.s.buffer = s.buffer /\ r.s.m[q] = (s.m[q] + G) \div 2 /\ r.x[q] = theta[t][q] - (G + (r.s.m[q] \div 2))
    <3>. DEFINE z == Bayes(theta[t], s, g, gain)
    <3>1. BayesDoes(theta[t], s, g, gain)
      BY BayesIs
    <3>3. z.s.buffer = s.buffer /\ BayesAt(theta[t], s, g, gain, q)
      <4>. HIDE DEF s
      <4> QED BY <3>1 DEF BayesDoes
    <3>2. r = z
      BY <2>1
    <3>. HIDE DEF r, s, sure
    <3> QED BY <3>2, <3>3 DEF BayesAt, G, sure
  <2>. HIDE DEF r, s, G
  <2>4. r.s.buffer[q] = 0 /\ r.s.m[q] = 0
    BY <1>z, <1>2, <2>2, <2>3, Zenon
  <2>5. r.x[q] = theta[t][q]
    BY <1>z, <1>2, <2>2, <2>3, <2>4, Zenon
  <2> QED BY <2>4, <2>5 DEF Holds, r
<1> QED
  BY <1>1, <1>3, <1>4, <1>5

LEMMA SpentKept ==
  ASSUME JobsInv, JobsInv', TypedInv, ArrivedInv, ArrivedInv', OrderInv, SpentInv, StepsNext
  PROVE  SpentInv'
<1>0. scenario' = scenario /\ scenario \in Scenarios /\ ModelsTyped /\ Committed \subseteq Committed'
  BY ScenarioStays, JobShapes, TypedParts, CountingMoves
<1>1. Ids' = Ids /\ Tensors' = Tensors /\ \A x, state, b, q : Without(x, state, b, q)' <=> Without(x', state', b', q')
  BY <1>0, SameSpace DEF Without
<1>e. SpentInv' <=> \A q \in Ids \ Committed' :
        /\ Without(theta, own.state, base["own"], q)' /\ Without(theta, second.state, base["second"], q)'
        /\ Without(disk.theta, disk.state, disk.base, q)'
  BY <1>1 DEF SpentInv
<1>w. ASSUME NEW q \in Ids \ Committed'
      PROVE  /\ Without(theta, own.state, base["own"], q) /\ Without(theta, second.state, base["second"], q)
             /\ Without(disk.theta, disk.state, disk.base, q) /\ q \in Ids
  BY <1>0, <1>w DEF SpentInv
<1>2. ASSUME UNCHANGED <<theta, own, second, base>>, disk' \in {disk, Saved} PROVE SpentInv'
  <2>1. ASSUME NEW q \in Ids \ Committed'
        PROVE  /\ Without(theta, own.state, base["own"], q)' /\ Without(theta, second.state, base["second"], q)'
               /\ Without(disk.theta, disk.state, disk.base, q)'
    <3>1. Without(theta, own.state, base["own"], q)' /\ Without(theta, second.state, base["second"], q)'
      BY <1>1, <1>2, <1>w DEF Without
    <3>2. CASE disk' = disk
      BY <1>1, <1>w, <3>1, <3>2 DEF Without
    <3>3. CASE disk' = Saved
      <4>1. disk'.theta = theta /\ disk'.state = own.state /\ disk'.base = base["own"]
        BY <3>3 DEF Saved
      <4>2. Without(disk.theta, disk.state, disk.base, q)'
        BY <1>1, <1>w, <4>1 DEF Without
      <4> QED BY <3>1, <4>2
    <3> QED BY <1>2, <3>2, <3>3
  <2> QED BY <1>e, <2>1
<1>3. ASSUME NEW th \in Handlers, CommitPush(th) PROVE SpentInv'
  <2>. DEFINE p == Present(th)
  <2>1. p \in DOMAIN pushes /\ Committed' = Committed \cup {p}
    BY <1>3, CommitCounts
  <2>2. PICK name \in {"own", "second"}, gain \in {1, 2} : CommitsTo(name, p, gain)
    BY <1>3, CommitDoes
  <2>. HIDE DEF p
  <2>. SUFFICES ASSUME NEW q \in Ids \ Committed'
                PROVE  /\ Without(theta, own.state, base["own"], q)' /\ Without(theta, second.state, base["second"], q)'
                       /\ Without(disk.theta, disk.state, disk.base, q)'
    BY <1>e
  <2>3. q # p /\ q \in Ids
    BY <2>1
  <2>4. \A t \in Tensors : Grad(p, t) \in Vector /\ Grad(p, t)[q] = 0
    BY <2>3, GradTyped
  <2>5. ASSUME NEW o, NEW n, NEW b, NEW c, o \in [state: States, count: Nat],
               OneStep(name, o, n, b, c, p, gain), Without(theta, o.state, b, q), NEW t \in Tensors
        PROVE  theta'[t][q] = 0 /\ ~Holds(n.state[t], q) /\ c[t][q] = 0
    <3>1. theta[t] \in Vector /\ o.state[t] \in State /\ theta[t][q] = 0 /\ ~Holds(o.state[t], q) /\ b[t][q] = 0
      BY <1>0, <2>5 DEF ModelsTyped, States, State, Without
    <3>2. CASE t \in Covered(p)
      <4>. DEFINE r == Stepped(name, o, t, Grad(p, t), gain)
      <4>1. r.x[q] = 0 /\ ~Holds(r.s, q)
        BY <1>0, <2>3, <2>4, <3>1, SteppedWithout
      <4>2. theta'[t] = r.x /\ n.state[t] = r.s /\ (c[t] = theta'[t] \/ c[t] = b[t])
        BY <2>5, <3>2 DEF OneStep
      <4>. HIDE DEF r
      <4> QED BY <3>1, <4>1, <4>2
    <3>3. CASE t \notin Covered(p)
      BY <2>5, <3>1, <3>3 DEF OneStep
    <3> QED BY <3>2, <3>3
  <2>6. own \in [state: States, count: Nat] /\ second \in [state: States, count: Nat] /\ disk' = disk
    BY <1>0, <2>2 DEF ModelsTyped, CommitsTo
  <2>7. Without(disk.theta, disk.state, disk.base, q)'
    BY <1>1, <1>w, <2>6 DEF Without
  <2>8. CASE name = "own"
    <3>1. OneStep(name, own, own', base["own"], base'["own"], p, gain) /\ second' = second /\ base'["second"] = base["second"]
      BY <2>2, <2>8 DEF CommitsTo
    <3>2. \A t \in Tensors : theta'[t][q] = 0 /\ ~Holds(own'.state[t], q) /\ base'["own"][t][q] = 0
      BY <1>w, <2>5, <2>6, <3>1
    <3>3. \A t \in Tensors : ~Holds(second'.state[t], q) /\ base'["second"][t][q] = 0
      BY <1>w, <3>1 DEF Without
    <3> QED BY <1>1, <2>7, <3>2, <3>3 DEF Without
  <2>9. CASE name = "second"
    <3>1. OneStep(name, second, second', base["second"], base'["second"], p, gain) /\ own' = own /\ base'["own"] = base["own"]
      BY <2>2, <2>9 DEF CommitsTo
    <3>2. \A t \in Tensors : theta'[t][q] = 0 /\ ~Holds(second'.state[t], q) /\ base'["second"][t][q] = 0
      BY <1>w, <2>5, <2>6, <3>1
    <3>3. \A t \in Tensors : ~Holds(own'.state[t], q) /\ base'["own"][t][q] = 0
      BY <1>w, <3>1 DEF Without
    <3> QED BY <1>1, <2>7, <3>2, <3>3 DEF Without
  <2> QED BY <2>8, <2>9
<1>4. CASE RestartFromDisk
  <2>1. /\ theta' = disk.theta /\ own'.state = disk.state /\ second' = NoOptimizer /\ disk' = disk
        /\ base'["own"] = disk.base /\ base'["second"] = disk.theta
    BY <1>4 DEF RestartFromDisk
  <2>2. \A t \in Tensors : \A q \in Ids : ~Holds(second'.state[t], q)
    BY <2>1, FreshTyped DEF Holds
  <2>3. ASSUME NEW q \in Ids \ Committed'
        PROVE  /\ Without(theta, own.state, base["own"], q)' /\ Without(theta, second.state, base["second"], q)'
               /\ Without(disk.theta, disk.state, disk.base, q)'
    BY <1>1, <1>w, <2>1, <2>2 DEF Without
  <2> QED BY <1>e, <2>3
<1>5. ASSUME NEW th \in Handlers, Begin(th) \/ ReadMomentum(th) \/ Finish(th) PROVE SpentInv'
  BY <1>2, <1>5 DEF Begin, ReadMomentum, Finish
<1> QED
  BY <1>3, <1>4, <1>5 DEF StepsNext

-----------------------------------------------------------------------------
(* The outer steps: the books of Delayed Nesterov. *)

\* One coefficient in a step of Delayed Nesterov: with the momentum taken of it and
\* the model y at a milestone, with the model z elsewhere.
Balanced(K, x, b, buffer, m, g, taken, y, z) ==
  /\ taken \in Nat /\ (taken = 0 \/ taken >= K) /\ (taken = 0 <=> buffer = 0 /\ g = 0 /\ m = 0)
  /\ buffer + g \in {0, One}
  /\ y <= x /\ (g = One => y < x) /\ (taken = 0 => y = x)
  /\ y = b - (taken \div 2) - (IF m = 0 /\ taken # 0 THEN One \div scenario.period ELSE 0)
  /\ z <= x /\ (g = One => z < x) /\ (g = 0 => z = x) /\ z = b - ((buffer + g) \div scenario.period)

LEMMA Coefficient ==
  ASSUME scenario \in Scenarios, NEW L \in Nat \ {0}, NEW K \in Nat \ {0}, L = 2 * K, L <= 2^scenario.pushes,
         NEW x \in Int, NEW b \in Int, NEW buffer \in {0, One}, NEW m \in Nat, NEW g \in {0, One},
         buffer = 0 \/ m = 0, m = 0 \/ m >= L, g = 0 \/ (buffer = 0 /\ m = 0),
         x = b - (buffer \div scenario.period),
         NEW taken, taken = (m \div 2) + ((buffer + g) \div scenario.period),
         NEW y, y = x - ((g \div scenario.period) + (taken \div 2)),
         NEW z, z = x - ((g \div scenario.period) + 0)
  PROVE  Balanced(K, x, b, buffer, m, g, taken, y, z)
<1>. DEFINE n == scenario.period
            d == One \div n
            w == 2^scenario.pushes
            h == taken \div 2
            k == m \div 2
<1>1. d \in Nat /\ d >= 2 * w /\ One \in Nat \ {0} /\ 0 \div n = 0 /\ w \in Nat \ {0} /\ L <= w
  <2>1. scenario.pushes \in Nat
    BY StepAssumption
  <2> QED BY <2>1, Units, PowerSteps
<1>2. k \in Nat /\ (m >= L => k >= K) /\ (m = 0 => k = 0)
  BY NoneOfNone
<1>. DEFINE e == (buffer + g) \div n
            f == g \div n
            c == buffer \div n
<1>3. \/ buffer = 0 /\ g = 0 /\ e = 0 /\ f = 0 /\ c = 0
      \/ buffer = One /\ g = 0 /\ e = d /\ f = 0 /\ c = d
      \/ buffer = 0 /\ g = One /\ e = d /\ f = d /\ c = 0
  <2>1. 0 + 0 = 0 /\ One + 0 = One /\ 0 + One = One
    BY <1>1
  <2>2. CASE buffer = 0 /\ g = 0
    BY <1>1, <2>1, <2>2, Zenon
  <2>3. CASE buffer = One /\ g = 0
    BY <1>1, <2>1, <2>3, Zenon
  <2>4. CASE buffer = 0 /\ g = One
    BY <1>1, <2>1, <2>4, Zenon
  <2> QED BY <1>1, <2>2, <2>3, <2>4
<1>4. taken = k + e /\ x = b - c /\ y = x - (f + h) /\ z = x - (f + 0)
  OBVIOUS
<1>. HIDE DEF e, f, c, k, d, w, n
<1>5. taken \in Nat
  BY <1>1, <1>2, <1>3, <1>4
<1>6. h \in Nat /\ (taken = 0 => h = 0)
  BY <1>5, NoneOfNone
<1>. HIDE DEF h
<1>7. (taken = 0 \/ taken >= K) /\ (taken = 0 <=> buffer = 0 /\ g = 0 /\ m = 0) /\ buffer + g \in {0, One}
  BY <1>1, <1>2, <1>3, <1>4
<1>8. y <= x /\ (g = One => y < x) /\ (taken = 0 => y = x)
  BY <1>1, <1>3, <1>4, <1>6, <1>7
<1>9. y = b - h - (IF m = 0 /\ taken # 0 THEN d ELSE 0)
  BY <1>1, <1>3, <1>4, <1>6, <1>7
<1>10. z <= x /\ (g = One => z < x) /\ (g = 0 => z = x) /\ z = b - e
  BY <1>1, <1>3, <1>4
<1> QED
  BY <1>5, <1>7, <1>8, <1>9, <1>10 DEF e, d, h, n, Balanced

\* The books with the bound of what lasts given.
BooksBy(L, x, s, b, q) ==
  /\ s.buffer[q] \in {0, One} /\ s.m[q] \in Nat
  /\ s.buffer[q] = 0 \/ s.m[q] = 0
  /\ s.m[q] = 0 \/ s.m[q] >= L
  /\ x[q] = b[q] - (s.buffer[q] \div scenario.period)

\* The books are still right, and the model is the one of standard Nesterov.
Booked(K, x, s, b, g, milestone, q, r, c) ==
  /\ BooksBy(K, r.x, r.s, c, q) /\ (Remembered(x, s, q) => Remembered(r.x, r.s, q))
  /\ milestone => r.x[q] = b[q] - (r.s.m[q] \div 2)
                             - (IF s.m[q] = 0 /\ r.s.m[q] # 0 THEN One \div scenario.period ELSE 0)
  /\ milestone => (s.m[q] = 0 /\ r.s.m[q] # 0 <=> s.buffer[q] # 0 \/ g[q] # 0)
  /\ ~milestone => r.s.m[q] = s.m[q]

LEMMA DelayedBooks ==
  ASSUME scenario \in Scenarios, NEW L \in Nat \ {0}, NEW K \in Nat \ {0}, L = 2 * K, L <= 2^scenario.pushes,
         NEW x \in Vector, NEW s \in State, NEW b \in Vector, NEW g \in Vector, NEW milestone \in BOOLEAN, NEW q \in Ids,
         BooksBy(L, x, s, b, q), g[q] \in {0, One}, g[q] = 0 \/ ~Holds(s, q),
         NEW r, r = DelayedNesterov(x, s, g, milestone), NEW c, c[q] = IF milestone THEN r.x[q] ELSE b[q]
  PROVE  Booked(K, x, s, b, g, milestone, q, r, c)
<1>. DEFINE n == scenario.period
            taken == (s.m[q] \div 2) + ((s.buffer[q] + g[q]) \div n)
            y == x[q] - ((g[q] \div n) + (taken \div 2))
            z == x[q] - ((g[q] \div n) + 0)
<1>1. /\ r.s.buffer[q] = IF milestone THEN 0 ELSE s.buffer[q] + g[q]
      /\ r.s.m[q] = IF milestone THEN taken ELSE s.m[q]
      /\ r.x[q] = x[q] - ((g[q] \div n) + (IF milestone THEN r.s.m[q] \div 2 ELSE 0))
  BY NesterovIs
<1>2. /\ x[q] \in Int /\ b[q] \in Int /\ s.m[q] \in Nat /\ s.buffer[q] \in {0, One} /\ One \in Nat \ {0}
      /\ s.buffer[q] = 0 \/ s.m[q] = 0
      /\ s.m[q] = 0 \/ s.m[q] >= L
      /\ x[q] = b[q] - (s.buffer[q] \div n)
      /\ g[q] = 0 \/ (s.buffer[q] = 0 /\ s.m[q] = 0)
  BY Scenario DEF Vector, BooksBy, Holds
<1>3. /\ taken \in Nat /\ (taken = 0 \/ taken >= K) /\ (taken = 0 <=> s.buffer[q] = 0 /\ g[q] = 0 /\ s.m[q] = 0)
      /\ s.buffer[q] + g[q] \in {0, One}
      /\ y <= x[q] /\ (g[q] = One => y < x[q]) /\ (taken = 0 => y = x[q])
      /\ y = b[q] - (taken \div 2) - (IF s.m[q] = 0 /\ taken # 0 THEN One \div n ELSE 0)
      /\ z <= x[q] /\ (g[q] = One => z < x[q]) /\ (g[q] = 0 => z = x[q]) /\ z = b[q] - ((s.buffer[q] + g[q]) \div n)
  <2>. DEFINE xq == x[q]
              bq == b[q]
              buffer == s.buffer[q]
              m == s.m[q]
              gq == g[q]
  <2>2. /\ xq \in Int /\ bq \in Int /\ m \in Nat /\ buffer \in {0, One} /\ gq \in {0, One}
        /\ buffer = 0 \/ m = 0
        /\ m = 0 \/ m >= L
        /\ xq = bq - (buffer \div scenario.period)
        /\ gq = 0 \/ (buffer = 0 /\ m = 0)
        /\ taken = (m \div 2) + ((buffer + gq) \div scenario.period)
        /\ y = xq - ((gq \div scenario.period) + (taken \div 2)) /\ z = xq - ((gq \div scenario.period) + 0)
    BY <1>2
  <2>. HIDE DEF taken, y, z, xq, bq, buffer, m, gq
  <2>3. Balanced(K, xq, bq, buffer, m, gq, taken, y, z)
    BY <2>2, Coefficient
  <2> QED BY <2>3 DEF Balanced, xq, bq, buffer, m, gq
<1>4. 0 \div n = 0 /\ y \in Int /\ z \in Int
  <2>1. One \div n \in Nat /\ 0 \div n = 0
    BY Units
  <2>2. (s.buffer[q] + g[q]) \div n \in Int
    <3>1. s.buffer[q] + g[q] = 0 \/ s.buffer[q] + g[q] = One
      BY <1>3
    <3>2. 0 \in Int /\ One \div n \in Int
      BY <2>1
    <3>. HIDE DEF n
    <3> QED BY <2>1, <3>1, <3>2, Zenon
  <2>3. taken \div 2 \in Int
    BY <1>3
  <2>. HIDE DEF y, z, taken, n
  <2> QED BY <1>2, <1>3, <2>1, <2>2, <2>3
<1>5. CASE milestone
  <2>1. r.s.buffer[q] = 0 /\ r.s.m[q] = taken /\ r.x[q] = y /\ c[q] = r.x[q]
    BY <1>1, <1>5
  <2>. HIDE DEF y, z, taken, n
  <2>2. BooksBy(K, r.x, r.s, c, q)
    <3>1. r.x[q] = c[q] - (0 \div n)
      BY <1>4, <2>1
    <3> QED BY <1>3, <2>1, <3>1 DEF BooksBy, n
  <2>3. Remembered(x, s, q) => Remembered(r.x, r.s, q)
    <3>1. CASE taken = 0
      <4>1. ~Holds(s, q) /\ ~Holds(r.s, q) /\ r.x[q] = x[q]
        BY <1>3, <2>1, <3>1 DEF Holds
      <4> QED BY <4>1 DEF Remembered
    <3>2. CASE taken # 0
      <4>1. Holds(r.s, q) /\ (Holds(s, q) \/ g[q] = One)
        BY <1>2, <1>3, <2>1, <3>2 DEF Holds
      <4>2. r.x[q] <= x[q] /\ (g[q] = One => r.x[q] < x[q])
        BY <1>3, <2>1
      <4> QED BY <1>2, <1>4, <2>1, <4>1, <4>2 DEF Remembered
    <3> QED BY <3>1, <3>2
  <2>4. r.x[q] = b[q] - (r.s.m[q] \div 2) - (IF s.m[q] = 0 /\ r.s.m[q] # 0 THEN One \div n ELSE 0)
    BY <1>3, <2>1
  <2>5. s.m[q] = 0 /\ r.s.m[q] # 0 <=> s.buffer[q] # 0 \/ g[q] # 0
    BY <1>2, <1>3, <2>1
  <2> QED BY <1>5, <2>2, <2>3, <2>4, <2>5 DEF n, Booked
<1>6. CASE ~milestone
  <2>1. r.s.buffer[q] = s.buffer[q] + g[q] /\ r.s.m[q] = s.m[q] /\ r.x[q] = z /\ c[q] = b[q]
    BY <1>1, <1>6
  <2>. HIDE DEF y, z, taken, n
  <2>2. BooksBy(K, r.x, r.s, c, q)
    <3>1. r.x[q] = c[q] - (r.s.buffer[q] \div n)
      BY <1>3, <2>1
    <3>2. r.s.buffer[q] \in {0, One} /\ r.s.m[q] \in Nat /\ (r.s.m[q] = 0 \/ r.s.m[q] >= K)
      BY <1>2, <1>3, <2>1
    <3>3. r.s.buffer[q] = 0 \/ r.s.m[q] = 0
      BY <1>2, <2>1
    <3> QED BY <3>1, <3>2, <3>3 DEF BooksBy, n
  <2>3. Remembered(x, s, q) => Remembered(r.x, r.s, q)
    <3>1. CASE g[q] = 0
      <4>1. r.x[q] = x[q] /\ r.s.buffer[q] = s.buffer[q]
        BY <1>2, <1>3, <2>1, <3>1
      <4> QED BY <2>1, <4>1 DEF Remembered, Holds
    <3>2. CASE g[q] = One
      <4>1. r.x[q] < x[q] /\ r.s.buffer[q] = One /\ One # 0
        BY <1>2, <1>3, <2>1, <3>2
      <4> QED BY <1>2, <1>4, <2>1, <4>1 DEF Remembered, Holds
    <3> QED BY <3>1, <3>2
  <2> QED BY <1>6, <2>1, <2>2, <2>3 DEF Booked
<1> QED
  BY <1>5, <1>6

LEMMA BooksLast ==
  ASSUME NEW L \in Nat, NEW K \in Nat, K <= L, NEW x, NEW s, NEW b, NEW q, BooksBy(L, x, s, b, q)
  PROVE  BooksBy(K, x, s, b, q)
BY DEF BooksBy

\* What a commit to a Delayed-Nesterov optimizer does to the books on a push, and
\* what a milestone does.
Turned(K, o, n, b, c, p, t, q) ==
  /\ BooksBy(K, theta'[t], n.state[t], c[t], q)
  /\ Remembered(theta[t], o.state[t], q) => Remembered(theta'[t], n.state[t], q)
  /\ IF t \in Covered(p) /\ AtMilestone(o)
     THEN /\ theta'[t][q] = b[t][q] - (n.state[t].m[q] \div 2)
               - (IF o.state[t].m[q] = 0 /\ n.state[t].m[q] # 0 THEN One \div scenario.period ELSE 0)
          /\ o.state[t].m[q] = 0 /\ n.state[t].m[q] # 0 <=> o.state[t].buffer[q] # 0 \/ Grad(p, t)[q] # 0
     ELSE n.state[t].m[q] = o.state[t].m[q]

LEMMA CommitBooks ==
  ASSUME scenario \in Scenarios, NEW L \in Nat \ {0}, NEW K \in Nat \ {0}, L = 2 * K, L <= 2^scenario.pushes,
         NEW name \in {"own", "second"}, name = "second" \/ scenario.method = "diloco",
         NEW o, NEW n, NEW b, NEW c, NEW p, NEW gain, OneStep(name, o, n, b, c, p, gain),
         NEW t \in Tensors, theta[t] \in Vector, o.state[t] \in State, b[t] \in Vector,
         NEW q \in Ids, BooksBy(L, theta[t], o.state[t], b[t], q), q = p => ~Holds(o.state[t], q)
  PROVE  Turned(K, o, n, b, c, p, t, q)
<1>. DEFINE g == Grad(p, t)
            r == Stepped(name, o, t, g, gain)
            ms == AtMilestone(o)
<1>1. CASE t \in Covered(p)
  <2>1. r = DelayedNesterov(theta[t], o.state[t], g, ms) /\ ms \in BOOLEAN
    BY SteppedIs DEF AtMilestone
  <2>2. g \in Vector /\ g[q] \in {0, One} /\ (g[q] = 0 \/ ~Holds(o.state[t], q))
    BY GradTyped
  <2>3. theta'[t] = r.x /\ n.state[t] = r.s /\ c[t] = IF ms THEN r.x ELSE b[t]
    BY <1>1 DEF OneStep
  <2>4. c[t][q] = IF ms THEN r.x[q] ELSE b[t][q]
    BY <2>3
  <2>. HIDE DEF r, g, ms
  <2>5. /\ BooksBy(K, r.x, r.s, c[t], q) /\ (Remembered(theta[t], o.state[t], q) => Remembered(r.x, r.s, q))
        /\ ms => r.x[q] = b[t][q] - (r.s.m[q] \div 2)
                       - (IF o.state[t].m[q] = 0 /\ r.s.m[q] # 0 THEN One \div scenario.period ELSE 0)
        /\ ms => (o.state[t].m[q] = 0 /\ r.s.m[q] # 0 <=> o.state[t].buffer[q] # 0 \/ g[q] # 0)
        /\ ~ms => r.s.m[q] = o.state[t].m[q]
    <3>. DEFINE x == theta[t]
                s == o.state[t]
                bt == b[t]
                ct == c[t]
    <3>1. /\ x \in Vector /\ s \in State /\ bt \in Vector /\ BooksBy(L, x, s, bt, q) /\ (g[q] = 0 \/ ~Holds(s, q))
          /\ r = DelayedNesterov(x, s, g, ms) /\ ct[q] = IF ms THEN r.x[q] ELSE bt[q]
      BY <2>1, <2>2, <2>4
    <3>. HIDE DEF x, s, bt, ct
    <3>2. Booked(K, x, s, bt, g, ms, q, r, ct)
      BY <2>1, <2>2, <3>1, DelayedBooks
    <3> QED BY <3>2 DEF x, s, bt, ct, Booked
  <2> QED BY <1>1, <2>3, <2>5 DEF ms, g, Turned
<1>2. CASE t \notin Covered(p)
  <2>1. theta'[t] = theta[t] /\ n.state[t] = o.state[t] /\ c[t] = b[t]
    BY <1>2 DEF OneStep
  <2>2. BooksBy(K, theta[t], o.state[t], b[t], q)
    BY BooksLast
  <2> QED BY <1>2, <2>1, <2>2 DEF Turned
<1> QED
  BY <1>1, <1>2

\* HeLoCo's own steps leave what there is of a DiLoCo island's push.
LEMMA MainLeaves ==
  ASSUME scenario \in Scenarios, ModelsTyped, ApartInv, NEW p, NEW gain, CommitsTo("own", p, gain),
         NEW q \in Ids, IsDiloco(pushes[q].island), NEW t \in Tensors
  PROVE  theta'[t][q] = theta[t][q]
<1>. DEFINE g == Grad(p, t)
            r == Stepped("own", own, t, g, gain)
            s == own.state[t]
<1>1. OneStep("own", own, own', base["own"], base'["own"], p, gain) /\ ~IsDiloco(pushes[p].island) /\ p # q
  BY DEF CommitsTo
<1>2. scenario.method = "heloco" /\ s.m[q] = 0
  BY DEF ApartInv, MainApart, IsDiloco
<1>3. theta[t] \in Vector /\ s \in State /\ theta[t][q] \in Int
  BY DEF ModelsTyped, States, State, Vector
<1>4. g \in Vector /\ g[q] = 0
  BY <1>1, GradTyped
<1>5. r = MomentumLookAhead(theta[t], s, g)
  BY <1>2, SteppedIs
<1>. HIDE DEF r, s, g
<1>6. r.s.m[q] = (s.m[q] + g[q]) \div 2 /\ r.x[q] = theta[t][q] - (g[q] + (r.s.m[q] \div 2))
  BY <1>3, <1>4, <1>5, LookAheadIs
<1>7. r.x[q] = theta[t][q]
  <2>1. 2 \in Nat \ {0} /\ 0 + 0 = 0 /\ \A i \in Nat \ {0} : 0 \div i = 0
    BY NoneOfNone
  <2>2. \A i \in Int : i - 0 = i
    OBVIOUS
  <2>3. 0 \div 2 = 0
    BY <2>1, Zenon
  <2> QED BY <1>2, <1>3, <1>4, <1>6, <2>1, <2>2, <2>3, Zenon
<1>8. theta'[t] = theta[t] \/ theta'[t] = r.x
  BY <1>1 DEF OneStep, r, g
<1> QED
  BY <1>7, <1>8

LEMMA NesterovKept ==
  ASSUME JobsInv, JobsInv', TypedInv, ArrivedInv, ArrivedInv', OrderInv, SpentInv, ApartInv, NesterovInv, StepsNext
  PROVE  NesterovInv'
<1>. DEFINE L == Lasting
            K == Lasting'
            Main(x, s, b) == \A t \in Tensors : \A q \in Ids : BooksBy(L, x[t], s[t], b[t], q) /\ Remembered(x[t], s[t], q)
            Keeps(x, s, b) == \A t \in Tensors : \A q \in Ids : BooksBy(K, x[t], s[t], b[t], q) /\ Remembered(x[t], s[t], q)
            MainKept == scenario.method = "diloco" =>
                          Keeps(theta', own'.state, base'["own"]) /\ Keeps(disk'.theta, disk'.state, disk'.base)
            SecondKept == \A t \in Tensors : \A q \in Ids : q \in DOMAIN pushes' /\ IsDiloco(pushes'[q].island) =>
                            BooksBy(K, theta'[t], second'.state[t], base'["second"][t], q)
<1>0. scenario' = scenario /\ scenario \in Scenarios /\ ModelsTyped /\ Ids' = Ids /\ Tensors' = Tensors
  BY ScenarioStays, JobShapes, TypedParts, SameSpace
<1>1. K \in Nat \ {0} /\ K <= L /\ L \in Nat \ {0} /\ L <= 2^scenario.pushes
  BY CountingMoves, Counting
<1>2. MainKept /\ SecondKept => NesterovInv'
  BY <1>0 DEF NesterovInv, Books, BooksBy, Remembered, Holds, IsDiloco, GetsCorrection
<1>3. scenario.method = "diloco" => Main(theta, own.state, base["own"]) /\ Main(disk.theta, disk.state, disk.base)
  BY DEF NesterovInv, Books, BooksBy
<1>4. \A t \in Tensors : \A q \in Ids : q \in DOMAIN pushes /\ IsDiloco(pushes[q].island) =>
        BooksBy(L, theta[t], second.state[t], base["second"][t], q)
  BY DEF NesterovInv, Books, BooksBy
<1>. HIDE DEF L, K
<1>5. ASSUME NEW x, NEW s, NEW b, Main(x, s, b) PROVE Keeps(x, s, b)
  BY <1>1, <1>5, BooksLast
<1>6. ASSUME UNCHANGED <<theta, own, base>>, disk' \in {disk, Saved} PROVE MainKept
  <2>1. disk' = Saved => disk'.theta = theta /\ disk'.state = own.state /\ disk'.base = base["own"]
    BY DEF Saved
  <2>. SUFFICES ASSUME scenario.method = "diloco"
                PROVE  Keeps(theta', own'.state, base'["own"]) /\ Keeps(disk'.theta, disk'.state, disk'.base)
    OBVIOUS
  <2>2. Keeps(theta, own.state, base["own"]) /\ Keeps(disk.theta, disk.state, disk.base)
    BY <1>3, <1>5
  <2>. HIDE DEF Keeps
  <2> QED BY <1>6, <2>1, <2>2
<1>7. ASSUME UNCHANGED <<theta, second, base>>, \A q \in DOMAIN pushes : q \in DOMAIN pushes' /\ pushes'[q] = pushes[q]
      PROVE  SecondKept
  <2>. SUFFICES ASSUME NEW t \in Tensors, NEW q \in Ids, q \in DOMAIN pushes', IsDiloco(pushes'[q].island)
                PROVE  BooksBy(K, theta'[t], second'.state[t], base'["second"][t], q)
    OBVIOUS
  <2>1. CASE q \in DOMAIN pushes
    BY <1>1, <1>4, <1>7, <2>1, BooksLast
  <2>2. CASE q \notin DOMAIN pushes
    <3>1. Without(theta, second.state, base["second"], q)
      BY <2>2, Counting DEF SpentInv
    <3>2. theta[t][q] = 0 /\ second.state[t].m[q] = 0 /\ second.state[t].buffer[q] = 0 /\ base["second"][t][q] = 0
      BY <3>1 DEF Without, Holds
    <3>3. 0 \div scenario.period = 0 /\ 0 = 0 - 0
      BY <1>0, Units
    <3> QED BY <1>1, <1>7, <3>2, <3>3 DEF BooksBy
  <2> QED BY <2>1, <2>2
<1>8. ASSUME NEW th \in Handlers, CommitPush(th) PROVE MainKept /\ SecondKept
  <2>. DEFINE p == Present(th)
  <2>1. p \in DOMAIN pushes /\ p \notin Committed /\ p \in Ids /\ L = 2 * K
    BY <1>8, CommitCounts, CountingMoves, Counting DEF L, K
  <2>2. PICK name \in {"own", "second"}, gain \in {1, 2} : CommitsTo(name, p, gain)
    BY <1>8, CommitDoes
  <2>. HIDE DEF p
  <2>3. Without(theta, own.state, base["own"], p) /\ Without(theta, second.state, base["second"], p)
    BY <2>1 DEF SpentInv
  <2>4. /\ \A t \in Tensors : ~Holds(own.state[t], p) /\ ~Holds(second.state[t], p)
        /\ \A t \in Tensors : /\ theta[t] \in Vector /\ own.state[t] \in State /\ second.state[t] \in State
                              /\ base["own"][t] \in Vector /\ base["second"][t] \in Vector
    BY <1>0, <2>3 DEF Without, ModelsTyped, States, State
  <2>5. disk' = disk /\ pushes' = pushes
    BY <2>2 DEF CommitsTo
  <2>6. CASE name = "own"
    <3>1. OneStep("own", own, own', base["own"], base'["own"], p, gain) /\ second' = second /\ base'["second"] = base["second"]
      BY <2>2, <2>6 DEF CommitsTo
    <3>2. MainKept
      <4>. SUFFICES ASSUME scenario.method = "diloco"
                    PROVE  Keeps(theta', own'.state, base'["own"]) /\ Keeps(disk'.theta, disk'.state, disk'.base)
        OBVIOUS
      <4>1. Keeps(disk.theta, disk.state, disk.base)
        BY <1>3, <1>5
      <4>2. ASSUME NEW t \in Tensors, NEW q \in Ids
            PROVE  BooksBy(K, theta'[t], own'.state[t], base'["own"][t], q) /\ Remembered(theta'[t], own'.state[t], q)
        <5>1. BooksBy(L, theta[t], own.state[t], base["own"][t], q) /\ Remembered(theta[t], own.state[t], q)
          BY <1>3
        <5>2. Turned(K, own, own', base["own"], base'["own"], p, t, q)
          BY <1>0, <1>1, <2>1, <2>4, <3>1, <5>1, CommitBooks
        <5> QED BY <5>1, <5>2 DEF Turned
      <4> QED BY <2>5, <4>1, <4>2
    <3>3. SecondKept
      <4>. SUFFICES ASSUME NEW t \in Tensors, NEW q \in Ids, q \in DOMAIN pushes, IsDiloco(pushes[q].island)
                    PROVE  BooksBy(K, theta'[t], second.state[t], base["second"][t], q)
        BY <2>5, <3>1
      <4>1. theta'[t][q] = theta[t][q]
        BY <1>0, <2>2, <2>6, MainLeaves
      <4>2. BooksBy(K, theta[t], second.state[t], base["second"][t], q)
        BY <1>1, <1>4, BooksLast
      <4> QED BY <4>1, <4>2 DEF BooksBy
    <3> QED BY <3>2, <3>3
  <2>7. CASE name = "second"
    <3>1. OneStep("second", second, second', base["second"], base'["second"], p, gain) /\ own' = own
          /\ base'["own"] = base["own"] /\ scenario.method = "heloco"
      BY <2>2, <2>7 DEF CommitsTo, IsDiloco
    <3>2. MainKept
      BY <3>1
    <3>3. SecondKept
      <4>. SUFFICES ASSUME NEW t \in Tensors, NEW q \in Ids, q \in DOMAIN pushes, IsDiloco(pushes[q].island)
                    PROVE  BooksBy(K, theta'[t], second'.state[t], base'["second"][t], q)
        BY <2>5
      <4>1. BooksBy(L, theta[t], second.state[t], base["second"][t], q)
        BY <1>4
      <4>2. Turned(K, second, second', base["second"], base'["second"], p, t, q)
        BY <1>0, <1>1, <2>1, <2>4, <3>1, <4>1, CommitBooks
      <4> QED BY <4>2 DEF Turned
    <3> QED BY <3>2, <3>3
  <2> QED BY <2>6, <2>7
<1>9. CASE RestartFromDisk
  <2>1. /\ theta' = disk.theta /\ own'.state = disk.state /\ second' = NoOptimizer /\ disk' = disk /\ pushes' = pushes
        /\ base'["own"] = disk.base /\ base'["second"] = disk.theta
    BY <1>9 DEF RestartFromDisk
  <2>2. MainKept
    <3>. SUFFICES ASSUME scenario.method = "diloco"
                  PROVE  Keeps(theta', own'.state, base'["own"]) /\ Keeps(disk'.theta, disk'.state, disk'.base)
      OBVIOUS
    <3>1. Keeps(disk.theta, disk.state, disk.base)
      BY <1>3, <1>5
    <3>. HIDE DEF Keeps
    <3> QED BY <2>1, <3>1
  <2>3. SecondKept
    <3>. SUFFICES ASSUME NEW t \in Tensors, NEW q \in Ids
                  PROVE  BooksBy(K, disk.theta[t], second'.state[t], disk.theta[t], q)
      BY <2>1
    <3>1. second'.state[t].m[q] = 0 /\ second'.state[t].buffer[q] = 0
      BY <2>1, FreshTyped
    <3>2. 0 \div scenario.period = 0 /\ disk.theta[t][q] \in Int
      BY <1>0, Units DEF ModelsTyped, Vector
    <3>3. disk.theta[t][q] = disk.theta[t][q] - 0
      BY <3>2
    <3>. DEFINE s == second'.state[t]
                x == disk.theta[t]
    <3>4. s.m[q] = 0 /\ s.buffer[q] = 0 /\ x[q] = x[q] - 0 /\ 0 \div scenario.period = 0
      BY <3>1, <3>2, <3>3
    <3>. HIDE DEF s, x
    <3>5. s.m[q] \in Nat /\ s.buffer[q] \in {0, One} /\ x[q] = x[q] - (s.buffer[q] \div scenario.period)
      BY <3>4
    <3>6. BooksBy(K, x, s, x, q)
      BY <3>4, <3>5 DEF BooksBy
    <3> QED BY <3>6 DEF s, x
  <2>. HIDE DEF MainKept, SecondKept
  <2> QED BY <1>2, <2>2, <2>3
<1>10. ASSUME NEW th \in Handlers, ReadMomentum(th) \/ Finish(th) PROVE MainKept /\ SecondKept
  <2>1. UNCHANGED <<theta, own, second, pushes, base>> /\ disk' \in {disk, Saved}
    BY <1>10 DEF ReadMomentum, Finish
  <2>. HIDE DEF MainKept, SecondKept
  <2> QED BY <1>6, <1>7, <2>1
<1>11. ASSUME NEW th \in Handlers, Begin(th) PROVE MainKept /\ SecondKept
  <2>1. PICK batch \in Seq(Arriving) : pushes' = pushes \o batch
    BY <1>11, BeginMoves
  <2>2. \A q \in DOMAIN pushes : q \in DOMAIN pushes' /\ pushes'[q] = pushes[q]
    BY <2>1, Received
  <2>3. UNCHANGED <<theta, own, second, disk, base>>
    BY <1>11 DEF Begin
  <2>. HIDE DEF MainKept, SecondKept
  <2> QED BY <1>6, <1>7, <2>2, <2>3
<1>. HIDE DEF MainKept, SecondKept
<1> QED
  BY <1>2, <1>8, <1>9, <1>10, <1>11 DEF StepsNext

-----------------------------------------------------------------------------
(* The outer steps: how much is buffered. *)

LEMMA InFinite ==
  ASSUME scenario \in Scenarios, NEW x
  PROVE  In(x) \subseteq Ids /\ IsFiniteSet(In(x)) /\ Cardinality(In(x)) \in Nat
<1>1. scenario.pushes \in Nat
  BY StepAssumption
<1>2. IsFiniteSet(Ids)
  BY <1>1, FS_Interval DEF Ids
<1>3. In(x) \subseteq Ids
  BY DEF In
<1> QED
  BY <1>2, <1>3, FS_Subset, FS_CardinalityType

\* What a commit to a Delayed-Nesterov optimizer buffers.
Buffers(o, n, p, t) ==
  /\ p \notin In(o.state[t].buffer)
  /\ IF AtMilestone(o) THEN In(n.state[t].buffer) = {}
                       ELSE In(n.state[t].buffer) = In(o.state[t].buffer) \cup {p}
  /\ Cardinality(In(n.state[t].buffer)) = IF AtMilestone(o) THEN 0 ELSE Cardinality(In(o.state[t].buffer)) + 1

LEMMA CommitBuffers ==
  ASSUME scenario \in Scenarios, NEW name \in {"own", "second"}, name = "second" \/ scenario.method = "diloco",
         NEW o, NEW n, NEW b, NEW c, NEW p \in Ids, NEW gain, OneStep(name, o, n, b, c, p, gain),
         pushes[p].zero = {}, NEW t \in Tensors, t \in Covered(p), theta[t] \in Vector, o.state[t] \in State,
         ~Holds(o.state[t], p)
  PROVE  Buffers(o, n, p, t)
<1>. DEFINE g == Grad(p, t)
            r == Stepped(name, o, t, g, gain)
            ms == AtMilestone(o)
            s == o.state[t]
<1>1. r = DelayedNesterov(theta[t], s, g, ms) /\ ms \in BOOLEAN
  BY SteppedIs DEF AtMilestone
<1>2. g \in Vector /\ \A q \in Ids : g[q] = IF q = p THEN One ELSE 0
  BY GradTyped
<1>3. n.state[t] = r.s
  BY DEF OneStep
<1>4. p \notin In(s.buffer) /\ s.buffer[p] = 0 /\ \A q \in Ids : s.buffer[q] \in Int
  BY DEF In, Holds, State, Vector
<1>. HIDE DEF r, g, ms, s
<1>5. \A q \in Ids : n.state[t].buffer[q] = IF ms THEN 0 ELSE s.buffer[q] + g[q]
  <2>1. \A q \in Ids : r.s.buffer[q] = IF ms THEN 0 ELSE s.buffer[q] + g[q]
    BY <1>1, <1>2, NesterovIs DEF s
  <2> QED BY <1>3, <2>1
<1>6. CASE ms
  <2>1. In(n.state[t].buffer) = {}
    BY <1>5, <1>6 DEF In
  <2> QED BY <1>4, <1>6, <2>1, FS_EmptySet DEF ms, s, Buffers
<1>7. CASE ~ms
  <2>1. One # 0 /\ One \in Nat
    BY Scenario
  <2>2. \A q \in Ids : n.state[t].buffer[q] # 0 <=> s.buffer[q] # 0 \/ q = p
    <3>1. ASSUME NEW q \in Ids PROVE n.state[t].buffer[q] # 0 <=> s.buffer[q] # 0 \/ q = p
      <4>1. n.state[t].buffer[q] = s.buffer[q] + g[q]
        BY <1>5, <1>7
      <4> QED BY <1>2, <1>4, <2>1, <4>1
    <3> QED BY <3>1
  <2>3. In(n.state[t].buffer) = In(s.buffer) \cup {p}
    BY <2>2 DEF In
  <2>4. Cardinality(In(s.buffer) \cup {p}) = Cardinality(In(s.buffer)) + 1
    BY <1>4, InFinite, FS_AddElement
  <2> QED BY <1>4, <1>7, <2>3, <2>4 DEF ms, s, Buffers
<1> QED
  BY <1>6, <1>7

\* How the counts of the buffered gradients go on.
LEMMA CommitBuffered ==
  ASSUME scenario \in Scenarios, NEW c \in Nat, NEW extra \in Nat, NEW k, k \in (c % scenario.period)..((c % scenario.period) + extra),
         NEW l, l = IF (c + 1) % scenario.period = 0 THEN 0 ELSE k + 1
  PROVE  /\ l \in ((c + 1) % scenario.period)..(((c + 1) % scenario.period) + extra)
         /\ (c + 1) % scenario.period = 0 => k + 1 \in scenario.period..(scenario.period + extra)
<1>. DEFINE n == scenario.period
            i == c % n
            j == (c + 1) % n
<1>1. n \in Nat \ {0}
  BY Scenario
<1>2. i \in 0..(n - 1) /\ (j = 0 => i = n - 1) /\ (j # 0 => j = i + 1)
  BY <1>1, CountSteps
<1>3. k \in i..(i + extra) /\ l = IF j = 0 THEN 0 ELSE k + 1
  OBVIOUS
<1>. HIDE DEF i, j, n
<1>4. l \in j..(j + extra) /\ (j = 0 => k + 1 \in n..(n + extra))
  BY <1>1, <1>2, <1>3
<1> QED
  BY <1>4 DEF i, j, n

LEMMA ExtraGrows ==
  ASSUME scenario \in Scenarios, restarts \in Nat
  PROVE  /\ Extra \in Nat
         /\ scenario' = scenario /\ restarts' = restarts + 1 => Extra' = Extra + scenario.period - 1
         /\ scenario' = scenario /\ restarts' = restarts => Extra' = Extra
<1>1. scenario.period \in Nat \ {0}
  BY Scenario
<1>. DEFINE n == scenario.period
<1>2. \A i \in Nat : i * (n - 1) \in Nat /\ (i + 1) * (n - 1) = i * (n - 1) + n - 1
  BY <1>1
<1> QED
  BY <1>2 DEF Extra

LEMMA MilestoneKept ==
  ASSUME JobsInv, JobsInv', TypedInv, TypedInv', ArrivedInv, OrderInv, SpentInv, MilestoneInv, StepsNext
  PROVE  MilestoneInv'
<1>. DEFINE n == scenario.period
            Whole(k, c, extra) == k \in (c % n)..((c % n) + extra)
            OwnKept == scenario.method = "diloco" => \A t \in Tensors :
                         /\ Whole(Cardinality(In(own'.state[t].buffer)), own'.count, Extra')
                         /\ Cardinality(In(disk'.state[t].buffer)) \in 0..(Extra' + n - 1)
            SecondKept == scenario.method = "heloco" => \A t \in Tensors :
                            Whole(Cardinality(In(second'.state[t].buffer)), second'.count, Extra')
<1>0. scenario' = scenario /\ scenario \in Scenarios /\ ModelsTyped /\ Ids' = Ids /\ Tensors' = Tensors
  BY ScenarioStays, JobShapes, TypedParts, SameSpace
<1>1. \A x : In(x)' = In(x')
  BY <1>0 DEF In
<1>2. OwnKept /\ SecondKept => MilestoneInv'
  BY <1>0, <1>1 DEF MilestoneInv, BufferedIn
<1>. SUFFICES ASSUME scenario.fragments = 1 PROVE MilestoneInv'
  BY <1>0 DEF MilestoneInv
<1>3. n \in Nat \ {0} /\ Extra \in Nat /\ restarts \in Nat /\ own.count \in Nat /\ second.count \in Nat
  BY <1>0, Scenario, ExtraGrows DEF TypedInv, ModelsTyped
<1>4. scenario.method = "diloco" => \A t \in Tensors :
        /\ Whole(Cardinality(In(own.state[t].buffer)), own.count, Extra)
        /\ Cardinality(In(disk.state[t].buffer)) \in 0..(Extra + n - 1)
  BY DEF MilestoneInv, BufferedIn
<1>5. scenario.method = "heloco" => \A t \in Tensors : Whole(Cardinality(In(second.state[t].buffer)), second.count, Extra)
  BY DEF MilestoneInv, BufferedIn
<1>. HIDE DEF n
<1>6. ASSUME UNCHANGED <<own, second, restarts>>, disk' \in {disk, Saved} PROVE MilestoneInv'
  <2>1. Extra' = Extra
    BY <1>0, <1>3, <1>6, ExtraGrows
  <2>2. SecondKept
    BY <1>5, <1>6, <2>1
  <2>3. OwnKept
    <3>. SUFFICES ASSUME scenario.method = "diloco", NEW t \in Tensors
                  PROVE  Cardinality(In(disk'.state[t].buffer)) \in 0..(Extra + n - 1)
      BY <1>4, <1>6, <2>1
    <3>1. CASE disk' = disk
      BY <1>4, <3>1
    <3>2. CASE disk' = Saved
      <4>. DEFINE k == Cardinality(In(own.state[t].buffer))
                  c == own.count % n
      <4>1. disk'.state = own.state
        BY <3>2 DEF Saved
      <4>2. k \in c..(c + Extra) /\ c \in 0..(n - 1)
        BY <1>3, <1>4, CountSteps
      <4>. HIDE DEF k, c
      <4>3. k \in 0..(Extra + n - 1)
        BY <1>3, <4>2
      <4> QED BY <4>1, <4>3 DEF k
    <3> QED BY <1>6, <3>1, <3>2
  <2>. HIDE DEF OwnKept, SecondKept
  <2> QED BY <1>2, <2>2, <2>3
<1>7. ASSUME NEW th \in Handlers, CommitPush(th) PROVE MilestoneInv'
  <2>. DEFINE p == Present(th)
  <2>1. p \in DOMAIN pushes /\ p \notin Committed /\ p \in Ids
    BY <1>7, CommitCounts, Counting
  <2>2. PICK name \in {"own", "second"}, gain \in {1, 2} : CommitsTo(name, p, gain)
    BY <1>7, CommitDoes
  <2>. HIDE DEF p
  <2>3. Without(theta, own.state, base["own"], p) /\ Without(theta, second.state, base["second"], p)
    BY <2>1 DEF SpentInv
  <2>4. \A t \in Tensors : /\ ~Holds(own.state[t], p) /\ ~Holds(second.state[t], p) /\ t \in Covered(p)
                           /\ theta[t] \in Vector /\ own.state[t] \in State /\ second.state[t] \in State
    BY <1>0, <2>1, <2>3, CoveredTensors DEF Without, ModelsTyped, States, State
  <2>5. disk' = disk /\ Extra' = Extra
    BY <1>0, <1>3, <2>2, ExtraGrows DEF CommitsTo
  <2>z. scenario.method # "bayes" => pushes[p].zero = {}
    BY <2>1 DEF ArrivedInv
  <2>6. ASSUME NEW o, NEW m, NEW b, NEW c, OneStep(name, o, m, b, c, p, gain), name = "second" \/ scenario.method = "diloco",
               scenario.method # "bayes", o.count \in Nat, NEW t \in Tensors, ~Holds(o.state[t], p), o.state[t] \in State,
               Whole(Cardinality(In(o.state[t].buffer)), o.count, Extra)
        PROVE  Whole(Cardinality(In(m.state[t].buffer)), m.count, Extra)
    <3>. DEFINE k == Cardinality(In(o.state[t].buffer))
                l == Cardinality(In(m.state[t].buffer))
                d == o.count
    <3>1. l = IF (d + 1) % n = 0 THEN 0 ELSE k + 1
      <4>1. pushes[p].zero = {} /\ t \in Covered(p) /\ theta[t] \in Vector
        BY <2>4, <2>6, <2>z
      <4>2. Buffers(o, m, p, t)
        BY <1>0, <2>1, <2>6, <4>1, CommitBuffers
      <4> QED BY <4>2 DEF Buffers, AtMilestone, n
    <3>2. k \in (d % n)..((d % n) + Extra) /\ d \in Nat /\ m.count = d + 1
      BY <2>6 DEF OneStep
    <3>. HIDE DEF k, l, d
    <3>3. l \in ((d + 1) % n)..(((d + 1) % n) + Extra)
      BY <1>0, <1>3, <3>1, <3>2, CommitBuffered DEF n
    <3> QED BY <3>2, <3>3 DEF l
  <2>7. CASE name = "own"
    <3>1. OneStep(name, own, own', base["own"], base'["own"], p, gain) /\ second' = second
      BY <2>2, <2>7 DEF CommitsTo
    <3>2. SecondKept
      BY <1>5, <2>5, <3>1
    <3>3. OwnKept
      <4>. SUFFICES ASSUME scenario.method = "diloco", NEW t \in Tensors
                    PROVE  Whole(Cardinality(In(own'.state[t].buffer)), own'.count, Extra)
        BY <1>4, <2>5
      <4>. HIDE DEF Whole
      <4> QED BY <1>3, <1>4, <2>4, <2>6, <3>1
    <3>. HIDE DEF OwnKept, SecondKept
    <3> QED BY <1>2, <3>2, <3>3
  <2>8. CASE name = "second"
    <3>1. OneStep(name, second, second', base["second"], base'["second"], p, gain) /\ own' = own /\ scenario.method = "heloco"
      BY <2>2, <2>8 DEF CommitsTo, IsDiloco
    <3>2. OwnKept
      BY <3>1
    <3>3. SecondKept
      <4>. SUFFICES ASSUME NEW t \in Tensors
                    PROVE  Whole(Cardinality(In(second'.state[t].buffer)), second'.count, Extra)
        BY <2>5
      <4>. HIDE DEF Whole
      <4> QED BY <1>3, <1>5, <2>4, <2>6, <2>8, <3>1
    <3>. HIDE DEF OwnKept, SecondKept
    <3> QED BY <1>2, <3>2, <3>3
  <2> QED BY <2>7, <2>8
<1>8. CASE RestartFromDisk
  <2>1. own'.state = disk.state /\ own'.count = 0 /\ second' = NoOptimizer /\ disk' = disk /\ restarts' = restarts + 1
    BY <1>8 DEF RestartFromDisk
  <2>2. Extra' = Extra + n - 1 /\ 0 % n = 0 /\ Extra' \in Nat
    BY <1>0, <1>3, <2>1, ExtraGrows, CountSteps DEF n
  <2>3. OwnKept
    <3>. SUFFICES ASSUME scenario.method = "diloco", NEW t \in Tensors
                  PROVE  /\ Whole(Cardinality(In(disk.state[t].buffer)), 0, Extra')
                         /\ Cardinality(In(disk.state[t].buffer)) \in 0..(Extra' + n - 1)
      BY <2>1
    <3>1. Cardinality(In(disk.state[t].buffer)) \in 0..(Extra + n - 1)
      BY <1>4
    <3> QED BY <1>3, <2>2, <3>1
  <2>4. SecondKept
    <3>. SUFFICES ASSUME NEW t \in Tensors PROVE Whole(Cardinality(In(second'.state[t].buffer)), second'.count, Extra')
      OBVIOUS
    <3>1. In(second'.state[t].buffer) = {} /\ second'.count = 0
      BY <2>1, FreshTyped DEF In
    <3>2. Cardinality(In(second'.state[t].buffer)) = 0
      BY <3>1, FS_EmptySet
    <3> QED BY <2>2, <3>1, <3>2
  <2>. HIDE DEF OwnKept, SecondKept
  <2> QED BY <1>2, <2>3, <2>4
<1>9. ASSUME NEW th \in Handlers, Begin(th) \/ ReadMomentum(th) \/ Finish(th) PROVE MilestoneInv'
  BY <1>6, <1>9 DEF Begin, ReadMomentum, Finish
<1> QED
  BY <1>7, <1>8, <1>9 DEF StepsNext

-----------------------------------------------------------------------------
(* The outer steps: what a momentum keeps. *)

\* One coefficient of a momentum that takes in its half of each gradient.
LEMMA Retained ==
  ASSUME scenario \in Scenarios, NEW L \in Nat \ {0}, NEW K \in Nat \ {0}, L = 2 * K, L <= 2^scenario.pushes,
         NEW m \in Int, NEW g \in {0, One}, m = 0 \/ m >= L, g = 0 \/ m = 0, NEW k, k = (m + g) \div 2
  PROVE  (k = 0 \/ k >= K) /\ (m # 0 \/ g # 0 => k # 0)
<1>1. One \div 2 >= 2^scenario.pushes /\ One \in Nat \ {0} /\ 2^scenario.pushes \in Nat
  <2>1. scenario.pushes \in Nat
    BY StepAssumption
  <2> QED BY <2>1, Units, PowerSteps
<1>. DEFINE w == 2^scenario.pushes
<1>. HIDE DEF w
<1>2. CASE g = 0
  <2>1. k = m \div 2
    BY <1>2
  <2> QED BY <1>2, <2>1
<1>3. CASE g = One
  <2>1. k = One \div 2
    BY <1>1, <1>3
  <2>2. k >= w /\ w >= L /\ w \in Nat
    BY <1>1, <2>1 DEF w
  <2> QED BY <2>2
<1> QED
  BY <1>2, <1>3

LEMMA RetainKept ==
  ASSUME JobsInv, JobsInv', TypedInv, ArrivedInv, ArrivedInv', OrderInv, SpentInv, RetainInv, StepsNext
  PROVE  RetainInv'
<1>. DEFINE L == Lasting
            K == Lasting'
            Kept(s) == \A t \in Tensors : \A q \in Ids : s[t].m[q] = 0 \/ s[t].m[q] >= K
            Read(s, j) == \A t \in Tensors : \A i \in 1..(j.at - 1) : s[t].m[j.batch[i]] # 0
            HereKept == Kept(own'.state) /\ Kept(disk'.state)
            ReadKept == \A th \in Handlers : Busy(th)' => Read(own'.state, job'[th])
<1>0. scenario' = scenario /\ scenario \in Scenarios /\ ModelsTyped /\ Ids' = Ids /\ Tensors' = Tensors
  BY ScenarioStays, JobShapes, TypedParts, SameSpace
<1>. SUFFICES ASSUME scenario.method = "heloco", scenario.grace PROVE RetainInv'
  BY <1>0 DEF RetainInv
<1>1. K \in Nat \ {0} /\ K <= L /\ L \in Nat \ {0} /\ L <= 2^scenario.pushes
  BY CountingMoves, Counting
<1>2. HereKept /\ ReadKept => RetainInv'
  BY <1>0 DEF RetainInv
<1>3. /\ \A t \in Tensors : \A q \in Ids : /\ own.state[t].m[q] = 0 \/ own.state[t].m[q] >= L
                                           /\ disk.state[t].m[q] = 0 \/ disk.state[t].m[q] >= L
      /\ \A th \in Handlers : Busy(th) => Read(own.state, job[th])
  BY DEF RetainInv
<1>. HIDE DEF L, K
<1>4. /\ \A t \in Tensors : \A q \in Ids : own.state[t].m[q] \in Int /\ disk.state[t].m[q] \in Int
  BY <1>0 DEF ModelsTyped, States, Vector
<1>5. Kept(own.state) /\ Kept(disk.state)
  BY <1>1, <1>3, <1>4
<1>6. ASSUME own' = own, disk' \in {disk, Saved} PROVE HereKept
  <2>1. disk' = Saved => disk'.state = own.state
    BY DEF Saved
  <2>. HIDE DEF Kept
  <2> QED BY <1>5, <1>6, <2>1
<1>7. ASSUME NEW th \in Handlers, CommitPush(th) PROVE HereKept /\ ReadKept
  <2>. DEFINE p == Present(th)
  <2>1. p \in DOMAIN pushes /\ p \notin Committed /\ p \in Ids /\ L = 2 * K
    BY <1>7, CommitCounts, CountingMoves, Counting DEF L, K
  <2>2. PICK name \in {"own", "second"}, gain \in {1, 2} : CommitsTo(name, p, gain)
    BY <1>7, CommitDoes
  <2>m. /\ Busy(th) /\ Others(th) /\ job'[th].batch = job[th].batch
        /\ job'[th].at = job[th].at \/ job'[th].at = job[th].at + 1
        /\ job[th].at \in 1..Len(job[th].batch) /\ Len(job[th].batch) \in Nat
        /\ \A h \in Handlers : Busy(h) => \A i \in 1..Len(job[h].batch) : job[h].batch[i] \in Ids
        /\ \A h \in Handlers : Busy(h) => job[h].at \in 1..Len(job[h].batch) /\ Len(job[h].batch) \in Nat
    <3>1. DOMAIN pushes \subseteq Ids
      BY Counting
    <3> QED BY <1>7, <3>1, CommitMoves, JobShapes
  <2>p. p = job[th].batch[job[th].at]
    BY DEF Present
  <2>. HIDE DEF p
  <2>3. name = "own"
    <3>1. pushes[p].island = Unknown
      BY <2>1 DEF ArrivedInv
    <3>2. ~IsDiloco(pushes[p].island)
      BY <3>1 DEF IsDiloco, GetsCorrection
    <3> QED BY <2>2, <3>2 DEF CommitsTo
  <2>4. OneStep("own", own, own', base["own"], base'["own"], p, gain) /\ disk' = disk
    BY <2>2, <2>3 DEF CommitsTo
  <2>5. Without(theta, own.state, base["own"], p)
    BY <2>1 DEF SpentInv
  <2>6. \A t \in Tensors : t \in Covered(p) /\ own.state[t].m[p] = 0 /\ theta[t] \in Vector /\ own.state[t] \in State
    <3>1. scenario.fragments = 1
      BY <1>0, StepAssumption
    <3> QED BY <1>0, <2>1, <2>5, <3>1, CoveredTensors DEF Without, Holds, ModelsTyped, States, State
  <2>z. pushes[p].zero = {}
    BY <2>1 DEF ArrivedInv
  <2>7. ASSUME NEW t \in Tensors, NEW q \in Ids
        PROVE  /\ own'.state[t].m[q] = 0 \/ own'.state[t].m[q] >= K
               /\ own.state[t].m[q] # 0 \/ q = p => own'.state[t].m[q] # 0
    <3>. DEFINE g == Grad(p, t)
                r == Stepped("own", own, t, g, gain)
                s == own.state[t]
                m == s.m[q]
                k == r.s.m[q]
                gq == g[q]
    <3>1. own'.state[t] = r.s
      BY <2>4, <2>6 DEF OneStep
    <3>2. g \in Vector /\ gq = IF q = p THEN One ELSE 0
      BY <2>z, GradTyped
    <3>3. r = MomentumLookAhead(theta[t], s, g) /\ s \in State /\ theta[t] \in Vector
      BY <1>0, <2>6, SteppedIs
    <3>4. m \in Int /\ (m = 0 \/ m >= L) /\ (q = p => m = 0)
      BY <1>3, <1>4, <2>6
    <3>. HIDE DEF r, g, s
    <3>5. k = (m + gq) \div 2
      BY <3>2, <3>3, LookAheadIs
    <3>. HIDE DEF k, m, gq
    <3>6. gq \in {0, One} /\ (gq = 0 \/ m = 0) /\ One # 0
      BY <1>0, <3>2, <3>4, Scenario
    <3>7. (k = 0 \/ k >= K) /\ (m # 0 \/ gq # 0 => k # 0)
      BY <1>0, <1>1, <2>1, <3>4, <3>5, <3>6, Retained
    <3> QED BY <3>1, <3>2, <3>6, <3>7 DEF k, m, s
  <2>8. HereKept
    BY <1>5, <2>4, <2>7
  <2>9. ASSUME NEW h \in Handlers, Busy(h)', NEW t \in Tensors, NEW i \in 1..(job'[h].at - 1)
        PROVE  own'.state[t].m[job'[h].batch[i]] # 0
    <3>1. Busy(h) /\ job'[h].batch = job[h].batch
      BY <2>9, <2>m DEF Others, Busy
    <3>2. CASE i \in 1..(job[h].at - 1)
      <4>1. i \in 1..Len(job[h].batch)
        BY <2>m, <3>1, <3>2
      <4>2. own.state[t].m[job[h].batch[i]] # 0 /\ job[h].batch[i] \in Ids
        BY <1>3, <2>m, <3>1, <3>2, <4>1
      <4> QED BY <2>7, <3>1, <4>2
    <3>3. CASE i \notin 1..(job[h].at - 1)
      <4>1. h = th
        BY <2>9, <2>m, <3>3 DEF Others
      <4>2. i = job[th].at
        BY <2>9, <2>m, <3>3, <4>1
      <4> QED BY <2>1, <2>7, <2>p, <3>1, <4>1, <4>2
    <3> QED BY <3>2, <3>3
  <2> QED BY <2>8, <2>9
<1>8. CASE RestartFromDisk
  <2>1. own'.state = disk.state /\ disk' = disk /\ job' = [th \in Handlers |-> Idle]
    BY <1>8 DEF RestartFromDisk
  <2>2. \A th \in Handlers : ~Busy(th)'
    BY <2>1 DEF Busy, Idle
  <2> QED BY <1>2, <1>5, <2>1, <2>2
<1>9. ASSUME NEW th \in Handlers, Begin(th) \/ ReadMomentum(th) \/ Finish(th) PROVE HereKept /\ ReadKept
  <2>1. own' = own /\ disk' \in {disk, Saved}
    BY <1>9 DEF Begin, ReadMomentum, Finish
  <2>2. Others(th)
    BY <1>9, BeginMoves, ReadMoves, FinishMoves
  <2>3. Busy(th)' => job'[th].at = 1 \/ (Busy(th) /\ job'[th].batch = job[th].batch /\ job'[th].at = job[th].at)
    <3>1. CASE Begin(th)
      <4>1. PICK batch \in Seq(Arriving) : /\ Others(th)
                                       /\ job'[th] = [phase |-> "received", batch |-> [i \in 1..Len(batch) |-> Len(pushes) + i],
                                                       at |-> 1, read |-> <<>>]
        BY <3>1, BeginMoves
      <4> QED BY <4>1
    <3>2. CASE ReadMomentum(th)
      BY <3>2, ReadMoves
    <3>3. CASE Finish(th)
      <4>1. job'[th] = Idle
        BY <3>3, FinishMoves
      <4> QED BY <4>1 DEF Busy, Idle
    <3> QED BY <1>9, <3>1, <3>2, <3>3
  <2>4. ASSUME NEW h \in Handlers, Busy(h)' PROVE Read(own'.state, job'[h])
    <3>1. CASE h = th
      BY <1>3, <2>1, <2>3, <2>4, <3>1
    <3>2. CASE h # th
      <4>1. job'[h] = job[h] /\ Busy(h)
        BY <2>2, <2>4, <3>2 DEF Others, Busy
      <4> QED BY <1>3, <2>1, <4>1
    <3> QED BY <3>1, <3>2
  <2> QED BY <1>6, <2>1, <2>4
<1>. HIDE DEF HereKept, ReadKept
<1> QED
  BY <1>2, <1>7, <1>8, <1>9 DEF StepsNext

\* What a received push says stays, and so do the tensors it covers.
LEMMA PushesStay ==
  ASSUME JobsInv, StepsNext, NEW p \in DOMAIN pushes
  PROVE  p \in DOMAIN pushes' /\ pushes'[p] = pushes[p] /\ Covered(p)' = Covered(p) /\ ReadsFirst(p)' = ReadsFirst(p)
<1>1. scenario' = scenario
  BY ScenarioStays
<1>2. p \in DOMAIN pushes' /\ pushes'[p] = pushes[p]
  <2>1. ASSUME NEW th \in Handlers, Begin(th) PROVE p \in DOMAIN pushes' /\ pushes'[p] = pushes[p]
    BY <2>1, BeginMoves, Received
  <2>2. StepsNext => UNCHANGED pushes \/ \E th \in Handlers : Begin(th)
    BY DEF StepsNext, ReadMomentum, CommitPush, Finish, RestartFromDisk
  <2> QED BY <2>1, <2>2
<1> QED
  BY <1>1, <1>2 DEF Covered, ReadsFirst, IsDiloco, GetsCorrection

LEMMA BatchKept ==
  ASSUME JobsInv, TypedInv, ArrivedInv, OrderInv, RetainInv, BatchInOrder, StepsNext
  PROVE  BatchInOrder'
<1>. DEFINE Ordered(th) == \A i \in 1..(job[th].at - 1) : \A t \in Covered(Present(th)) : job[th].batch[i] \in In(job[th].read[t])
<1>1. Ids' = Ids /\ \A x : In(x)' = In(x')
  <2>1. Ids' = Ids
    BY ScenarioStays, SameSpace
  <2> QED BY <2>1 DEF In
<1>. SUFFICES ASSUME NEW th \in Handlers, job'[th].phase = "corrected" PROVE Ordered(th)'
  BY DEF BatchInOrder
<1>2. CASE job'[th] = job[th]
  <2>1. Busy(th) /\ Ordered(th)
    BY <1>2 DEF BatchInOrder, Busy
  <2>2. Present(th) \in DOMAIN pushes /\ Present(th)' = Present(th)
    BY <1>2, <2>1, JobShapes DEF Present
  <2>3. Covered(Present(th))' = Covered(Present(th))
    <3>1. \A p \in DOMAIN pushes : pushes'[p] = pushes[p] /\ scenario' = scenario
      BY PushesStay, ScenarioStays
    <3> QED BY <2>2, <3>1 DEF Covered
  <2> QED BY <1>1, <1>2, <2>1, <2>3
<1>3. CASE ReadMomentum(th)
  <2>1. /\ job'[th].batch = job[th].batch /\ job'[th].read = Momentum(Present(th)) /\ job'[th].at = job[th].at /\ Busy(th)
        /\ ReadsFirst(Present(th)) /\ UNCHANGED <<scenario, own, pushes>>
    BY <1>3, ReadMoves
  <2>2. Covered(Present(th))' = Covered(Present(th))
    BY <2>1 DEF Covered, Present
  <2>3. Present(th) \in DOMAIN pushes /\ job[th].at \in 1..Len(job[th].batch) /\ Len(job[th].batch) \in Nat
        /\ \A i \in 1..Len(job[th].batch) : job[th].batch[i] \in DOMAIN pushes
    BY <2>1, JobShapes DEF Present
  <2>. SUFFICES ASSUME NEW i \in 1..(job[th].at - 1), NEW t \in Covered(Present(th))
                PROVE  job[th].batch[i] \in In(own.state[t].m)
    BY <1>1, <2>1, <2>2 DEF Momentum
  <2>4. scenario.grace
    <3>. SUFFICES ASSUME ~scenario.grace PROVE FALSE
      OBVIOUS
    <3>1. Len(job[th].batch) = 1
      BY <2>1 DEF OrderInv
    <3> QED BY <2>3, <3>1
  <2>5. scenario.method = "heloco" /\ t \in Tensors
    BY <2>1, <2>3, CoveredTensors DEF ReadsFirst
  <2>6. own.state[t].m[job[th].batch[i]] # 0
    BY <2>1, <2>4, <2>5 DEF RetainInv
  <2>7. job[th].batch[i] \in Ids
    <3>1. i \in 1..Len(job[th].batch)
      BY <2>3
    <3> QED BY <2>3, <3>1, Counting
  <2> QED BY <2>6, <2>7 DEF In
<1>4. ASSUME job'[th] # job[th] PROVE ReadMomentum(th)
  <2>1. ASSUME NEW h \in Handlers, Others(h) PROVE h = th
    BY <1>4, <2>1 DEF Others
  <2>2. ASSUME NEW h \in Handlers, Begin(h) PROVE FALSE
    <3>1. PICK batch \in Seq(Arriving) : /\ Others(h)
                                       /\ job'[h] = [phase |-> "received", batch |-> [i \in 1..Len(batch) |-> Len(pushes) + i],
                                                       at |-> 1, read |-> <<>>]
      BY <2>2, BeginMoves
    <3>2. job'[h].phase = "received"
      BY <3>1
    <3> QED BY <2>1, <3>1, <3>2
  <2>3. ASSUME NEW h \in Handlers, CommitPush(h) PROVE FALSE
    <3>1. job'[h].phase \in {"received", "applied"} /\ Others(h)
      BY <2>3, CommitMoves
    <3> QED BY <2>1, <3>1
  <2>4. ASSUME NEW h \in Handlers, Finish(h) PROVE FALSE
    <3>1. job'[h] = Idle /\ Others(h)
      BY <2>4, FinishMoves
    <3> QED BY <2>1, <3>1 DEF Idle
  <2>5. ASSUME NEW h \in Handlers, ReadMomentum(h) PROVE h = th
    BY <2>1, <2>5, ReadMoves
  <2>6. ~RestartFromDisk
    BY DEF RestartFromDisk, Idle
  <2> QED BY <2>2, <2>3, <2>4, <2>5, <2>6 DEF StepsNext
<1> QED
  BY <1>2, <1>3, <1>4

-----------------------------------------------------------------------------
(* The outer steps: what Bayes takes in. *)

Mixes(gain, m, x, g, G, k, y) ==
  /\ gain \in {1, 2} /\ m \in Nat /\ x \in Int /\ x <= 0 /\ g \in {0, One}
  /\ m # 0 => x # 0
  /\ g = 0 \/ x = 0
  /\ G = m + ((gain * (g - m)) \div 2) /\ k = (m + G) \div 2 /\ y = x - (G + (k \div 2))

Listens(x, g, k, y) == k \in Nat /\ y <= 0 /\ (k # 0 => y # 0) /\ (y # 0 <=> x # 0 \/ g # 0)

\* One coefficient in a step of Bayes that blends the gradient in.
LEMMA Listened ==
  ASSUME scenario \in Scenarios, NEW gain, NEW m, NEW x, NEW g, NEW G, NEW k, NEW y, Mixes(gain, m, x, g, G, k, y)
  PROVE  Listens(x, g, k, y)
<1>. USE DEF Mixes
<1>1. One \div 2 >= 1 /\ One \in Nat \ {0}
  <2>1. scenario.pushes \in Nat
    BY StepAssumption
  <2>2. 2^scenario.pushes \in Nat \ {0} /\ One \div 2 >= 2^scenario.pushes /\ One \in Nat \ {0}
    BY <2>1, Units, PowerSteps
  <2>. DEFINE w == 2^scenario.pushes
  <2>. HIDE DEF w
  <2>3. w \in Nat \ {0} /\ One \div 2 >= w
    BY <2>2 DEF w
  <2> QED BY <2>2, <2>3
<1>2. G \in Nat /\ (g = 0 /\ m = 0 => G = 0) /\ (g # 0 => G >= 1)
  <2>1. CASE g = 0 /\ gain = 1
    <3>1. G = m + ((0 - m) \div 2)
      BY <2>1
    <3> QED BY <2>1, <3>1
  <2>2. CASE g = 0 /\ gain = 2
    <3>1. (2 * (0 - m)) \div 2 = 0 - m
      OBVIOUS
    <3>2. G = m + (0 - m)
      BY <2>2, <3>1
    <3> QED BY <2>2, <3>2
  <2>3. CASE g = One
    <3>1. m = 0
      BY <1>1, <2>3
    <3>2. G = 0 + ((gain * (One - 0)) \div 2)
      BY <2>3, <3>1
    <3>3. G = (gain * One) \div 2
      BY <1>1, <3>2
    <3>4. (2 * One) \div 2 = One
      BY <1>1
    <3>5. CASE gain = 1
      <4>1. G = One \div 2
        BY <1>1, <3>3, <3>5
      <4> QED BY <1>1, <2>3, <4>1
    <3>6. CASE gain = 2
      <4>1. G = One
        BY <3>3, <3>4, <3>6
      <4> QED BY <1>1, <2>3, <4>1
    <3> QED BY <3>5, <3>6
  <2> QED BY <2>1, <2>2, <2>3
<1>3. k \in Nat /\ (m = 0 /\ G = 0 => k = 0)
  BY <1>2
<1>. DEFINE h == k \div 2
<1>4. h \in Nat /\ (k = 0 => h = 0)
  BY <1>3
<1>5. y = x - (G + h)
  OBVIOUS
<1>. HIDE DEF h
<1> QED
  BY <1>1, <1>2, <1>3, <1>4, <1>5 DEF Listens

\* What is said of a tensor's coefficients.
Heard(x, s) == \A q \in Ids : s.m[q] \in Nat /\ x[q] <= 0 /\ (s.m[q] # 0 => x[q] # 0) /\ (x[q] # 0 => s.seen /\ s.sure)

Hears(x, s, g, r) ==
  LET sure == IF s.seen THEN s.sure ELSE g # Zero IN
  /\ r.s.seen = TRUE /\ (r.s.sure <=> sure)
  /\ \A q \in Ids : /\ r.s.m[q] \in Nat /\ r.x[q] <= 0 /\ (r.s.m[q] # 0 => r.x[q] # 0)
                    /\ r.x[q] # 0 <=> x[q] # 0 \/ (sure /\ g[q] # 0)

LEMMA BayesHears ==
  ASSUME scenario \in Scenarios, NEW x \in Vector, NEW s \in State, NEW g \in Vector, NEW gain \in {1, 2},
         Heard(x, s), \A q \in Ids : g[q] \in {0, One} /\ (g[q] = 0 \/ x[q] = 0)
  PROVE  Hears(x, s, g, Bayes(x, s, g, gain))
<1>. DEFINE r == Bayes(x, s, g, gain)
            sure == IF s.seen THEN s.sure ELSE g # Zero
<1>1. BayesDoes(x, s, g, gain)
  BY BayesIs
<1>2. r.s.seen = TRUE /\ (r.s.sure <=> sure \/ s.m # Zero) /\ \A q \in Ids : BayesAt(x, s, g, gain, q)
  BY <1>1 DEF BayesDoes
<1>3. s.m \in Vector /\ \A q \in Ids : x[q] \in Int
  BY DEF State, Vector
<1>4. \A q \in Ids : s.m[q] # 0 => s.seen /\ s.sure
  BY DEF Heard
<1>5. s.m # Zero => \E q \in Ids : s.m[q] # 0
  BY <1>3 DEF Vector, Zero
<1>6. s.m # Zero => sure
  BY <1>4, <1>5
<1>. HIDE DEF r
<1>7. ASSUME NEW q \in Ids
      PROVE  /\ r.s.m[q] \in Nat /\ r.x[q] <= 0 /\ (r.s.m[q] # 0 => r.x[q] # 0)
             /\ r.x[q] # 0 <=> x[q] # 0 \/ (sure /\ g[q] # 0)
  <2>. DEFINE G == IF sure THEN Blended(s, g, gain, q) ELSE s.m[q]
              m == s.m[q]
              xq == x[q]
              gq == g[q]
              k == r.s.m[q]
              y == r.x[q]
  <2>1. k = (m + G) \div 2 /\ y = xq - (G + (k \div 2))
    BY <1>2 DEF BayesAt, r
  <2>2. m \in Nat /\ xq \in Int /\ xq <= 0 /\ (m # 0 => xq # 0) /\ gq \in {0, One} /\ (gq = 0 \/ xq = 0)
    BY <1>3 DEF Heard
  <2>5. xq # 0 => s.seen /\ s.sure
    BY DEF Heard
  <2>3. CASE sure
    <3>1. G = m + ((gain * (gq - m)) \div 2)
      BY <2>3 DEF Blended
    <3>. HIDE DEF G, m, xq, gq, k, y, sure
    <3>3. Mixes(gain, m, xq, gq, G, k, y)
      BY <2>1, <2>2, <3>1 DEF Mixes
    <3>2. Listens(xq, gq, k, y)
      BY <3>3, Listened
    <3> QED BY <2>3, <3>2 DEF k, y, xq, gq, Listens
  <2>4. CASE ~sure
    <3>1. xq = 0 /\ m = 0 /\ G = m
      BY <2>2, <2>4, <2>5
    <3>. HIDE DEF G, m, xq, gq, k, y, sure
    <3>2. k = (0 + 0) \div 2 /\ y = 0 - (0 + (k \div 2))
      BY <2>1, <3>1, Zenon
    <3>3. k = 0
      <4>1. 2 \in Nat \ {0} /\ 0 + 0 = 0 /\ \A i \in Nat \ {0} : 0 \div i = 0
        BY NoneOfNone
      <4> QED BY <3>2, <4>1, Zenon
    <3>4. y = 0
      <4>1. 2 \in Nat \ {0} /\ 0 + 0 = 0 /\ 0 - 0 = 0 /\ \A i \in Nat \ {0} : 0 \div i = 0
        BY NoneOfNone
      <4>2. 0 \div 2 = 0
        BY <4>1, Zenon
      <4> QED BY <3>2, <3>3, <4>1, <4>2, Zenon
    <3> QED BY <2>4, <3>1, <3>3, <3>4 DEF k, y, xq, gq
  <2> QED BY <2>3, <2>4
<1>. HIDE DEF sure
<1>8. r.s.sure <=> sure
  BY <1>2, <1>6
<1> QED
  BY <1>2, <1>7, <1>8 DEF Hears, r, sure

\* Without a grace period a push is committed before the next one is received.
LEMMA LastCommitted ==
  ASSUME JobsInv, OrderInv, NEW th \in Handlers, CommitPush(th), ~scenario.grace
  PROVE  Present(th) = Len(pushes) /\ Committed = DOMAIN pushes \ {Present(th)}
<1>1. Busy(th) /\ job[th].phase \in {"received", "corrected"}
  BY CommitMoves
<1>2. job[th].at \in 1..Len(job[th].batch) /\ Len(job[th].batch) = 1 /\ job[th].batch[1] = Len(pushes)
      /\ \A h \in Handlers : h # th => ~Busy(h)
  BY <1>1, JobShapes DEF OrderInv
<1>3. job[th].at = 1
  BY <1>2
<1>4. Waiting(th) = {Present(th)}
  <2>1. Waiting(th) = {job[th].batch[i] : i \in 1..1}
    BY <1>1, <1>2, <1>3 DEF Waiting
  <2>2. 1..1 = {1}
    OBVIOUS
  <2> QED BY <1>3, <2>1, <2>2 DEF Present
<1>5. \A h \in Handlers : h # th => Waiting(h) = {}
  BY <1>2 DEF Waiting, Busy
<1>6. UNION {Waiting(h) : h \in Handlers} = {Present(th)}
  BY <1>4, <1>5
<1> QED
  BY <1>2, <1>3, <1>6 DEF Committed, Present

\* What ListensInv says of one tensor.
Listening(t) ==
  /\ own.state[t].seen <=> \E p \in Committed : t \in Covered(p)
  /\ own.state[t].sure <=> own.state[t].seen /\ ~StartsAtZero(t)
  /\ \A q \in Ids :
       /\ own.state[t].m[q] \in Nat /\ theta[t][q] <= 0
       /\ own.state[t].m[q] # 0 => theta[t][q] # 0
       /\ theta[t][q] # 0 <=>
            own.state[t].sure /\ q \in Committed /\ t \in Covered(q) /\ t \notin pushes[q].zero

\* A new push does not change what the first one for a tensor was.
LEMMA FirstStays ==
  ASSUME JobsInv, NEW batch \in Seq(Arriving), pushes' = pushes \o batch, scenario' = scenario, NEW t,
         NEW seen \in DOMAIN pushes, t \in Covered(seen)
  PROVE  StartsAtZero(t)' <=> StartsAtZero(t)
<1>1. /\ Len(pushes) \in Nat /\ Len(pushes') \in Nat /\ DOMAIN pushes = 1..Len(pushes) /\ DOMAIN pushes' = 1..Len(pushes')
      /\ \A p \in DOMAIN pushes : p \in DOMAIN pushes' /\ pushes'[p] = pushes[p]
  BY Received, JobShapes
<1>2. \A p \in DOMAIN pushes : Covered(p)' = Covered(p)
  BY <1>1 DEF Covered
<1>3. StartsAtZero(t)' <=> \E p \in DOMAIN pushes' : /\ t \in Covered(p)' /\ t \in pushes'[p].zero
                                                     /\ \A earlier \in 1..(p - 1) : t \notin Covered(earlier)'
  BY DEF StartsAtZero
<1>4. \A p \in DOMAIN pushes : \A earlier \in 1..(p - 1) : earlier \in DOMAIN pushes
  BY <1>1
<1>5. ASSUME StartsAtZero(t) PROVE StartsAtZero(t)'
  <2>1. PICK p \in DOMAIN pushes : /\ t \in Covered(p) /\ t \in pushes[p].zero
                                   /\ \A earlier \in 1..(p - 1) : t \notin Covered(earlier)
    BY <1>5 DEF StartsAtZero
  <2>2. t \in Covered(p)' /\ t \in pushes'[p].zero /\ p \in DOMAIN pushes'
    BY <1>1, <1>2, <2>1
  <2>3. \A earlier \in 1..(p - 1) : t \notin Covered(earlier)'
    BY <1>2, <1>4, <2>1
  <2> QED BY <1>3, <2>2, <2>3
<1>6. ASSUME StartsAtZero(t)' PROVE StartsAtZero(t)
  <2>1. PICK p \in DOMAIN pushes' : /\ t \in Covered(p)' /\ t \in pushes'[p].zero
                                    /\ \A earlier \in 1..(p - 1) : t \notin Covered(earlier)'
    BY <1>3, <1>6
  <2>2. p \in DOMAIN pushes
    <3>. SUFFICES ASSUME p \notin DOMAIN pushes PROVE FALSE
      OBVIOUS
    <3>1. seen \in 1..(p - 1)
      BY <1>1
    <3> QED BY <1>2, <2>1, <3>1
  <2>3. t \in Covered(p) /\ t \in pushes[p].zero /\ \A earlier \in 1..(p - 1) : t \notin Covered(earlier)
    BY <1>1, <1>2, <1>4, <2>1, <2>2
  <2> QED BY <2>2, <2>3 DEF StartsAtZero
<1> QED
  BY <1>5, <1>6

LEMMA ListensKept ==
  ASSUME JobsInv, JobsInv', TypedInv, TypedInv', ArrivedInv, OrderInv, SpentInv, ListensInv, StepsNext
  PROVE  ListensInv'
<1>0. scenario' = scenario /\ scenario \in Scenarios /\ ModelsTyped /\ Ids' = Ids /\ Tensors' = Tensors
  BY ScenarioStays, JobShapes, TypedParts, SameSpace
<1>1. ListensInv' <=> (scenario.method = "bayes" /\ ~scenario.grace /\ restarts' = 0 => \A t \in Tensors : Listening(t)')
  BY <1>0 DEF ListensInv, Listening
<1>. SUFFICES ASSUME scenario.method = "bayes", ~scenario.grace, restarts' = 0, NEW t \in Tensors PROVE Listening(t)'
  BY <1>1
<1>2. restarts = 0 /\ ~RestartFromDisk
  <2>1. restarts \in Nat
    BY DEF TypedInv
  <2>2. RestartFromDisk => restarts' = restarts + 1
    BY DEF RestartFromDisk
  <2>3. ~RestartFromDisk
    BY <2>1, <2>2
  <2>4. restarts' = restarts
    BY <2>3 DEF StepsNext, Begin, ReadMomentum, CommitPush, Finish
  <2> QED BY <2>3, <2>4
<1>3. Listening(t)
  BY <1>2 DEF ListensInv, Listening
<1>4. ASSUME NEW th \in Handlers, ReadMomentum(th) \/ Finish(th) PROVE Listening(t)'
  <2>1. UNCHANGED <<scenario, theta, own, pushes>>
    BY <1>4 DEF ReadMomentum, Finish
  <2>2. Committed' = Committed
    BY <1>4, RestCounts
  <2>3. \A p : Covered(p)' = Covered(p)
    BY <2>1 DEF Covered
  <2>4. StartsAtZero(t)' <=> StartsAtZero(t)
    BY <2>1, <2>3 DEF StartsAtZero
  <2> QED BY <1>0, <1>3, <2>1, <2>2, <2>3, <2>4 DEF Listening
<1>5. ASSUME NEW th \in Handlers, Begin(th) PROVE Listening(t)'
  <2>1. PICK batch \in Seq(Arriving) : pushes' = pushes \o batch
    BY <1>5, BeginMoves
  <2>2. UNCHANGED <<theta, own>>
    BY <1>5 DEF Begin
  <2>3. Committed' = Committed /\ Committed \subseteq DOMAIN pushes
    BY <1>5, RestCounts, Counting
  <2>4. \A p \in DOMAIN pushes : p \in DOMAIN pushes' /\ pushes'[p] = pushes[p] /\ Covered(p)' = Covered(p)
    BY PushesStay
  <2>5. own.state[t].seen => (StartsAtZero(t)' <=> StartsAtZero(t))
    <3>. SUFFICES ASSUME own.state[t].seen PROVE StartsAtZero(t)' <=> StartsAtZero(t)
      OBVIOUS
    <3>1. PICK seen \in Committed : t \in Covered(seen)
      BY <1>3 DEF Listening
    <3> QED BY <1>0, <2>1, <2>3, <3>1, FirstStays
  <2> QED BY <1>0, <1>3, <2>2, <2>3, <2>4, <2>5 DEF Listening
<1>6. ASSUME NEW th \in Handlers, CommitPush(th) PROVE Listening(t)'
  <2>. DEFINE p == Present(th)
              s == own.state[t]
              g == Grad(p, t)
  <2>1. p \in DOMAIN pushes /\ p \notin Committed /\ Committed' = Committed \cup {p} /\ p \in Ids
        /\ p = Len(pushes) /\ Committed = DOMAIN pushes \ {p} /\ Committed \subseteq Ids
    BY <1>6, CommitCounts, LastCommitted, Counting
  <2>2. PICK name \in {"own", "second"}, gain \in {1, 2} : CommitsTo(name, p, gain)
    BY <1>6, CommitDoes
  <2>. HIDE DEF p
  <2>3. OneStep("own", own, own', base["own"], base'["own"], p, gain) /\ UNCHANGED <<scenario, pushes>>
    BY <2>2 DEF CommitsTo, IsDiloco
  <2>4. \A q : Covered(q)' = Covered(q)
    BY <2>3 DEF Covered
  <2>5. StartsAtZero(t)' <=> StartsAtZero(t)
    BY <2>3, <2>4 DEF StartsAtZero
  <2>6. theta[t][p] = 0 /\ s.m[p] = 0
    <3>1. Without(theta, own.state, base["own"], p)
      BY <2>1 DEF SpentInv
    <3> QED BY <3>1 DEF Without, Holds
  <2>7. CASE t \notin Covered(p)
    <3>1. theta'[t] = theta[t] /\ own'.state[t] = own.state[t]
      BY <2>3, <2>7 DEF OneStep
    <3> QED BY <1>0, <1>3, <2>1, <2>3, <2>4, <2>5, <2>7, <3>1 DEF Listening
  <2>8. CASE t \in Covered(p)
    <3>. DEFINE r == Bayes(theta[t], s, g, gain)
                zero == t \in pushes[p].zero
                sure == IF s.seen THEN s.sure ELSE g # Zero
    <3>1. theta'[t] = r.x /\ own'.state[t] = r.s
      <4>1. Stepped("own", own, t, g, gain) = r
        BY <1>0, SteppedIs
      <4> QED BY <2>3, <2>8, <4>1 DEF OneStep
    <3>2. /\ g \in Vector /\ \A q \in Ids : g[q] = IF q = p /\ ~zero THEN One ELSE 0
          /\ g # Zero <=> ~zero
      BY <2>1, GradTyped
    <3>3. theta[t] \in Vector /\ s \in State /\ One \in Nat \ {0}
      BY <1>0, Scenario DEF ModelsTyped, States, State
    <3>4. Heard(theta[t], s)
      BY <1>3 DEF Heard, Listening
    <3>. HIDE DEF g
    <3>5. Hears(theta[t], s, g, r)
      <4>. DEFINE x == theta[t]
      <4>1. \A q \in Ids : g[q] \in {0, One} /\ (g[q] = 0 \/ x[q] = 0)
        BY <2>6, <3>2
      <4>. HIDE DEF x, s
      <4>2. Hears(x, s, g, Bayes(x, s, g, gain))
        BY <1>0, <3>2, <3>3, <3>4, <4>1, BayesHears DEF x
      <4> QED BY <4>2 DEF x
    <3>6. /\ r.s.seen = TRUE /\ (r.s.sure <=> sure)
          /\ \A q \in Ids : /\ r.s.m[q] \in Nat /\ r.x[q] <= 0 /\ (r.s.m[q] # 0 => r.x[q] # 0)
                            /\ r.x[q] # 0 <=> theta[t][q] # 0 \/ (sure /\ g[q] # 0)
      BY <3>5 DEF Hears
    <3>. HIDE DEF r, s, sure, zero
    <3>7. ~s.seen => \A q \in Committed : t \notin Covered(q)
      BY <1>3 DEF Listening, s
    <3>8. ~s.seen => (StartsAtZero(t) <=> zero)
      <4>. SUFFICES ASSUME ~s.seen PROVE StartsAtZero(t) <=> zero
        OBVIOUS
      <4>1. \A q \in 1..(p - 1) : q \in Committed
        <5>1. DOMAIN pushes = 1..Len(pushes) /\ Len(pushes) \in Nat
          BY JobShapes
        <5> QED BY <2>1, <5>1
      <4>2. \A q \in DOMAIN pushes : t \in Covered(q) => q = p
        BY <2>1, <3>7
      <4>3. ASSUME zero PROVE StartsAtZero(t)
        BY <2>1, <2>8, <3>7, <4>1, <4>3 DEF StartsAtZero, zero
      <4>4. ASSUME StartsAtZero(t) PROVE zero
        BY <4>2, <4>4 DEF StartsAtZero, zero
      <4> QED BY <4>3, <4>4
    <3>9. sure <=> ~StartsAtZero(t)
      <4>1. s.sure <=> s.seen /\ ~StartsAtZero(t)
        BY <1>3 DEF Listening, s
      <4>2. CASE s.seen
        BY <4>1, <4>2, <3>3 DEF sure, State
      <4>3. CASE ~s.seen
        BY <3>2, <3>8, <4>3 DEF sure
      <4> QED BY <4>2, <4>3
    <3>10. ASSUME NEW q \in Ids
           PROVE  r.x[q] # 0 <=> sure /\ q \in Committed' /\ t \in Covered(q) /\ t \notin pushes[q].zero
      <4>0. theta[t][q] # 0 <=> s.sure /\ q \in Committed /\ t \in Covered(q) /\ t \notin pushes[q].zero
        BY <1>3 DEF Listening, s
      <4>1. CASE q = p
        BY <2>1, <2>6, <2>8, <3>2, <3>3, <3>6, <4>1 DEF zero
      <4>2. CASE q # p
        <5>1. g[q] = 0
          BY <3>2, <4>2
        <5>2. r.x[q] # 0 <=> theta[t][q] # 0
          BY <3>6, <5>1
        <5>3. CASE s.seen
          BY <2>1, <4>0, <4>2, <5>2, <5>3, <3>3 DEF sure, State
        <5>4. CASE ~s.seen
          <6>1. ~(q \in Committed /\ t \in Covered(q))
            BY <3>7, <5>4
          <6> QED BY <2>1, <4>0, <4>2, <5>2, <6>1
        <5> QED BY <5>3, <5>4
      <4> QED BY <4>1, <4>2
    <3>11. own'.state[t].seen <=> \E q \in Committed' : t \in Covered(q)'
      BY <2>1, <2>4, <2>8, <3>1, <3>6
    <3>12. own'.state[t].sure <=> own'.state[t].seen /\ ~StartsAtZero(t)'
      BY <2>5, <3>1, <3>6, <3>9
    <3>13. \A q \in Ids :
             /\ own'.state[t].m[q] \in Nat /\ theta'[t][q] <= 0
             /\ own'.state[t].m[q] # 0 => theta'[t][q] # 0
             /\ theta'[t][q] # 0 <=>
                  own'.state[t].sure /\ q \in Committed' /\ t \in Covered(q)' /\ t \notin pushes'[q].zero
      BY <2>3, <2>4, <3>1, <3>6, <3>10
    <3> QED BY <1>0, <3>11, <3>12, <3>13 DEF Listening
  <2> QED BY <2>7, <2>8
<1> QED
  BY <1>2, <1>4, <1>5, <1>6 DEF StepsNext

-----------------------------------------------------------------------------
(* The outer steps: all of it. *)

SoundInv == StepsInv /\ ValuesInv /\ BatchInOrder

LEMMA SoundStart ==
  ASSUME StepsInit
  PROVE  SoundInv
<1>1. PICK s \in Scenarios : StepsInitAs(s)
  BY DEF StepsInit
<1>2. /\ scenario \in Scenarios /\ theta = [t \in Tensors |-> Zero] /\ own = NoOptimizer /\ second = NoOptimizer
      /\ pushes = <<>> /\ job = [th \in Handlers |-> Idle]
      /\ disk = [theta |-> theta, state |-> own.state, base |-> theta] /\ restarts = 0
      /\ base = [own |-> theta, second |-> theta]
  BY <1>1 DEF StepsInitAs
<1>3. StepsInv /\ JobsInv
  BY StepsStart DEF StepsInv
<1>4. /\ scenario.pushes \in Nat /\ scenario.restarts \in Nat /\ scenario.period \in Nat \ {0} /\ One \in Nat \ {0}
      /\ 0 \div scenario.period = 0
  BY <1>2, StepAssumption, Units
<1>5. Zero \in Vector /\ \A q \in Ids : Zero[q] = 0
  BY DEF Zero, Vector
<1>6. /\ \A th \in Handlers : job[th].phase = "idle" /\ job[th].batch = <<>> /\ job[th].read = <<>> /\ job[th].at = 1 /\ ~Busy(th)
      /\ DOMAIN pushes = {} /\ Len(pushes) = 0
  BY <1>2 DEF Idle, Busy
<1>7. /\ own.state = second.state /\ own.count = 0 /\ second.count = 0 /\ disk.state = own.state
      /\ disk.theta = theta /\ disk.base = theta /\ base["own"] = theta /\ base["second"] = theta
      /\ \A t \in Tensors : theta[t] = Zero /\ own.state[t] = NoState
  BY <1>2, FreshTyped
<1>8. \A q \in Ids : NoState.m[q] = 0 /\ NoState.buffer[q] = 0 /\ NoState.seen = FALSE /\ NoState.sure = FALSE
  BY FreshTyped
<1>9. Committed = {} /\ Committed \subseteq Ids
  BY <1>6 DEF Committed
<1>10. TypedInv
  <2>1. theta \in [Tensors -> Vector]
    BY <1>2, <1>5
  <2>2. /\ own \in [state: States, count: Nat] /\ second \in [state: States, count: Nat]
        /\ disk \in [theta: [Tensors -> Vector], state: States, base: [Tensors -> Vector]]
        /\ base \in [{"own", "second"} -> [Tensors -> Vector]]
    <3>1. own \in [state: States, count: Nat] /\ own.state \in States
      BY <1>2, FreshTyped
    <3> QED BY <1>2, <2>1, <3>1
  <2>3. \A th \in Handlers : DOMAIN job[th].read = {} /\ job[th].batch \in Seq(Ids)
    <3>1. <<>> \in Seq(Ids) /\ DOMAIN <<>> = {}
      OBVIOUS
    <3> QED BY <1>6, <3>1
  <2> QED BY <1>2, <1>4, <1>6, <2>1, <2>2, <2>3 DEF TypedInv
<1>11. ArrivedInv /\ OrderInv /\ BatchInOrder
  BY <1>4, <1>6 DEF ArrivedInv, OrderInv, BatchInOrder
<1>12. CountsInv
  BY <1>7, <1>9, FS_EmptySet DEF CountsInv
<1>13. SpentInv
  BY <1>5, <1>7, <1>8 DEF SpentInv, Without, Holds
<1>14. NesterovInv
  <2>1. ASSUME NEW t \in Tensors, NEW q \in Ids PROVE Books(theta[t], own.state[t], theta[t], q) /\ Remembered(theta[t], own.state[t], q)
    <3>1. theta[t][q] = 0 /\ own.state[t].m[q] = 0 /\ own.state[t].buffer[q] = 0 /\ 0 = 0 - 0
      BY <1>5, <1>7, <1>8
    <3> QED BY <1>4, <3>1 DEF Books, Remembered, Holds
  <2> QED BY <1>6, <1>7, <2>1 DEF NesterovInv
<1>15. MilestoneInv
  <2>1. ASSUME NEW t \in Tensors PROVE Cardinality(In(own.state[t].buffer)) = 0
    <3>1. In(own.state[t].buffer) = {}
      BY <1>7, <1>8 DEF In
    <3> QED BY <3>1, FS_EmptySet
  <2>2. Extra \in Nat /\ 0 % scenario.period = 0
    BY <1>2, <1>4, ExtraGrows, CountSteps
  <2> QED BY <1>4, <1>7, <2>1, <2>2 DEF MilestoneInv, BufferedIn
<1>16. RetainInv
  BY <1>6, <1>7, <1>8 DEF RetainInv
<1>17. ListensInv
  <2>. SUFFICES ASSUME NEW t \in Tensors
                PROVE  /\ own.state[t].seen <=> \E p \in Committed : t \in Covered(p)
                       /\ own.state[t].sure <=> own.state[t].seen /\ ~StartsAtZero(t)
                       /\ \A q \in Ids :
                            /\ own.state[t].m[q] \in Nat /\ theta[t][q] <= 0
                            /\ own.state[t].m[q] # 0 => theta[t][q] # 0
                            /\ theta[t][q] # 0 <=>
                                 own.state[t].sure /\ q \in Committed /\ t \in Covered(q) /\ t \notin pushes[q].zero
    BY DEF ListensInv
  <2>1. own.state[t] = NoState /\ theta[t] = Zero
    BY <1>7
  <2>2. own.state[t].seen = FALSE /\ own.state[t].sure = FALSE /\ \A q \in Ids : own.state[t].m[q] = 0 /\ theta[t][q] = 0
    BY <1>5, <2>1 DEF NoState
  <2>3. \A q \in Ids : /\ own.state[t].m[q] \in Nat /\ theta[t][q] <= 0
                       /\ own.state[t].m[q] # 0 => theta[t][q] # 0
    BY <2>2
  <2>4. \A q \in Ids : theta[t][q] # 0 <=>
            own.state[t].sure /\ q \in Committed /\ t \in Covered(q) /\ t \notin pushes[q].zero
    BY <1>9, <2>2
  <2>5. /\ own.state[t].seen <=> \E p \in Committed : t \in Covered(p)
        /\ own.state[t].sure <=> own.state[t].seen /\ ~StartsAtZero(t)
    BY <1>9, <2>2
  <2> QED BY <2>3, <2>4, <2>5
<1> QED
  BY <1>3, <1>10, <1>11, <1>12, <1>13, <1>14, <1>15, <1>16, <1>17 DEF SoundInv, ValuesInv

LEMMA SoundKept ==
  ASSUME SoundInv, StepsNext
  PROVE  SoundInv'
<1>1. /\ StepsInv /\ JobsInv /\ CorrectionCurrent /\ ApartInv /\ TypedInv /\ ArrivedInv /\ OrderInv /\ CountsInv
      /\ SpentInv /\ NesterovInv /\ MilestoneInv /\ RetainInv /\ ListensInv /\ BatchInOrder
  BY DEF SoundInv, ValuesInv, StepsInv
<1>2. StepsInv' /\ JobsInv'
  BY <1>1, StepsJobs, StepsApart DEF StepsInv
<1>3. TypedInv' /\ ArrivedInv' /\ OrderInv' /\ BatchInOrder'
  BY <1>1, TypedKept, ArrivedKept, OrderKept, BatchKept
<1>4. CountsInv' /\ SpentInv' /\ NesterovInv'
  BY <1>1, <1>2, <1>3, CountsKept, SpentKept, NesterovKept
<1>5. MilestoneInv' /\ RetainInv' /\ ListensInv'
  BY <1>1, <1>2, <1>3, MilestoneKept, RetainKept, ListensKept
<1> QED
  BY <1>2, <1>3, <1>4, <1>5 DEF SoundInv, ValuesInv

LEMMA SoundRest ==
  ASSUME SoundInv, UNCHANGED stepVars
  PROVE  SoundInv'
<1>1. UNCHANGED <<scenario, theta, own, second, pushes, job, disk, restarts, base>>
  BY DEF stepVars
<1>2. StepsInv'
  BY StepsRest DEF SoundInv
<1>3. Ids' = Ids /\ Tensors' = Tensors /\ Vector' = Vector /\ States' = States
  BY <1>1, SameSpace
<1>4. /\ \A p : (Covered(p)' = Covered(p)) /\ (ReadsFirst(p)' = ReadsFirst(p))
      /\ \A th : Busy(th)' = Busy(th) /\ Present(th)' = Present(th) /\ Waiting(th)' = Waiting(th)
      /\ \A i : IsDiloco(i)' = IsDiloco(i)
  BY <1>1 DEF Covered, ReadsFirst, IsDiloco, GetsCorrection, Busy, Present, Waiting
<1>5. Committed' = Committed /\ \A t : StartsAtZero(t)' = StartsAtZero(t)
  BY <1>1, <1>4 DEF Committed, StartsAtZero
<1>6. Lasting' = Lasting /\ Extra' = Extra
  BY <1>1, <1>5 DEF Lasting, Left, Extra
<1>7. TypedInv' /\ ArrivedInv' /\ OrderInv'
  BY <1>1, <1>3, <1>4 DEF SoundInv, ValuesInv, TypedInv, ArrivedInv, OrderInv
<1>8. CountsInv' /\ SpentInv'
  BY <1>1, <1>3, <1>5 DEF SoundInv, ValuesInv, CountsInv, SpentInv, Without, Holds
<1>9. NesterovInv'
  BY <1>1, <1>3, <1>4, <1>6 DEF SoundInv, ValuesInv, NesterovInv, Books, Remembered, Holds
<1>10. MilestoneInv' /\ BatchInOrder'
  BY <1>1, <1>3, <1>4, <1>6 DEF SoundInv, ValuesInv, MilestoneInv, BufferedIn, In, BatchInOrder
<1>11. RetainInv'
  BY <1>1, <1>3, <1>4, <1>6 DEF SoundInv, ValuesInv, RetainInv
<1>12. ListensInv'
  BY <1>1, <1>3, <1>4, <1>5 DEF SoundInv, ValuesInv, ListensInv
<1> QED
  BY <1>2, <1>7, <1>8, <1>9, <1>10, <1>11, <1>12 DEF SoundInv, ValuesInv

LEMMA TypeImplied ==
  ASSUME SoundInv
  PROVE  StepsTypeOK
<1>1. JobsInv /\ TypedInv /\ ArrivedInv /\ CountsInv
  BY DEF SoundInv, ValuesInv, StepsInv
<1>2. own.count \in 0..scenario.pushes /\ second.count \in 0..scenario.pushes
  <2>1. /\ Cardinality(Committed) \in Nat /\ Cardinality(Committed) <= Len(pushes) /\ scenario.pushes \in Nat
        /\ Len(pushes) <= scenario.pushes /\ Len(pushes) \in Nat
    BY <1>1, Counting, JobShapes DEF ArrivedInv
  <2> QED BY <1>1, <2>1 DEF TypedInv, CountsInv
<1>3. own \in [state: States, count: 0..scenario.pushes] /\ second \in [state: States, count: 0..scenario.pushes]
  BY <1>1, <1>2 DEF TypedInv
<1>4. scenario \in Scenarios /\ pushes \in Seq([island: IslandIds \cup {Unknown}, fragment: 1..scenario.fragments, zero: SUBSET Tensors])
  BY <1>1, JobShapes DEF Push
<1>5. \A th \in Handlers : Busy(th) => job[th].at \in DOMAIN job[th].batch
  <2>. SUFFICES ASSUME NEW th \in Handlers, Busy(th) PROVE job[th].at \in DOMAIN job[th].batch
    OBVIOUS
  <2>1. job[th].batch \in Seq(DOMAIN pushes) /\ job[th].at \in 1..Len(job[th].batch)
    BY <1>1, JobShapes
  <2> QED BY <2>1
<1> QED
  BY <1>1, <1>3, <1>4, <1>5 DEF StepsTypeOK, TypedInv, States, Vector

LEMMA OnceImplied ==
  ASSUME SoundInv
  PROVE  GradientOnce
<1>. SUFFICES ASSUME scenario.method = "diloco", NEW t \in Tensors
              PROVE  /\ Disjoint(own.state[t].buffer, own.state[t].m)
                     /\ In(own.state[t].buffer) \cup In(own.state[t].m) = In(theta[t])
                     /\ \A p \in In(own.state[t].buffer) : own.state[t].buffer[p] = One
  BY DEF GradientOnce
<1>1. \A q \in Ids : Books(theta[t], own.state[t], base["own"][t], q) /\ Remembered(theta[t], own.state[t], q)
  BY DEF SoundInv, ValuesInv, NesterovInv
<1> QED
  BY <1>1 DEF Books, Remembered, Holds, In, Disjoint

LEMMA ListeningImplied ==
  ASSUME SoundInv
  PROVE  KeepsListening
<1>1. JobsInv /\ ArrivedInv /\ ListensInv
  BY DEF SoundInv, ValuesInv, StepsInv
<1>. SUFFICES ASSUME scenario.method = "bayes", ~scenario.grace, restarts = 0, NEW t \in Tensors
              PROVE  In(theta[t]) = {p \in Committed : t \in Covered(p) /\ t \notin pushes[p].zero /\ ~StartsAtZero(t)}
  BY DEF KeepsListening
<1>2. Listening(t)
  BY <1>1 DEF ListensInv, Listening
<1>3. Committed \subseteq Ids
  BY <1>1, Counting
<1>4. \A q \in Ids : theta[t][q] # 0 <=> q \in Committed /\ t \in Covered(q) /\ t \notin pushes[q].zero /\ ~StartsAtZero(t)
  BY <1>2 DEF Listening
<1> QED
  BY <1>3, <1>4 DEF In

LEMMA SoundImplies ==
  ASSUME SoundInv
  PROVE  StepsSound
<1>1. StepsInv /\ BatchInOrder
  BY DEF SoundInv
<1> QED
  BY <1>1, TypeImplied, OnceImplied, ListeningImplied, ApartImplies DEF StepsSound, StepsInv

\* Whatever the rule, the islands, the fragments, the grace period and the
\* restarts, and whatever the handlers' order: each gradient is held once and in
\* the right optimizer, a correction was computed against the momentum it is
\* committed to, a batch's pushes are taken in order, and Bayes takes in all it
\* is sent, or nothing of a tensor whose first gradient is zero.
THEOREM StepsAreSound == StepsSafety => []StepsSound
<1>1. SoundInv /\ [StepsNext]_stepVars => SoundInv'
  BY SoundKept, SoundRest
<1> QED
  BY <1>1, SoundStart, SoundImplies, PTL DEF StepsSafety

-----------------------------------------------------------------------------
(* The outer steps: milestones. *)

\* What a commit to the named optimizer, o before and n after it, does to its
\* momentum of tensor t, when that takes anything in.
Momentous(o, n, b, t, name) ==
  In(n.state[t].m) \ In(o.state[t].m) # {} =>
    /\ name = "second" \/ scenario.method = "diloco" =>
         /\ \A q \in {i \in DOMAIN pushes : OptimizerOf(i) = name} :
              theta'[t][q] = b[t][q] - (n.state[t].m[q] \div 2)
                - (IF q \in In(n.state[t].m) \ In(o.state[t].m) THEN One \div scenario.period ELSE 0)
         /\ scenario.fragments = 1 =>
              Cardinality(In(n.state[t].m) \ In(o.state[t].m)) \in
                scenario.period .. (scenario.period + restarts * (scenario.period - 1))

\* What is in a momentum that a Delayed-Nesterov optimizer's step has changed: what
\* was buffered, and the step's own push.
Takes(o, n, p, t) ==
  /\ In(n.state[t].m) \ In(o.state[t].m) = In(o.state[t].buffer) \cup {p}
  /\ Cardinality(In(n.state[t].m) \ In(o.state[t].m)) = Cardinality(In(o.state[t].buffer)) + 1

\* The step's books on push q are right, or it has nothing to do with q.
SettledFor(K, o, n, b, c, p, t, q) ==
  \/ Turned(K, o, n, b, c, p, t, q)
  \/ q # p /\ ~Holds(o.state[t], q) /\ ~Holds(n.state[t], q)

LEMMA TakesBuffer ==
  ASSUME scenario \in Scenarios, NEW K, NEW o, NEW n, NEW b, NEW c, NEW p \in Ids, NEW t \in Tensors,
         o.state[t] \in State, pushes[p].zero = {}, t \in Covered(p), AtMilestone(o), ~Holds(o.state[t], p),
         \A q \in Ids : SettledFor(K, o, n, b, c, p, t, q)
  PROVE  Takes(o, n, p, t)
<1>1. \A q \in Ids : Grad(p, t)[q] = IF q = p THEN One ELSE 0
  BY GradTyped
<1>2. One # 0
  BY Scenario
<1>3. ASSUME NEW q \in Ids
      PROVE  o.state[t].m[q] = 0 /\ n.state[t].m[q] # 0 <=> o.state[t].buffer[q] # 0 \/ q = p
  <2>1. CASE Turned(K, o, n, b, c, p, t, q)
    <3>1. o.state[t].m[q] = 0 /\ n.state[t].m[q] # 0 <=> o.state[t].buffer[q] # 0 \/ Grad(p, t)[q] # 0
      BY <2>1 DEF Turned
    <3> QED BY <1>1, <1>2, <3>1
  <2>2. CASE q # p /\ ~Holds(o.state[t], q) /\ ~Holds(n.state[t], q)
    BY <2>2 DEF Holds
  <2> QED BY <2>1, <2>2 DEF SettledFor
<1>4. In(n.state[t].m) \ In(o.state[t].m) = In(o.state[t].buffer) \cup {p}
  BY <1>3 DEF In
<1>5. p \notin In(o.state[t].buffer)
  BY DEF In, Holds
<1>6. Cardinality(In(o.state[t].buffer) \cup {p}) = Cardinality(In(o.state[t].buffer)) + 1
  BY <1>5, InFinite, FS_AddElement
<1> QED
  BY <1>4, <1>6 DEF Takes

\* The optimizer's books on push q are right, or it has nothing of q.
Accounted(L, o, b, p, t, q) ==
  BooksBy(L, theta[t], o.state[t], b[t], q) \/ (q # p /\ ~Holds(o.state[t], q))

LEMMA CommitMilestone ==
  ASSUME scenario \in Scenarios, ModelsTyped, NEW L \in Nat \ {0}, NEW K \in Nat \ {0}, L = 2 * K, L <= 2^scenario.pushes,
         NEW name \in {"own", "second"}, name = "second" \/ scenario.method = "diloco", restarts \in Nat,
         NEW o \in [state: States, count: Nat], NEW n, NEW b \in [Tensors -> Vector], NEW c, NEW p \in Ids, NEW gain \in {1, 2},
         OneStep(name, o, n, b, c, p, gain), pushes[p].zero = {}, DOMAIN pushes \subseteq Ids,
         NEW t \in Tensors, ~Holds(o.state[t], p),
         \A q \in Ids : Accounted(L, o, b, p, t, q),
         \A q \in DOMAIN pushes : OptimizerOf(q) = name => BooksBy(L, theta[t], o.state[t], b[t], q),
         scenario.fragments = 1 =>
           Cardinality(In(o.state[t].buffer)) \in (o.count % scenario.period)..((o.count % scenario.period) + Extra)
  PROVE  Momentous(o, n, b, t, name)
<1>1. theta[t] \in Vector /\ o.state[t] \in State /\ b[t] \in Vector /\ o.count \in Nat
  BY DEF ModelsTyped, States, State
<1>2. ASSUME NEW q \in Ids, BooksBy(L, theta[t], o.state[t], b[t], q)
      PROVE  Turned(K, o, n, b, c, p, t, q)
  <2>1. q = p => ~Holds(o.state[t], q)
    OBVIOUS
  <2> QED BY <1>1, <1>2, <2>1, CommitBooks
<1>3. ASSUME NEW q \in Ids, q # p, ~Holds(o.state[t], q)
      PROVE  ~Holds(n.state[t], q)
  <2>1. CASE t \in Covered(p)
    <3>1. Grad(p, t) \in Vector /\ Grad(p, t)[q] = 0
      BY <1>3, GradTyped
    <3>. DEFINE r == Stepped(name, o, t, Grad(p, t), gain)
    <3>2. ~Holds(r.s, q)
      BY <1>1, <1>3, <3>1, SteppedWithout
    <3>3. n.state[t] = r.s
      BY <2>1 DEF OneStep
    <3> QED BY <3>2, <3>3
  <2>2. CASE t \notin Covered(p)
    BY <1>3, <2>2 DEF OneStep
  <2> QED BY <2>1, <2>2
<1>4. CASE t \in Covered(p) /\ AtMilestone(o)
  <2>1. \A q \in Ids : SettledFor(K, o, n, b, c, p, t, q)
    BY <1>2, <1>3 DEF SettledFor, Accounted
  <2>2. Takes(o, n, p, t)
    BY <1>1, <1>4, <2>1, TakesBuffer
  <2>3. ASSUME NEW q \in DOMAIN pushes, OptimizerOf(q) = name
        PROVE  theta'[t][q] = b[t][q] - (n.state[t].m[q] \div 2)
                 - (IF q \in In(n.state[t].m) \ In(o.state[t].m) THEN One \div scenario.period ELSE 0)
    <3>1. Turned(K, o, n, b, c, p, t, q) /\ q \in Ids
      BY <1>2, <2>3
    <3>2. theta'[t][q] = b[t][q] - (n.state[t].m[q] \div 2)
            - (IF o.state[t].m[q] = 0 /\ n.state[t].m[q] # 0 THEN One \div scenario.period ELSE 0)
      BY <1>4, <3>1 DEF Turned
    <3>3. o.state[t].m[q] = 0 /\ n.state[t].m[q] # 0 <=> q \in In(n.state[t].m) \ In(o.state[t].m)
      BY <3>1 DEF In
    <3> QED BY <3>2, <3>3
  <2>4. ASSUME scenario.fragments = 1
        PROVE  Cardinality(In(n.state[t].m) \ In(o.state[t].m)) \in
                 scenario.period .. (scenario.period + restarts * (scenario.period - 1))
    <3>. DEFINE k == Cardinality(In(o.state[t].buffer))
                d == o.count
                l == IF (d + 1) % scenario.period = 0 THEN 0 ELSE k + 1
    <3>1. k \in (d % scenario.period)..((d % scenario.period) + Extra) /\ d \in Nat /\ Extra \in Nat
          /\ (d + 1) % scenario.period = 0
      BY <1>1, <1>4, <2>4, ExtraGrows DEF AtMilestone
    <3>2. l = IF (d + 1) % scenario.period = 0 THEN 0 ELSE k + 1
      OBVIOUS
    <3>. HIDE DEF k, d, l
    <3>3. k + 1 \in scenario.period..(scenario.period + Extra)
      BY <3>1, <3>2, CommitBuffered
    <3> QED BY <2>2, <3>3 DEF k, Extra, Takes
  <2> QED BY <2>3, <2>4 DEF Momentous
<1>5. CASE ~(t \in Covered(p) /\ AtMilestone(o))
  <2>1. ASSUME NEW q \in Ids PROVE n.state[t].m[q] # 0 => o.state[t].m[q] # 0
    <3>1. CASE BooksBy(L, theta[t], o.state[t], b[t], q)
      <4>1. Turned(K, o, n, b, c, p, t, q)
        BY <1>2, <3>1
      <4> QED BY <1>5, <4>1 DEF Turned
    <3>2. CASE q # p /\ ~Holds(o.state[t], q)
      BY <1>3, <3>2 DEF Holds
    <3> QED BY <3>1, <3>2 DEF Accounted
  <2>2. In(n.state[t].m) \ In(o.state[t].m) = {}
    BY <2>1 DEF In
  <2> QED BY <2>2 DEF Momentous
<1> QED
  BY <1>4, <1>5

LEMMA MilestoneSteps ==
  ASSUME SoundInv, StepsNext
  PROVE  MeanStep /\ WholeStep
<1>1. /\ JobsInv /\ TypedInv /\ ArrivedInv /\ OrderInv /\ SpentInv /\ ApartInv /\ NesterovInv /\ MilestoneInv
      /\ JobsInv' /\ ArrivedInv'
  BY SoundKept DEF SoundInv, ValuesInv, StepsInv
<1>2. scenario \in Scenarios /\ ModelsTyped /\ restarts \in Nat /\ DOMAIN pushes \subseteq Ids
  BY <1>1, JobShapes, TypedParts, StepAssumption, Counting DEF TypedInv
<1>. SUFFICES ASSUME NEW name \in {"own", "second"}, NEW t \in Tensors, Milestone(name, t)
              PROVE  /\ \A q \in {i \in DOMAIN pushes : OptimizerOf(i) = name} :
                          theta'[t][q] = base[name][t][q] - (OptState(name, t).m'[q] \div 2)
                                           - (IF q \in TakenIn(name, t) THEN One \div scenario.period ELSE 0)
                     /\ scenario.fragments = 1 =>
                          Cardinality(TakenIn(name, t)) \in
                            scenario.period .. (scenario.period + restarts * (scenario.period - 1))
  BY DEF MeanStep, WholeStep
<1>3. restarts' = restarts /\ (name = "second" \/ scenario.method = "diloco") /\ TakenIn(name, t) # {}
  BY DEF Milestone
<1>4. ASSUME UNCHANGED own, name = "own" PROVE FALSE
  BY <1>3, <1>4 DEF TakenIn, OptState
<1>5. ASSUME UNCHANGED second, name = "second" PROVE FALSE
  BY <1>3, <1>5 DEF TakenIn, OptState
<1>6. PICK th \in Handlers : CommitPush(th)
  <2>1. ~RestartFromDisk
    BY <1>2, <1>3 DEF RestartFromDisk
  <2>2. \A th \in Handlers : Begin(th) \/ ReadMomentum(th) \/ Finish(th) => UNCHANGED <<own, second>>
    BY DEF Begin, ReadMomentum, Finish
  <2> QED BY <1>4, <1>5, <2>1, <2>2 DEF StepsNext
<1>. DEFINE p == Present(th)
            L == Lasting
            K == Lasting'
<1>7. p \in DOMAIN pushes /\ p \notin Committed /\ p \in Ids /\ L = 2 * K
  BY <1>1, <1>2, <1>6, CommitCounts, CountingMoves DEF L, K
<1>8. PICK gain \in {1, 2} : CommitsTo(name, p, gain)
  <2>1. PICK other \in {"own", "second"}, gain \in {1, 2} : CommitsTo(other, p, gain)
    BY <1>1, <1>6, CommitDoes
  <2>2. other = name
    BY <1>4, <1>5, <2>1 DEF CommitsTo
  <2> QED BY <2>1, <2>2
<1>9. K \in Nat \ {0} /\ L \in Nat \ {0} /\ L <= 2^scenario.pushes
  BY <1>1, <1>6, CountingMoves, Counting DEF StepsNext
<1>10. /\ \A x, s, b, q : Books(x, s, b, q) => BooksBy(L, x, s, b, q)
       /\ pushes[p].zero = {}
  <2>1. scenario.method # "bayes"
    BY <1>3, <1>8 DEF CommitsTo, IsDiloco
  <2> QED BY <1>1, <1>7, <2>1 DEF ArrivedInv, Books, BooksBy
<1>. HIDE DEF L, K, p
<1>11. CASE name = "own"
  <2>1. scenario.method = "diloco" /\ OneStep("own", own, own', base["own"], base'["own"], p, gain)
    BY <1>3, <1>8, <1>11 DEF CommitsTo
  <2>2. \A q \in Ids : BooksBy(L, theta[t], own.state[t], base["own"][t], q)
    BY <1>1, <1>10, <2>1 DEF NesterovInv
  <2>3. \A q \in Ids : Accounted(L, own, base["own"], p, t, q)
    BY <2>2 DEF Accounted
  <2>4. \A q \in DOMAIN pushes : OptimizerOf(q) = "own" => BooksBy(L, theta[t], own.state[t], base["own"][t], q)
    BY <1>2, <2>2
  <2>5. ~Holds(own.state[t], p)
    BY <1>1, <1>7 DEF SpentInv, Without
  <2>6. scenario.fragments = 1 =>
          Cardinality(In(own.state[t].buffer)) \in (own.count % scenario.period)..((own.count % scenario.period) + Extra)
    BY <1>1, <2>1 DEF MilestoneInv, BufferedIn
  <2>7. own \in [state: States, count: Nat] /\ base["own"] \in [Tensors -> Vector]
    BY <1>2 DEF ModelsTyped
  <2>8. Momentous(own, own', base["own"], t, "own")
    BY <1>2, <1>7, <1>9, <1>10, <2>1, <2>3, <2>4, <2>5, <2>6, <2>7, CommitMilestone
  <2> QED BY <1>3, <1>11, <2>8 DEF Momentous, TakenIn, OptState
<1>12. CASE name = "second"
  <2>1. /\ OneStep("second", second, second', base["second"], base'["second"], p, gain)
        /\ IsDiloco(pushes[p].island) /\ scenario.method = "heloco"
    BY <1>8, <1>12 DEF CommitsTo, IsDiloco
  <2>2. \A q \in DOMAIN pushes : OptimizerOf(q) = "second" => BooksBy(L, theta[t], second.state[t], base["second"][t], q)
    BY <1>1, <1>2, <1>10 DEF NesterovInv, OptimizerOf
  <2>3. ~Holds(second.state[t], p)
    BY <1>1, <1>7 DEF SpentInv, Without
  <2>4. scenario.fragments = 1 =>
          Cardinality(In(second.state[t].buffer)) \in (second.count % scenario.period)..((second.count % scenario.period) + Extra)
    BY <1>1, <2>1 DEF MilestoneInv, BufferedIn
  <2>5. second \in [state: States, count: Nat] /\ base["second"] \in [Tensors -> Vector]
    BY <1>2 DEF ModelsTyped
  <2>6. ASSUME NEW q \in Ids PROVE Accounted(L, second, base["second"], p, t, q)
    <3>1. CASE q \in DOMAIN pushes /\ IsDiloco(pushes[q].island)
      BY <1>1, <1>10, <3>1 DEF NesterovInv, Accounted
    <3>2. CASE ~(q \in DOMAIN pushes /\ IsDiloco(pushes[q].island))
      BY <1>1, <1>7, <2>1, <3>2 DEF ApartInv, SecondApart, Accounted
    <3> QED BY <3>1, <3>2
  <2>7. Momentous(second, second', base["second"], t, "second")
    BY <1>2, <1>7, <1>9, <1>10, <2>1, <2>2, <2>3, <2>4, <2>5, <2>6, CommitMilestone
  <2> QED BY <1>3, <1>12, <2>7 DEF Momentous, TakenIn, OptState
<1> QED
  BY <1>11, <1>12

\* Whatever the handlers' order, the fragments and the restarts: between two
\* milestones a Delayed-Nesterov optimizer changes the model by what standard
\* Nesterov gives for the mean of the period's gradients, and without fragments a
\* milestone averages the period's number of them, or at most a period less one
\* more for each restart.
THEOREM NesterovSteps == StepsSafety => NesterovSound
<1>1. SoundInv /\ [StepsNext]_stepVars => SoundInv'
  BY SoundKept, SoundRest
<1>2. SoundInv /\ [StepsNext]_stepVars => [MeanStep]_stepVars /\ [WholeStep]_stepVars
  BY MilestoneSteps
<1> QED
  BY <1>1, <1>2, SoundStart, PTL DEF StepsSafety, NesterovSound, NesterovOfTheMean, MilestoneWhole

\* For any sessions, handlers and sizes: a push is stepped only as a whole, as its
\* sender sent it, and its gradients go where they belong.
THEOREM PushesGoRight == StreamSafety /\ StepsSafety => []PushesRight
<1>1. StreamSafety => [](StreamTypeOK /\ AppliedOwn)
  BY PushesAreWhole
<1>2. StepsSafety => []StepsSound
  BY StepsAreSound
<1> QED
  BY <1>1, <1>2, PTL DEF PushesRight

-----------------------------------------------------------------------------
(* The launcher: its loops. *)

LEMMA LauncherConstants ==
  /\ Len(Methods) \in Nat \ {0} /\ MaxTrouble \in Nat
  /\ \A k \in 1..Len(Methods) : Methods[k] \in ToSet(Methods)
  /\ DOMAIN Methods = 1..Len(Methods)
BY LauncherAssumption DEF ToSet

\* One distribution, or first "iid" and then "non_iid".
LEMMA TheModes ==
  ASSUME asked \in {"iid", "non_iid", "both"}
  PROVE  /\ asked = "both" => Len(ModesOf(asked)) = 2 /\ ModesOf(asked)[1] = "iid" /\ ModesOf(asked)[2] = "non_iid"
         /\ asked # "both" => Len(ModesOf(asked)) = 1 /\ ModesOf(asked)[1] = asked /\ ToSet(ModesOf(asked)) = {asked}
         /\ ToSet(ModesOf(asked)) \subseteq Distributions
         /\ \A k \in 1..Len(ModesOf(asked)) : ModesOf(asked)[k] \in ToSet(ModesOf(asked))
<1>1. CASE asked = "both"
  <2>1. ModesOf(asked) = <<"iid", "non_iid">>
    BY <1>1 DEF ModesOf
  <2>2. ToSet(<<"iid", "non_iid">>) = {"iid", "non_iid"}
    BY DEF ToSet
  <2> QED
    BY <1>1, <2>1, <2>2 DEF Distributions
<1>2. CASE asked # "both"
  <2>1. ModesOf(asked) = <<asked>>
    BY <1>2 DEF ModesOf
  <2>2. ToSet(<<asked>>) = {asked}
    BY DEF ToSet
  <2> QED
    BY <1>2, <2>1, <2>2 DEF Distributions
<1> QED
  BY <1>1, <1>2

\* Arithmetic of the two loops.
LEMMA LoopArithmetic ==
  /\ \A m, n : n \in {1, 2} /\ m \in 1..(n + 1) =>
       m \in {1, 2, 3} /\ (m <= n <=> m = 1 \/ (m = 2 /\ n = 2))
  /\ \A n, m : n \in Nat \ {0} /\ m \in 1..(n + 1) /\ m <= n => m + 1 \in 1..(n + 1) /\ m \in 1..n
  /\ \A n : n \in Nat \ {0} => 1 \in 1..(n + 1)
  /\ \A n, m, k : n \in {1, 2} /\ m \in {1, 2} /\ m <= n /\ k = m + 1 => k - 1 = m /\ k # 1 /\ k \in 1..(n + 1)
OBVIOUS

\* Whatever becomes of the processes, the launcher is where it was.
LEMMA ProcessesMove ==
  ASSUME LaunchNext, ~LauncherStep
  PROVE  UNCHANGED <<at, loops, returned, status, books>>
BY DEF LaunchNext, Announce, Interrupt, IslandDone, LeaderEnds, others

\* Most of the launcher's steps stay within a run.
RunStep ==
  StartServer \/ AwaitServer \/ LaunchIsland \/ PollInfra \/ PollIslands \/ Terminate \/ Kill

LEMMA RunGoesOn ==
  ASSUME RunStep
  PROVE  at \in InRun /\ at' \in InRun /\ UNCHANGED <<loops, status, books>>
BY DEF RunStep, InRun, StartServer, AwaitServer, LaunchIsland, PollInfra, PollIslands, Terminate, Kill, Return

LEMMA LaunchLoops ==
  ASSUME LoopsInv, [LaunchNext]_launchVars
  PROVE  LoopsInv'
<1>0. /\ asked \in {"iid", "non_iid", "both"} /\ suffix \in {"", "iid", "non_iid"}
      /\ mode \in 1..(Len(ModesOf(asked)) + 1) /\ method \in 1..(Len(Methods) + 1)
  BY DEF LoopsInv
<1>n. Len(Methods) \in Nat \ {0}
  BY LauncherConstants
<1>l. IF asked = "both" THEN Len(ModesOf(asked)) = 2 ELSE Len(ModesOf(asked)) = 1
  BY <1>0, TheModes
<1>m. mode \in {1, 2, 3} /\ (mode <= Len(ModesOf(asked)) <=> mode = 1 \/ (mode = 2 /\ asked = "both"))
  BY <1>0, <1>l, LoopArithmetic
<1>. DEFINE Types == /\ asked \in {"iid", "non_iid", "both"} /\ suffix \in {"", "iid", "non_iid"}
                     /\ mode \in 1..(Len(ModesOf(asked)) + 1) /\ method \in 1..(Len(Methods) + 1)
            Kind == distribution \in {"iid", "non_iid", "both"}
            Untouched == (mode = 1 /\ at \in {"preflight", "modes"}) \/ (at = "over" /\ status = 2)
            Past == at \in {"modes", "collect"} \/ (at = "over" /\ status = 0)
            OneOf == distribution = IF Untouched THEN asked ELSE IF Past THEN ModesOf(asked)[mode - 1] ELSE ModesOf(asked)[mode]
            Placed == /\ mode <= Len(ModesOf(asked))
                       /\ suffix = IF asked = "both" /\ mode = 1 THEN "iid" ELSE ""
<1>t. Types /\ Kind
  BY <1>0 DEF LoopsInv
<1>b. /\ OneOf
      /\ at = "preflight" => mode = 1
      /\ at = "collect" => mode > Len(ModesOf(asked))
      /\ at \in InRun \cup {"methods"} => Placed
      /\ at \in InRun => method <= Len(Methods)
  BY DEF LoopsInv, Mode
<1>g. ASSUME Types', Kind', OneOf', at' = "preflight" => mode' = 1, at' = "collect" => (mode > Len(ModesOf(asked)))',
             at' \in InRun \cup {"methods"} => Placed',
             at' \in InRun => method' <= Len(Methods)
      PROVE  LoopsInv'
  BY <1>g DEF LoopsInv, Mode
<1>s. ASSUME UNCHANGED loops PROVE Types' /\ Kind' /\ (Placed <=> Placed') /\ method' = method /\ mode' = mode
  BY <1>t, <1>s DEF loops
<1>1. CASE UNCHANGED <<at, loops, status>>
  <2>1. OneOf'
    BY <1>1, <1>b DEF loops
  <2> QED
    <3>1. at' = "collect" => (mode > Len(ModesOf(asked)))'
      BY <1>1, <1>b DEF loops
    <3>. HIDE DEF Types, OneOf, Placed, Kind
    <3> QED
      BY <1>1, <1>b, <1>g, <1>s, <2>1, <3>1
<1>2. CASE at \in InRun /\ at' \in InRun /\ UNCHANGED <<loops, status>>
  <2>1. OneOf'
    BY <1>2, <1>b DEF loops, InRun
  <2> QED
    BY <1>2, <1>b, <1>g, <1>s, <2>1 DEF InRun
<1>3. CASE Preflight
  <2>1. UNCHANGED loops /\ at = "preflight" /\ ((at' = "over" /\ status' = 2) \/ at' = "modes")
    BY <1>3 DEF Preflight, Exit
  <2>2. OneOf'
    BY <1>b, <2>1 DEF loops
  <2> QED
    BY <1>g, <1>s, <2>1, <2>2 DEF InRun
<1>4. CASE NextMode
  <2>1. at = "modes" /\ UNCHANGED <<asked, mode, status>>
    BY <1>4 DEF NextMode
  <2>2. CASE mode <= Len(ModesOf(asked))
    <3>1. suffix' = SuffixOf(distribution, Mode) /\ distribution' = ModesOf(asked)[mode] /\ method' = 1 /\ at' = "methods"
      BY <1>4, <2>2 DEF NextMode, Mode
    <3>2. distribution = IF mode = 1 THEN asked ELSE ModesOf(asked)[mode - 1]
      BY <1>b, <2>1
    <3>3. mode = 1 \/ (mode = 2 /\ asked = "both")
      BY <1>m, <2>2
    <3>4. suffix' = IF asked = "both" /\ mode = 1 THEN "iid" ELSE ""
      <4>1. CASE mode = 1
        <5>1. distribution = asked /\ suffix' = SuffixOf(asked, ModesOf(asked)[1])
          BY <3>1, <3>2, <4>1 DEF Mode
        <5> QED
          BY <1>0, <4>1, <5>1, TheModes DEF SuffixOf
      <4>2. CASE mode = 2 /\ asked = "both"
        <5>1. mode - 1 = 1 /\ mode # 1
          BY <4>2
        <5>2. distribution = ModesOf(asked)[1]
          BY <3>2, <5>1
        <5>3. distribution = "iid"
          BY <1>0, <4>2, <5>2, TheModes
        <5>4. suffix' = ""
          BY <3>1, <5>3 DEF SuffixOf
        <5> QED
          BY <5>1, <5>4
      <4> QED
        BY <3>3, <4>1, <4>2
    <3>5. Types'
      <4>1. method' \in 1..(Len(Methods) + 1)
        BY <1>n, <3>1, LoopArithmetic
      <4> QED
        BY <1>t, <2>1, <3>4, <4>1
    <3>6. OneOf'
      BY <3>1, <2>1
    <3> QED
      <4>1. Kind'
        BY <1>0, <3>1, <3>3, TheModes DEF Distributions
      <4>2. Placed'
        BY <2>1, <2>2, <3>4
      <4> QED
        BY <1>g, <3>1, <3>5, <3>6, <4>1, <4>2 DEF InRun
  <2>3. CASE ~(mode <= Len(ModesOf(asked)))
    <3>1. at' = "collect" /\ UNCHANGED <<suffix, distribution, method>> /\ mode # 1
      BY <1>m, <1>4, <2>3 DEF NextMode
    <3>2. Types'
      BY <1>t, <2>1, <3>1
    <3>3. OneOf'
      BY <1>b, <2>1, <3>1
    <3> QED
      <4>1. (mode > Len(ModesOf(asked)))'
        BY <1>l, <1>m, <2>1, <2>3
      <4> QED
        BY <1>g, <1>t, <3>1, <3>2, <3>3, <4>1 DEF InRun
  <2> QED
    BY <2>2, <2>3
<1>5. CASE MethodsDone
  <2>1. /\ at = "methods" /\ mode' = mode + 1 /\ at' = "modes" /\ Placed
        /\ UNCHANGED <<asked, distribution, method, suffix, status>>
    BY <1>5, <1>b DEF MethodsDone
  <2>2. mode = 1 \/ (mode = 2 /\ asked = "both")
    BY <1>m, <2>1
  <2>3. mode' - 1 = mode /\ mode' # 1 /\ mode' \in 1..(Len(ModesOf(asked)) + 1)
    BY <1>l, <2>1, <2>2, LoopArithmetic
  <2>4. Types'
    BY <1>t, <2>1, <2>3
  <2>5. OneOf'
    BY <1>b, <2>1, <2>3
  <2> QED
    BY <1>g, <1>t, <2>1, <2>4, <2>5 DEF InRun
<1>6. CASE StartLighthouse
  <2>1. UNCHANGED <<loops, status>> /\ at = "methods" /\ at' = "lighthouse" /\ method <= Len(Methods)
    BY <1>6 DEF StartLighthouse
  <2>2. OneOf'
    BY <1>b, <2>1 DEF loops
  <2> QED
    BY <1>b, <1>g, <1>s, <2>1, <2>2
<1>7. CASE FinishMethod
  <2>1. /\ at = "finish" /\ UNCHANGED <<asked, distribution, mode, suffix>>
        /\ \/ method' = method + 1 /\ at' = "methods"
           \/ method' = method /\ at' = "over" /\ status' = 1
    BY <1>7 DEF FinishMethod, Exit
  <2>2. Placed /\ method <= Len(Methods)
    BY <1>b, <2>1 DEF InRun
  <2>3. method' \in 1..(Len(Methods) + 1)
    <3>1. method + 1 \in 1..(Len(Methods) + 1)
      BY <1>0, <1>n, <2>2, LoopArithmetic
    <3> QED
      BY <1>0, <2>1, <3>1
  <2>4. Types'
    BY <1>t, <2>1, <2>3
  <2>5. OneOf'
    <3>1. distribution = ModesOf(asked)[mode]
      BY <1>b, <2>1
    <3>2. ~Untouched' /\ ~Past'
      BY <2>1
    <3>. HIDE DEF Untouched, Past
    <3> QED
      BY <2>1, <3>1, <3>2
  <2> QED
    BY <1>g, <1>t, <2>1, <2>2, <2>4, <2>5 DEF InRun
<1>8. CASE Collect
  <2>1. UNCHANGED loops /\ at = "collect" /\ at' = "over" /\ status' = 0
    BY <1>8 DEF Collect, Exit
  <2>2. OneOf'
    <3>1. distribution = ModesOf(asked)[mode - 1]
      BY <1>b, <2>1
    <3>2. ~Untouched' /\ Past'
      BY <2>1
    <3>. HIDE DEF Untouched, Past
    <3> QED
      BY <2>1, <3>1, <3>2 DEF loops
  <2> QED
    BY <1>g, <1>s, <2>1, <2>2 DEF InRun
<1>9. CASE UNCHANGED launchVars
  BY <1>1, <1>9 DEF launchVars, loops
<1> QED
  BY <1>1, <1>2, <1>3, <1>4, <1>5, <1>6, <1>7, <1>8, <1>9, ProcessesMove, RunGoesOn DEF LaunchNext, LauncherStep, RunStep

-----------------------------------------------------------------------------
(* The launcher: its roles. *)

LEMMA LaunchRoles ==
  ASSUME RolesInv, [LaunchNext]_launchVars
  PROVE  RolesInv'
<1>. USE LauncherConstants
<1>0. /\ leader \in [Roles -> {"none", "running", "ok", "failed", "killed"}]
      /\ helpers \in [Roles -> BOOLEAN] /\ stop \in BOOLEAN /\ returned \in BOOLEAN
      /\ status \in {-1, 0, 1, 2} /\ trouble \in 0..MaxTrouble
      /\ Islands \subseteq Roles /\ Infra \subseteq Roles
  BY DEF RolesInv, Roles
<1>. DEFINE Typed == /\ leader \in [Roles -> {"none", "running", "ok", "failed", "killed"}]
                     /\ helpers \in [Roles -> BOOLEAN] /\ stop \in BOOLEAN /\ returned \in BOOLEAN
                     /\ status \in {-1, 0, 1, 2} /\ trouble \in 0..MaxTrouble
            Between == {"finish", "methods", "modes", "collect", "over"}
            Clean == \A r \in Roles : leader[r] # "running" /\ (helpers[r] => leader[r] # "killed")
            Spared == \A r \in Roles : leader[r] # "killed"
            Good == \A i \in Islands : leader[i] = "ok"
<1>b. /\ at \in Between => Clean
      /\ at \in {"terminate", "grace", "finish"} /\ returned => Good
      /\ at = "preflight" => leader = Unborn /\ \A r \in Roles : ~helpers[r]
      /\ at \notin Between => Spared
  BY DEF RolesInv, NoneLeftRunning
<1>g. ASSUME Typed', at' \in Between => Clean', at' \in {"terminate", "grace", "finish"} /\ returned' => Good',
             at' = "preflight" => leader' = Unborn /\ \A r \in Roles : ~helpers'[r], at' \notin Between => Spared'
      PROVE  RolesInv'
  BY <1>g DEF RolesInv, NoneLeftRunning
<1>1. CASE Preflight
  <2>1. \A r \in Roles : Unborn[r] = "none"
    BY DEF Unborn
  <2>2. /\ UNCHANGED <<leader, helpers, stop, returned, trouble>> /\ at = "preflight" /\ at' \in {"over", "modes"}
        /\ status' \in {2, status}
    BY <1>1 DEF Preflight, Exit, roles
  <2> QED
    BY <1>0, <1>b, <1>g, <2>1, <2>2
<1>2. CASE NextMode \/ MethodsDone
  <2>1. /\ UNCHANGED <<leader, helpers, stop, returned, trouble, status>>
        /\ at \in Between /\ at' \in {"methods", "collect", "modes"}
    BY <1>2 DEF NextMode, MethodsDone, roles
  <2> QED
    BY <1>0, <1>b, <1>g, <2>1
<1>3. CASE StartLighthouse
  <2>1. /\ leader' = [Unborn EXCEPT !["lighthouse"] = "running"] /\ helpers' = [r \in Roles |-> FALSE]
        /\ stop' = FALSE /\ returned' = FALSE /\ at' = "lighthouse" /\ UNCHANGED <<status, trouble>>
    BY <1>3 DEF StartLighthouse
  <2>2. Unborn \in [Roles -> {"none", "running", "ok", "failed", "killed"}]
    BY DEF Unborn
  <2>3. Typed'
    BY <1>0, <2>1, <2>2
  <2>4. Spared'
    BY <2>1 DEF Unborn
  <2> QED
    BY <1>g, <2>1, <2>3, <2>4
<1>l. ASSUME NEW r \in Roles, Launch(r), UNCHANGED <<stop, returned, status, trouble>>
      PROVE  Typed' /\ (Spared => Spared')
  <2>1. leader' = [leader EXCEPT ![r] = "running"] /\ helpers' = [helpers EXCEPT ![r] = r \in Islands]
    BY <1>l DEF Launch
  <2>2. leader' \in [Roles -> {"none", "running", "ok", "failed", "killed"}]
    BY <1>0, <2>1
  <2>3. (r \in Islands) \in BOOLEAN
    OBVIOUS
  <2>4. helpers' \in [Roles -> BOOLEAN]
    BY <1>0, <2>1, <2>3, Zenon
  <2> QED
    BY <1>0, <1>l, <2>1, <2>2, <2>4
<1>4. CASE StartServer
  <2>1. UNCHANGED <<stop, status, trouble>> /\ at = "lighthouse"
    BY <1>4 DEF StartServer
  <2>2. CASE Return(FALSE) /\ UNCHANGED <<leader, helpers>>
    BY <1>0, <1>b, <1>g, <2>1, <2>2 DEF Return
  <2>3. CASE Launch("param-server") /\ at' = "server" /\ UNCHANGED returned
    <3>1. "param-server" \in Roles
      BY DEF Roles, Infra
    <3> QED
      BY <1>b, <1>g, <1>l, <2>1, <2>3, <3>1
  <2> QED
    BY <1>4, <2>2, <2>3 DEF StartServer
<1>5. CASE LaunchIsland
  <2>1. UNCHANGED <<stop, status, trouble, returned>> /\ at = "islands"
    BY <1>5 DEF LaunchIsland
  <2>2. CASE at' = "waiting" /\ UNCHANGED <<leader, helpers>>
    BY <1>0, <1>b, <1>g, <2>1, <2>2
  <2>3. CASE at' = "islands" /\ \E k \in DOMAIN IslandNames : Launch(IslandNames[k])
    <3>1. \A k \in DOMAIN IslandNames : IslandNames[k] \in Roles
      BY DEF Roles, Islands, ToSet
    <3> QED
      BY <1>b, <1>g, <1>l, <2>1, <2>3, <3>1
  <2> QED
    BY <1>5, <2>1, <2>2, <2>3 DEF LaunchIsland
<1>6. CASE AwaitServer \/ PollInfra \/ PollIslands
  <2>1. /\ UNCHANGED <<leader, helpers, stop, status, trouble>>
        /\ at \notin Between
        /\ \/ at' \in {"islands", "polled", "waiting"} /\ UNCHANGED returned
           \/ returned' = FALSE /\ at' = "terminate"
           \/ returned' = TRUE /\ at' = "terminate" /\ AllDone
    BY <1>6 DEF AwaitServer, PollInfra, PollIslands, Return, roles
  <2> QED
    BY <1>0, <1>b, <1>g, <2>1 DEF AllDone
<1>7. CASE Terminate
  BY <1>0, <1>b, <1>g, <1>7 DEF Terminate, roles
<1>8. CASE Kill
  <2>1. /\ leader' = [r \in Roles |-> IF leader[r] = "running" THEN "killed" ELSE leader[r]]
        /\ helpers' = [r \in Roles |-> helpers[r] /\ leader[r] # "running"]
        /\ at = "grace" /\ at' = "finish" /\ UNCHANGED <<stop, returned, status, trouble>>
    BY <1>8 DEF Kill, Killed
  <2>2. leader' \in [Roles -> {"none", "running", "ok", "failed", "killed"}]
    BY <1>0, <2>1
  <2>3. helpers' \in [Roles -> BOOLEAN] /\ \A r \in Roles : helpers'[r] <=> helpers[r] /\ leader[r] # "running"
    BY <2>1, Zenon
  <2>4. Typed'
    BY <1>0, <2>1, <2>2, <2>3
  <2>5. \A r \in Roles : leader'[r] = IF leader[r] = "running" THEN "killed" ELSE leader[r]
    BY <2>1
  <2>6. Clean' \/ \E r \in Roles : helpers[r] /\ leader[r] = "killed"
    BY <2>3, <2>5
  <2>7. \A r \in Roles : ~(leader[r] = "killed")
    BY <1>b, <2>1
  <2>8. returned' => Good'
    BY <1>0, <1>b, <2>1, <2>5
  <2> QED
    BY <1>g, <2>1, <2>4, <2>6, <2>7, <2>8
<1>9. CASE FinishMethod
  <2>1. /\ UNCHANGED <<leader, helpers, stop, returned, trouble>> /\ at = "finish" /\ at' \in {"methods", "over"}
        /\ status' \in {1, status}
    BY <1>9 DEF FinishMethod, Exit, roles
  <2> QED
    BY <1>0, <1>b, <1>g, <2>1
<1>10. CASE Collect
  <2>1. /\ UNCHANGED <<leader, helpers, stop, returned, trouble>> /\ at = "collect" /\ at' = "over" /\ status' = 0
    BY <1>10 DEF Collect, Exit, roles
  <2> QED
    BY <1>0, <1>b, <1>g, <2>1
<1>11. CASE Announce
  BY <1>0, <1>b, <1>g, <1>11 DEF Announce
<1>12. CASE Interrupt
  BY <1>0, <1>b, <1>g, <1>12 DEF Interrupt, roles
<1>13. ASSUME NEW r \in Roles, leader[r] = "running", NEW e \in {"ok", "failed"}, leader' = [leader EXCEPT ![r] = e],
              helpers' = helpers \/ helpers' = [helpers EXCEPT ![r] = FALSE],
              UNCHANGED <<at, stop, returned, status>>, trouble' \in 0..MaxTrouble
       PROVE  RolesInv'
  <2>1. Typed'
    BY <1>0, <1>13
  <2>2. at \notin Between
    BY <1>b, <1>13
  <2>3. at # "preflight"
    BY <1>b, <1>13 DEF Unborn
  <2>4. at \in {"terminate", "grace", "finish"} /\ returned => Good'
    BY <1>0, <1>b, <1>13
  <2> QED
    BY <1>0, <1>b, <1>13, <1>g, <2>1, <2>2, <2>3, <2>4
<1>14. ASSUME NEW i \in Islands, IslandDone(i) PROVE RolesInv'
  BY <1>0, <1>13, <1>14 DEF IslandDone, others
<1>15. ASSUME NEW r \in Roles, LeaderEnds(r) PROVE RolesInv'
  <2>1. trouble' \in 0..MaxTrouble
    BY <1>0, <1>15 DEF LeaderEnds
  <2> QED
    BY <1>0, <1>13, <1>15, <2>1 DEF LeaderEnds, others
<1>16. CASE UNCHANGED launchVars
  BY <1>0, <1>b, <1>g, <1>16 DEF launchVars
<1> QED
  BY <1>1, <1>2, <1>3, <1>4, <1>5, <1>6, <1>7, <1>8, <1>9, <1>10, <1>11, <1>12, <1>14, <1>15, <1>16
  DEF LaunchNext, LauncherStep

-----------------------------------------------------------------------------
(* The launcher: its books. *)

\* The present run, the directory it logs in, and no other run that does.
LEMMA PresentRun ==
  ASSUME LoopsInv, at \in InRun \cup {"methods"}, method <= Len(Methods)
  PROVE  /\ Key \in Keys
         /\ <<distribution, Methods[method]>> \in Distributions \X ToSet(Methods)
         /\ distribution \in ToSet(ModesOf(asked))
         /\ DirectoryOf(<<distribution, Methods[method]>>) = Key
         /\ \A run \in Distributions \X ToSet(Methods) :
              run[1] \in ToSet(ModesOf(asked)) /\ DirectoryOf(run) = Key => run = <<distribution, Methods[method]>>
<1>1. /\ asked \in {"iid", "non_iid", "both"} /\ suffix \in {"", "iid", "non_iid"}
      /\ mode \in 1..(Len(ModesOf(asked)) + 1) /\ method \in 1..(Len(Methods) + 1)
      /\ mode <= Len(ModesOf(asked)) /\ suffix = IF asked = "both" /\ mode = 1 THEN "iid" ELSE ""
      /\ distribution = ModesOf(asked)[mode]
  BY DEF LoopsInv, InRun, Mode
<1>l. IF asked = "both" THEN Len(ModesOf(asked)) = 2 ELSE Len(ModesOf(asked)) = 1
  BY <1>1, TheModes
<1>2. mode = 1 \/ (mode = 2 /\ asked = "both")
  BY <1>1, <1>l, LoopArithmetic
<1>3. method \in 1..Len(Methods)
  BY <1>1, LauncherConstants, LoopArithmetic
<1>4. Methods[method] \in ToSet(Methods)
  BY <1>3, LauncherConstants
<1>5. distribution \in ToSet(ModesOf(asked)) /\ distribution \in Distributions
  <2>1. mode \in 1..Len(ModesOf(asked))
    BY <1>l, <1>2
  <2> QED
    BY <1>1, <2>1, TheModes
<1>6. Key = <<Methods[method], suffix>>
  BY DEF Key
<1>7. asked = "both" => (suffix = "iid" <=> distribution = "iid")
  BY <1>1, <1>2, TheModes
<1>8. asked # "both" => distribution = asked /\ ToSet(ModesOf(asked)) = {asked}
  BY <1>1, <1>2, TheModes
<1>9. DirectoryOf(<<distribution, Methods[method]>>) = Key
  BY <1>1, <1>6, <1>7 DEF DirectoryOf
<1>10. ASSUME NEW run \in Distributions \X ToSet(Methods), run[1] \in ToSet(ModesOf(asked)), DirectoryOf(run) = Key
       PROVE  run = <<distribution, Methods[method]>>
  <2>1. run = <<run[1], run[2]>> /\ run[1] \in {"iid", "non_iid"}
    BY <1>10 DEF Distributions
  <2>2. run[2] = Methods[method] /\ suffix = IF asked = "both" /\ run[1] = "iid" THEN "iid" ELSE ""
    <3>. DEFINE d == IF asked = "both" /\ run[1] = "iid" THEN "iid" ELSE ""
    <3>1. <<run[2], d>> = <<Methods[method], suffix>>
      BY <1>6, <1>10 DEF DirectoryOf
    <3>. HIDE DEF d
    <3>2. run[2] = Methods[method] /\ suffix = d
      BY <3>1
    <3> QED
      BY <3>2 DEF d
  <2>3. run[1] = distribution
    BY <1>5, <1>7, <1>8, <1>10, <2>1, <2>2 DEF Distributions
  <2> QED
    BY <2>1, <2>2, <2>3
<1>11. Key \in Keys
  BY <1>1, <1>4, <1>6 DEF Keys
<1>12. <<distribution, Methods[method]>> \in Distributions \X ToSet(Methods)
  BY <1>4, <1>5
<1> QED
  BY <1>5, <1>9, <1>10, <1>11, <1>12

LEMMA DirectoryIsKey ==
  ASSUME NEW run \in Distributions \X ToSet(Methods)
  PROVE  DirectoryOf(run) \in Keys /\ run # Nothing
<1>1. run = <<run[1], run[2]>> /\ run[1] \in {"iid", "non_iid"} /\ run[2] \in ToSet(Methods)
  BY DEF Distributions
<1>. DEFINE d == IF asked = "both" /\ run[1] = "iid" THEN "iid" ELSE ""
<1>2. DirectoryOf(run) = <<run[2], d>> /\ d \in {"", "iid", "non_iid"}
  BY DEF DirectoryOf
<1>3. Nothing[1] = "" /\ run[1] # ""
  BY <1>1 DEF Nothing
<1>. HIDE DEF d
<1>4. <<run[2], d>> \in ToSet(Methods) \X {"", "iid", "non_iid"}
  BY <1>1, <1>2
<1> QED
  BY <1>2, <1>3, <1>4 DEF Keys

LEMMA AppendedSet ==
  ASSUME NEW S, NEW s \in Seq(S), NEW e \in S
  PROVE  Append(s, e) \in Seq(S) /\ ToSet(Append(s, e)) = ToSet(s) \cup {e}
<1>1. /\ Append(s, e) \in Seq(S) /\ DOMAIN Append(s, e) = 1..(Len(s) + 1) /\ DOMAIN s = 1..Len(s) /\ Len(s) \in Nat
      /\ Append(s, e)[Len(s) + 1] = e /\ \A k \in 1..Len(s) : Append(s, e)[k] = s[k]
  OBVIOUS
<1>2. \A k : k \in 1..(Len(s) + 1) <=> k \in 1..Len(s) \/ k = Len(s) + 1
  BY <1>1
<1>3. ToSet(Append(s, e)) = {Append(s, e)[k] : k \in 1..(Len(s) + 1)} /\ ToSet(s) = {s[k] : k \in 1..Len(s)}
  BY <1>1 DEF ToSet
<1> QED
  BY <1>1, <1>2, <1>3

LEMMA LaunchBooks ==
  ASSUME LoopsInv, BooksInv, [LaunchNext]_launchVars
  PROVE  BooksInv'
<1>. DEFINE Run == <<distribution, Methods[method]>>
            Typed == logs \in [Keys -> {Nothing} \cup (Distributions \X ToSet(Methods))]
                     /\ ran \in Seq(Distributions \X ToSet(Methods))
            Kept == \A run \in ToSet(ran) : run[1] \in ToSet(ModesOf(asked)) /\ logs[DirectoryOf(run)] = run
            Known == \A key \in Keys : logs[key] # Nothing =>
                        logs[key] \in ToSet(ran) \/ (Underway /\ logs[key] = Run)
            Settled == \A key \in Keys : logs[key] # Nothing => logs[key] \in ToSet(ran)
            Placed == at \in InRun => logs[Key] = Run
<1>b. Typed /\ Kept /\ Known /\ Placed
  BY DEF BooksInv
<1>g. ASSUME Typed', Kept', Known', Placed' PROVE BooksInv'
  BY <1>g DEF BooksInv
<1>o. ~Underway => Settled
  BY <1>b
<1>m. \A run \in ToSet(ran) : run \in Distributions \X ToSet(Methods)
  BY <1>b DEF ToSet
<1>u. ASSUME UNCHANGED <<asked, books>> PROVE Typed' /\ Kept' /\ (Settled => Settled')
  BY <1>b, <1>u DEF books, DirectoryOf
<1>1. CASE UNCHANGED <<at, loops, status, books>> \/ (at \in InRun /\ at' \in InRun /\ UNCHANGED <<loops, status, books>>)
  <2>1. UNCHANGED <<loops, books>> /\ (Underway => Underway') /\ (at' \in InRun => at \in InRun)
    BY <1>1 DEF Underway, Aborted
  <2>2. Run' = Run /\ Key' = Key /\ UNCHANGED <<asked, books>>
    BY <2>1 DEF loops, Key
  <2>3. Known' /\ Placed'
    BY <1>b, <2>1, <2>2 DEF books
  <2> QED
    BY <1>g, <1>u, <2>2, <2>3
<1>2. CASE Preflight \/ NextMode \/ MethodsDone \/ Collect
  <2>1. /\ UNCHANGED <<asked, logs, ran>> /\ at \in {"preflight", "modes", "methods", "collect"}
        /\ at' \in {"over", "modes", "methods", "collect"}
    BY <1>2 DEF Preflight, NextMode, MethodsDone, Collect, Exit, books, loops
  <2>2. Settled
    BY <1>o, <2>1 DEF Underway, Aborted, InRun
  <2>3. Typed' /\ Kept' /\ Known'
    BY <1>b, <2>1, <2>2 DEF DirectoryOf
  <2>4. Placed'
    BY <2>1 DEF InRun
  <2> QED
    BY <1>g, <2>3, <2>4
<1>3. CASE StartLighthouse
  <2>1. /\ at = "methods" /\ method <= Len(Methods) /\ logs' = [logs EXCEPT ![Key] = Run] /\ at' = "lighthouse"
        /\ UNCHANGED <<asked, distribution, mode, method, suffix, ran>>
    BY <1>3 DEF StartLighthouse, loops
  <2>2. Settled
    BY <1>o, <2>1 DEF Underway, Aborted, InRun
  <2>3. /\ Key \in Keys /\ Run \in Distributions \X ToSet(Methods)
        /\ \A run \in Distributions \X ToSet(Methods) :
              run[1] \in ToSet(ModesOf(asked)) /\ DirectoryOf(run) = Key => run = Run
    BY <2>1, PresentRun
  <2>4. Run' = Run /\ Key' = Key /\ Underway'
    BY <2>1 DEF Key, Underway, InRun
  <2>. HIDE DEF Run
  <2>5. logs'[Key] = Run /\ \A key \in Keys : key # Key => logs'[key] = logs[key]
    BY <1>b, <2>1, <2>3
  <2>6. Typed'
    BY <1>b, <2>1, <2>3
  <2>7. Kept'
    <3>. SUFFICES ASSUME NEW run \in ToSet(ran)
                  PROVE  run[1] \in ToSet(ModesOf(asked)) /\ logs'[DirectoryOf(run)] = run
      BY <2>1 DEF DirectoryOf
    <3>1. run \in Distributions \X ToSet(Methods) /\ run[1] \in ToSet(ModesOf(asked)) /\ logs[DirectoryOf(run)] = run
      BY <1>b, <1>m
    <3>2. DirectoryOf(run) \in Keys
      BY <3>1, DirectoryIsKey
    <3> QED
      BY <2>3, <2>5, <3>1, <3>2
  <2>8. Known'
    <3>1. \A key \in Keys : logs'[key] # Nothing => logs'[key] \in ToSet(ran) \/ logs'[key] = Run
      BY <2>2, <2>5
    <3> QED
      BY <2>1, <2>4, <3>1
  <2>9. Placed'
    BY <2>4, <2>5
  <2> QED
    BY <1>g, <2>6, <2>7, <2>8, <2>9
<1>4. CASE FinishMethod
  <2>1. UNCHANGED <<asked, distribution, mode, suffix, logs>> /\ at = "finish"
    BY <1>4 DEF FinishMethod
  <2>2. /\ Key \in Keys /\ Run \in Distributions \X ToSet(Methods) /\ distribution \in ToSet(ModesOf(asked))
        /\ DirectoryOf(Run) = Key /\ logs[Key] = Run
    BY <1>b, <2>1, PresentRun DEF LoopsInv, InRun
  <2>3. CASE returned
    <3>1. ran' = Append(ran, Run) /\ at' = "methods"
      BY <1>4, <2>3 DEF FinishMethod
    <3>2. Run[1] \in ToSet(ModesOf(asked))
      BY <2>2
    <3>. HIDE DEF Run
    <3>3. ran' \in Seq(Distributions \X ToSet(Methods)) /\ ToSet(ran') = ToSet(ran) \cup {Run}
      BY <1>b, <2>2, <3>1, AppendedSet
    <3>4. Typed' /\ Settled'
      BY <1>b, <2>1, <3>3
    <3>5. \A run \in ToSet(ran') : run[1] \in ToSet(ModesOf(asked)) /\ logs[DirectoryOf(run)] = run
      BY <1>b, <2>2, <3>2, <3>3
    <3>6. Kept'
      BY <2>1, <3>5 DEF DirectoryOf
    <3>7. Placed'
      BY <3>1 DEF InRun
    <3> QED
      BY <1>g, <3>4, <3>6, <3>7
  <2>4. CASE ~returned
    <3>1. UNCHANGED <<ran, method>> /\ at' = "over" /\ status' = 1
      BY <1>4, <2>4 DEF FinishMethod, Exit
    <3>2. Underway' /\ at' \notin InRun /\ Run' = Run
      BY <2>1, <3>1 DEF Underway, Aborted, InRun
    <3>. HIDE DEF Run
    <3>3. Typed' /\ Kept' /\ Known' /\ Placed'
      BY <1>b, <2>1, <3>1, <3>2 DEF DirectoryOf
    <3> QED
      BY <1>g, <3>3
  <2> QED
    BY <2>3, <2>4
<1>5. CASE UNCHANGED launchVars
  BY <1>1, <1>5 DEF launchVars, loops, books
<1> QED
  BY <1>1, <1>2, <1>3, <1>4, <1>5, ProcessesMove, RunGoesOn DEF LaunchNext, LauncherStep, RunStep

\* The summary, when it is made, and then for good.
LEMMA LaunchSummary ==
  ASSUME LoopsInv, BooksInv, SummaryWhole, [LaunchNext]_launchVars
  PROVE  SummaryWhole'
<1>1. CASE at' = at /\ UNCHANGED <<loops, status, books>>
  BY <1>1 DEF SummaryWhole, loops, books
<1>2. CASE RunStep \/ Preflight \/ NextMode \/ MethodsDone \/ StartLighthouse \/ FinishMethod
  <2>1. at' # "over" \/ status' \in {1, 2}
    BY <1>2, RunGoesOn DEF Preflight, NextMode, MethodsDone, StartLighthouse, FinishMethod, Exit, InRun
  <2> QED
    BY <2>1 DEF SummaryWhole
<1>3. CASE Collect
  <2>1. /\ UNCHANGED <<asked, distribution, logs, ran>> /\ at = "collect"
        /\ rows' = {key \in {Collected(m, x) : m \in ToSet(ModesOf(asked)), x \in ToSet(Methods)} : logs[key] # Nothing}
    BY <1>3 DEF Collect, loops
  <2>2. distribution # "both" /\ asked \in {"iid", "non_iid", "both"}
    <3>1. /\ asked \in {"iid", "non_iid", "both"} /\ mode \in 1..(Len(ModesOf(asked)) + 1)
          /\ mode > Len(ModesOf(asked)) /\ distribution = ModesOf(asked)[mode - 1]
      BY <2>1 DEF LoopsInv
    <3>2. IF asked = "both" THEN Len(ModesOf(asked)) = 2 ELSE Len(ModesOf(asked)) = 1
      BY <3>1, TheModes
    <3>3. mode - 1 = Len(ModesOf(asked))
      BY <3>1, <3>2
    <3>4. distribution = ModesOf(asked)[Len(ModesOf(asked))]
      BY <3>1, <3>3
    <3> QED
      BY <3>1, <3>2, <3>4, TheModes
  <2>3. \A m, x : Collected(m, x) = <<x, "">>
    BY <2>2 DEF Collected, SuffixOf
  <2>4. \A key \in Keys : logs[key] # Nothing => logs[key] \in ToSet(ran)
    BY <2>1 DEF BooksInv, Underway, Aborted, InRun
  <2>5. \A key : key \in rows' <=> /\ \E m \in ToSet(ModesOf(asked)), x \in ToSet(Methods) : key = <<x, "">>
                                   /\ logs[key] # Nothing
    <3>1. \A key : key \in rows' <=> /\ \E m \in ToSet(ModesOf(asked)), x \in ToSet(Methods) : key = Collected(m, x)
                                     /\ logs[key] # Nothing
      <4>. DEFINE Dirs == {Collected(m, x) : m \in ToSet(ModesOf(asked)), x \in ToSet(Methods)}
      <4>1. \A key : key \in Dirs <=> \E m \in ToSet(ModesOf(asked)), x \in ToSet(Methods) : key = Collected(m, x)
        OBVIOUS
      <4>2. rows' = {key \in Dirs : logs[key] # Nothing}
        BY <2>1
      <4>. HIDE DEF Dirs
      <4>3. \A key : key \in rows' <=> key \in Dirs /\ logs[key] # Nothing
        BY <4>2
      <4> QED
        BY <4>1, <4>3
    <3> QED
      BY <2>3, <3>1
  <2>6. \A key \in rows' : key \in Keys /\ logs[key] \in ToSet(ran)
    <3>1. \A x \in ToSet(Methods) : <<x, "">> \in Keys
      BY DEF Keys
    <3> QED
      BY <2>4, <2>5, <3>1
  <2>7. ASSUME asked # "both", NEW run \in ToSet(ran) PROVE \E key \in rows' : logs[key] = run
    <3>1. run \in Distributions \X ToSet(Methods) /\ logs[DirectoryOf(run)] = run
      BY DEF BooksInv, ToSet
    <3>2. DirectoryOf(run) = <<run[2], "">> /\ run # Nothing /\ run[2] \in ToSet(Methods)
      BY <2>7, <3>1, DirectoryIsKey DEF DirectoryOf
    <3>3. asked \in ToSet(ModesOf(asked))
      BY <2>2, <2>7, TheModes
    <3> QED
      BY <2>5, <3>1, <3>2, <3>3
  <2> QED
    BY <2>1, <2>6, <2>7 DEF SummaryWhole
<1>4. CASE UNCHANGED launchVars
  BY <1>1, <1>4 DEF launchVars, loops, books
<1> QED
  BY <1>1, <1>2, <1>3, <1>4, ProcessesMove DEF LaunchNext, LauncherStep, RunStep

-----------------------------------------------------------------------------
(* The launcher: the theorem. *)

LEMMA LaunchStarts ==
  ASSUME LaunchInit
  PROVE  CampaignInv
<1>1. /\ at = "preflight" /\ asked \in {"iid", "non_iid", "both"} /\ distribution = asked
      /\ mode = 1 /\ method = 1 /\ suffix = "" /\ leader = Unborn /\ helpers = [r \in Roles |-> FALSE]
      /\ stop = FALSE /\ returned = FALSE /\ status = -1 /\ logs = [k \in Keys |-> Nothing] /\ ran = <<>>
      /\ trouble = MaxTrouble
  BY DEF LaunchInit, LaunchInitAs
<1>2. LoopsInv
  <2>1. Len(ModesOf(asked)) \in {1, 2}
    BY <1>1, TheModes
  <2>2. 1 \in 1..(Len(ModesOf(asked)) + 1) /\ 1 \in 1..(Len(Methods) + 1)
    BY <2>1, LauncherConstants
  <2> QED
    BY <1>1, <2>2 DEF LoopsInv, InRun
<1>3. RolesInv
  <2>1. leader \in [Roles -> {"none", "running", "ok", "failed", "killed"}] /\ \A r \in Roles : leader[r] # "killed"
    BY <1>1 DEF Unborn
  <2>2. helpers \in [Roles -> BOOLEAN] /\ \A r \in Roles : ~helpers[r]
    BY <1>1
  <2>3. trouble \in 0..MaxTrouble
    <3>1. MaxTrouble \in 0..MaxTrouble
      BY LauncherAssumption
    <3> QED
      BY <1>1, <3>1
  <2> QED
    BY <1>1, <2>1, <2>2, <2>3 DEF RolesInv, NoneLeftRunning
<1>4. BooksInv
  <2>1. ToSet(<<>>) = {} /\ <<>> \in Seq(Distributions \X ToSet(Methods))
    BY DEF ToSet
  <2> QED
    BY <1>1, <2>1 DEF BooksInv, InRun, Nothing
<1>5. SummaryWhole
  BY <1>1 DEF SummaryWhole
<1> QED
  BY <1>2, <1>3, <1>4, <1>5 DEF CampaignInv

LEMMA CampaignImplies ==
  ASSUME CampaignInv
  PROVE  CampaignSound
<1>1. LaunchTypeOK
  <2>1. mode \in 1..3
    <3>1. asked \in {"iid", "non_iid", "both"} /\ mode \in 1..(Len(ModesOf(asked)) + 1)
      BY DEF CampaignInv, LoopsInv
    <3>2. Len(ModesOf(asked)) \in {1, 2}
      BY <3>1, TheModes
    <3>3. mode \in {1, 2, 3}
      BY <3>1, <3>2, LoopArithmetic
    <3> QED
      BY <3>3
  <2>2. logs \in [Keys -> {Nothing} \cup ({"iid", "non_iid"} \X ToSet(Methods))]
    BY DEF CampaignInv, BooksInv, Distributions
  <2> QED
    BY <2>1, <2>2 DEF CampaignInv, LoopsInv, RolesInv, LaunchTypeOK
<1>2. NoneLeftRunning /\ SummaryWhole
  BY DEF CampaignInv, RolesInv
<1>3. RunsWhole
  <2>1. at = "finish" /\ returned => \A i \in Islands : leader[i] = "ok"
    BY DEF CampaignInv, RolesInv
  <2>2. ASSUME NEW k \in DOMAIN ran PROVE \E key \in Keys : logs[key] = ran[k]
    <3>1. ran[k] \in Distributions \X ToSet(Methods) /\ ran[k] \in ToSet(ran)
      BY <2>2 DEF CampaignInv, BooksInv, ToSet
    <3>2. logs[DirectoryOf(ran[k])] = ran[k] /\ DirectoryOf(ran[k]) \in Keys
      BY <3>1, DirectoryIsKey DEF CampaignInv, BooksInv
    <3> QED
      BY <3>2
  <2> QED
    BY <2>1, <2>2 DEF RunsWhole
<1> QED
  BY <1>1, <1>2, <1>3 DEF CampaignSound

\* No leader outlives its run, a run counts as done only when all its islands
\* ended well, later runs leave its logs alone, and the summary collects the
\* logs of such runs only (run_single_method, shutdown and main), whatever
\* fails and is interrupted.
THEOREM CampaignsAreSound == CampaignSafety => []CampaignSound
<1>1. CampaignInv /\ [LaunchNext]_launchVars => CampaignInv'
  BY LaunchLoops, LaunchRoles, LaunchBooks, LaunchSummary DEF CampaignInv
<1> QED
  BY <1>1, LaunchStarts, CampaignImplies, PTL DEF CampaignSafety
=============================================================================
