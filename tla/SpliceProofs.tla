----------------------------- MODULE SpliceProofs -----------------------------
(***************************************************************************)
(* Proofs about Splice, for any number of stages, waves and requests.      *)
(***************************************************************************)
EXTENDS Splice, FiniteSetTheorems, SequenceTheorems, WellFoundedInduction, TLAPS

-----------------------------------------------------------------------------
(* Induction, by sets. *)

LEMMA LeastOf ==
  ASSUME NEW T \in SUBSET Nat, T # {}
  PROVE  \E n \in T : \A k \in T : n <= k
<1>. DEFINE R == OpToRel(<, Nat)
<1>1. IsWellFoundedOn(R, Nat)
  BY NatLessThanWellFounded
<1>2. PICK n \in T : \A k \in T : <<k, n>> \notin R
  <2>. HIDE DEF R
  <2> QED BY <1>1, WFMin
<1>3. \A k \in T : <<k, n>> \in R <=> k < n
  BY DEF OpToRel
<1>4. \A k \in T : ~(k < n)
  <2>. HIDE DEF R
  <2> QED BY <1>2, <1>3
<1>5. \A k \in T : n \in Int /\ k \in Int
  OBVIOUS
<1> QED BY <1>4, <1>5

\* What holds at 0, and at n + 1 if it does at n, holds everywhere.
LEMMA SetInduction ==
  ASSUME NEW S, 0 \in S, \A n \in Nat : n \in S => n + 1 \in S
  PROVE  \A n \in Nat : n \in S
<1>1. SUFFICES ASSUME Nat \ S # {} PROVE FALSE OBVIOUS
<1>2. PICK n \in Nat \ S : \A k \in Nat \ S : n <= k
  BY <1>1, LeastOf
<1>3. n - 1 \in Nat /\ n - 1 < n BY <1>2
<1> QED BY <1>2, <1>3

-----------------------------------------------------------------------------
(* Keep. *)

\* The recursion of Keep is well founded.
LEMMA KeptExists ==
  ASSUME NEW q \in Seq(Requests), NEW S
  PROVE  \E kept : kept = [n \in 0..Len(q) |->
           IF n = 0 THEN <<>> ELSE IF q[n] \in S THEN Append(kept[n - 1], q[n]) ELSE kept[n - 1]]
<1>. DEFINE Step(f, n) == IF q[n] \in S THEN Append(f[n - 1], q[n]) ELSE f[n - 1]
            Works(f, k) == f = [n \in 0..k |-> IF n = 0 THEN <<>> ELSE Step(f, n)]
            Good == {k \in Nat : k <= Len(q) => \E f : Works(f, k)}
<1>1. 0 \in Good
  <2>1. Works([n \in 0..0 |-> <<>>], 0)
    OBVIOUS
  <2> QED BY <2>1
<1>2. ASSUME NEW k \in Nat, k \in Good PROVE k + 1 \in Good
  <2>1. SUFFICES ASSUME k + 1 <= Len(q) PROVE \E f : Works(f, k + 1)
    OBVIOUS
  <2>2. PICK f : Works(f, k)
    BY <1>2, <2>1
  <2>. DEFINE g == [n \in 0..(k + 1) |-> IF n = k + 1 THEN Step(f, n) ELSE f[n]]
  <2>3. Works(g, k + 1)
    <3>1. \A n \in 0..k : g[n] = f[n]
      OBVIOUS
    <3>2. \A n \in 0..(k + 1) : n # 0 => Step(g, n) = Step(f, n)
      BY <3>1
    <3>3. \A n \in 0..k : f[n] = IF n = 0 THEN <<>> ELSE Step(f, n)
      BY <2>2
    <3>4. \A n \in 0..(k + 1) : g[n] = IF n = 0 THEN <<>> ELSE Step(g, n)
      <4>. HIDE DEF Step
      <4> QED BY <3>2, <3>3
    <3>5. g = [n \in 0..(k + 1) |-> g[n]]
      OBVIOUS
    <3>. HIDE DEF g, Step
    <3> QED BY <3>4, <3>5
  <2> QED BY <2>3
<1>3. \A n \in Nat : n \in Good
  <2>. HIDE DEF Good
  <2> QED BY <1>1, <1>2, SetInduction
<1> QED BY <1>3

LEMMA KeepIs ==
  ASSUME NEW q \in Seq(Requests), NEW S
  PROVE  \E kept :
           /\ Keep(q, S) = kept[Len(q)] /\ kept[0] = <<>>
           /\ \A n \in 1..Len(q) : kept[n] = IF q[n] \in S THEN Append(kept[n - 1], q[n]) ELSE kept[n - 1]
<1>. DEFINE Works(kept) == kept = [n \in 0..Len(q) |->
              IF n = 0 THEN <<>> ELSE IF q[n] \in S THEN Append(kept[n - 1], q[n]) ELSE kept[n - 1]]
            f == CHOOSE kept : Works(kept)
<1>1. Works(f)
  <2>1. \E kept : Works(kept)
    BY KeptExists, Zenon
  <2>. HIDE DEF Works
  <2> QED BY <2>1, Zenon
<1>2. Keep(q, S) = f[Len(q)]
  BY DEF Keep
<1>3. \A n \in 0..Len(q) : f[n] = IF n = 0 THEN <<>> ELSE IF q[n] \in S THEN Append(f[n - 1], q[n]) ELSE f[n - 1]
  <2>. HIDE DEF f
  <2> QED BY <1>1
<1>. HIDE DEF f, Works
<1>4. f[0] = <<>>
  BY <1>3
<1> QED BY <1>2, <1>3, <1>4

\* Keep picks the elements of q that are in S: g says where they are.
Picks(q, S, n, k, g) ==
  /\ k \in Seq(Requests) /\ g \in [1..Len(k) -> 1..n]
  /\ \A i \in 1..Len(k) : k[i] = q[g[i]] /\ q[g[i]] \in S
  /\ \A i, j \in 1..Len(k) : i < j => g[i] < g[j]
  /\ \A m \in 1..n : q[m] \in S => \E i \in 1..Len(k) : g[i] = m

LEMMA PickMore ==
  ASSUME NEW q \in Seq(Requests), NEW S, NEW n \in Nat, n + 1 <= Len(q), NEW k, NEW g,
         Picks(q, S, n, k, g), q[n + 1] \in S
  PROVE  \E h : Picks(q, S, n + 1, Append(k, q[n + 1]), h)
<1>. DEFINE c == Append(k, q[n + 1])
            h == [i \in 1..(Len(k) + 1) |-> IF i = Len(k) + 1 THEN n + 1 ELSE g[i]]
<1>1. /\ k \in Seq(Requests) /\ Len(k) \in Nat /\ q[n + 1] \in Requests
      /\ c \in Seq(Requests) /\ Len(c) = Len(k) + 1
      /\ c[Len(k) + 1] = q[n + 1] /\ \A i \in 1..Len(k) : c[i] = k[i]
  BY DEF Picks
<1>2. h \in [1..Len(c) -> 1..(n + 1)]
  BY <1>1 DEF Picks
<1>3. \A i \in 1..Len(c) : c[i] = q[h[i]] /\ q[h[i]] \in S
  BY <1>1 DEF Picks
<1>4. \A i, j \in 1..Len(c) : i < j => h[i] < h[j]
  <2>1. SUFFICES ASSUME NEW i \in 1..Len(c), NEW j \in 1..Len(c), i < j PROVE h[i] < h[j]
    OBVIOUS
  <2>2. i \in 1..Len(k) /\ h[i] = g[i] /\ g[i] \in 1..n
    BY <2>1, <1>1 DEF Picks
  <2>3. CASE j = Len(k) + 1
    BY <2>2, <2>3, <1>1
  <2>4. CASE j # Len(k) + 1
    <3>1. j \in 1..Len(k) /\ h[j] = g[j]
      BY <2>4, <1>1
    <3> QED BY <3>1, <2>1, <2>2 DEF Picks
  <2> QED BY <2>3, <2>4
<1>5. \A m \in 1..(n + 1) : q[m] \in S => \E i \in 1..Len(c) : h[i] = m
  <2>1. SUFFICES ASSUME NEW m \in 1..(n + 1), q[m] \in S PROVE \E i \in 1..Len(c) : h[i] = m
    OBVIOUS
  <2>2. CASE m = n + 1
    BY <2>2, <1>1
  <2>3. CASE m # n + 1
    <3>1. PICK i \in 1..Len(k) : g[i] = m
      BY <2>1, <2>3 DEF Picks
    <3>2. i \in 1..Len(c) /\ h[i] = m
      BY <3>1, <1>1
    <3> QED BY <3>2
  <2> QED BY <2>2, <2>3
<1>. HIDE DEF c, h
<1>6. Picks(q, S, n + 1, c, h)
  BY <1>1, <1>2, <1>3, <1>4, <1>5 DEF Picks
<1> QED BY <1>6 DEF c

LEMMA PickSame ==
  ASSUME NEW q \in Seq(Requests), NEW S, NEW n \in Nat, n + 1 <= Len(q), NEW k, NEW g,
         Picks(q, S, n, k, g), q[n + 1] \notin S
  PROVE  Picks(q, S, n + 1, k, g)
<1>1. g \in [1..Len(k) -> 1..(n + 1)]
  BY DEF Picks
<1>2. \A m \in 1..(n + 1) : q[m] \in S => m \in 1..n
  OBVIOUS
<1> QED BY <1>1, <1>2 DEF Picks

LEMMA KeepPicks ==
  ASSUME NEW q \in Seq(Requests), NEW S
  PROVE  \E g : Picks(q, S, Len(q), Keep(q, S), g)
<1>1. PICK kept :
        /\ Keep(q, S) = kept[Len(q)] /\ kept[0] = <<>>
        /\ \A n \in 1..Len(q) : kept[n] = IF q[n] \in S THEN Append(kept[n - 1], q[n]) ELSE kept[n - 1]
  BY KeepIs
<1>. DEFINE Good == {n \in Nat : n <= Len(q) => \E g : Picks(q, S, n, kept[n], g)}
<1>2. 0 \in Good
  <2>1. Picks(q, S, 0, <<>>, [i \in 1..0 |-> 0])
    BY DEF Picks
  <2> QED BY <2>1, <1>1
<1>3. ASSUME NEW n \in Nat, n \in Good PROVE n + 1 \in Good
  <2>1. SUFFICES ASSUME n + 1 <= Len(q) PROVE \E g : Picks(q, S, n + 1, kept[n + 1], g)
    OBVIOUS
  <2>2. PICK g : Picks(q, S, n, kept[n], g)
    BY <1>3, <2>1
  <2>3. kept[n + 1] = IF q[n + 1] \in S THEN Append(kept[n], q[n + 1]) ELSE kept[n]
    <3>1. n + 1 \in 1..Len(q) /\ (n + 1) - 1 = n
      BY <2>1
    <3> QED BY <3>1, <1>1
  <2> QED BY <2>1, <2>2, <2>3, PickMore, PickSame
<1>4. \A n \in Nat : n \in Good
  <2>. HIDE DEF Good
  <2> QED BY <1>2, <1>3, SetInduction
<1> QED BY <1>1, <1>4

LEMMA KeepFacts ==
  ASSUME NEW q \in Seq(Requests), NEW S
  PROVE  /\ Keep(q, S) \in Seq(Requests)
         /\ ToSet(Keep(q, S)) = ToSet(q) \cap S
         /\ IsInjective(q) => IsInjective(Keep(q, S))
<1>1. PICK g : Picks(q, S, Len(q), Keep(q, S), g)
  BY KeepPicks
<1>. DEFINE k == Keep(q, S)
<1>2. /\ k \in Seq(Requests) /\ Len(k) \in Nat /\ DOMAIN k = 1..Len(k) /\ DOMAIN q = 1..Len(q)
      /\ g \in [1..Len(k) -> 1..Len(q)]
      /\ \A i \in 1..Len(k) : k[i] = q[g[i]] /\ q[g[i]] \in S
      /\ \A i, j \in 1..Len(k) : i < j => g[i] < g[j]
      /\ \A m \in 1..Len(q) : q[m] \in S => \E i \in 1..Len(k) : g[i] = m
  BY <1>1 DEF Picks
<1>. HIDE DEF k
<1>3. ToSet(k) = ToSet(q) \cap S
  <2>1. \A r \in ToSet(k) : r \in ToSet(q) \cap S
    BY <1>2 DEF ToSet
  <2>2. ASSUME NEW r \in ToSet(q), r \in S PROVE r \in ToSet(k)
    <3>1. PICK m \in 1..Len(q) : q[m] = r
      BY <1>2 DEF ToSet
    <3>2. PICK i \in 1..Len(k) : g[i] = m
      BY <3>1, <2>2, <1>2
    <3> QED BY <3>1, <3>2, <1>2 DEF ToSet
  <2> QED BY <2>1, <2>2
<1>4. ASSUME IsInjective(q) PROVE IsInjective(k)
  <2>1. SUFFICES ASSUME NEW i \in 1..Len(k), NEW j \in 1..Len(k), k[i] = k[j] PROVE i = j
    BY <1>2 DEF IsInjective
  <2>2. g[i] = g[j]
    BY <1>2, <1>4, <2>1 DEF IsInjective
  <2>3. ~(i < j) /\ ~(j < i)
    BY <2>2, <1>2
  <2> QED BY <2>3, <1>2
<1> QED BY <1>2, <1>3, <1>4 DEF k

\* Keep looks at what is in the sequence only, and keeps all of it if it may.
LEMMA KeepSame ==
  ASSUME NEW q \in Seq(Requests), NEW S, NEW T, \A r \in ToSet(q) : r \in S <=> r \in T
  PROVE  Keep(q, S) = Keep(q, T)
<1>. DEFINE Works(f, A) == /\ Keep(q, A) = f[Len(q)] /\ f[0] = <<>>
                           /\ \A n \in 1..Len(q) : f[n] = IF q[n] \in A THEN Append(f[n - 1], q[n]) ELSE f[n - 1]
<1>1. PICK f : Works(f, S)
  BY KeepIs
<1>2. PICK h : Works(h, T)
  BY KeepIs
<1>3. \A n \in 1..Len(q) : q[n] \in S <=> q[n] \in T
  BY DEF ToSet
<1>. DEFINE Good == {n \in Nat : n <= Len(q) => f[n] = h[n]}
<1>4. 0 \in Good
  BY <1>1, <1>2
<1>5. ASSUME NEW n \in Nat, n \in Good PROVE n + 1 \in Good
  <2>1. SUFFICES ASSUME n + 1 <= Len(q) PROVE f[n + 1] = h[n + 1]
    OBVIOUS
  <2>2. f[n] = h[n]
    BY <1>5, <2>1
  <2>3. n + 1 \in 1..Len(q) /\ (n + 1) - 1 = n
    BY <2>1
  <2> QED BY <2>2, <2>3, <1>1, <1>2, <1>3
<1>6. \A n \in Nat : n \in Good
  <2>. HIDE DEF Good
  <2> QED BY <1>4, <1>5, SetInduction
<1> QED BY <1>6, <1>1, <1>2

LEMMA KeepAll ==
  ASSUME NEW q \in Seq(Requests), NEW S, ToSet(q) \subseteq S
  PROVE  Keep(q, S) = q
<1>1. PICK f : /\ Keep(q, S) = f[Len(q)] /\ f[0] = <<>>
               /\ \A n \in 1..Len(q) : f[n] = IF q[n] \in S THEN Append(f[n - 1], q[n]) ELSE f[n - 1]
  BY KeepIs
<1>2. \A n \in 1..Len(q) : q[n] \in S
  BY DEF ToSet
<1>. DEFINE Good == {n \in Nat : n <= Len(q) => f[n] = SubSeq(q, 1, n)}
<1>3. 0 \in Good
  <2>1. SubSeq(q, 1, 0) = <<>>
    BY SubSeqEmpty
  <2> QED BY <2>1, <1>1
<1>4. ASSUME NEW n \in Nat, n \in Good PROVE n + 1 \in Good
  <2>1. SUFFICES ASSUME n + 1 <= Len(q) PROVE f[n + 1] = SubSeq(q, 1, n + 1)
    OBVIOUS
  <2>2. n + 1 \in 1..Len(q) /\ (n + 1) - 1 = n
    BY <2>1
  <2>3. f[n + 1] = Append(SubSeq(q, 1, n), q[n + 1])
    <3>1. f[n] = SubSeq(q, 1, n)
      BY <1>4, <2>1
    <3>2. f[n + 1] = Append(f[n], q[n + 1])
      BY <2>2, <1>1, <1>2
    <3> QED BY <3>1, <3>2
  <2>4. Append(SubSeq(q, 1, n), q[n + 1]) = SubSeq(q, 1, n + 1)
    BY <2>2, SubSeqRecursiveSecond
  <2> QED BY <2>3, <2>4
<1>5. \A n \in Nat : n \in Good
  <2>. HIDE DEF Good
  <2> QED BY <1>3, <1>4, SetInduction
<1>6. SubSeq(q, 1, Len(q)) = q
  BY SubSeqFull
<1> QED BY <1>5, <1>6, <1>1

-----------------------------------------------------------------------------
(* Paths. *)

LEMMA PathExists ==
  ASSUME NEW l, NEW q, Len(q) \in Nat
  PROVE  \E at : at = [n \in 0..Len(q) |-> IF n = 0 THEN l ELSE After(at[n - 1], q[n])]
<1>. DEFINE Step(f, n) == After(f[n - 1], q[n])
            Works(f, k) == f = [n \in 0..k |-> IF n = 0 THEN l ELSE Step(f, n)]
            Good == {k \in Nat : \E f : Works(f, k)}
<1>1. 0 \in Good
  <2>1. Works([n \in 0..0 |-> l], 0)
    OBVIOUS
  <2> QED BY <2>1
<1>2. ASSUME NEW k \in Nat, k \in Good PROVE k + 1 \in Good
  <2>2. PICK f : Works(f, k)
    BY <1>2
  <2>. DEFINE g == [n \in 0..(k + 1) |-> IF n = k + 1 THEN Step(f, n) ELSE f[n]]
  <2>3. Works(g, k + 1)
    <3>1. \A n \in 0..k : g[n] = f[n]
      OBVIOUS
    <3>2. \A n \in 0..(k + 1) : n # 0 => Step(g, n) = Step(f, n)
      BY <3>1
    <3>3. \A n \in 0..k : f[n] = IF n = 0 THEN l ELSE Step(f, n)
      BY <2>2
    <3>4. \A n \in 0..(k + 1) : g[n] = IF n = 0 THEN l ELSE Step(g, n)
      <4>. HIDE DEF Step
      <4> QED BY <3>2, <3>3
    <3>5. g = [n \in 0..(k + 1) |-> g[n]]
      OBVIOUS
    <3>. HIDE DEF g, Step
    <3> QED BY <3>4, <3>5
  <2>4. \E h : Works(h, k + 1)
    <3>. HIDE DEF g, Works
    <3> QED BY <2>3
  <2> QED BY <2>4
<1>3. \A n \in Nat : n \in Good
  <2>. HIDE DEF Good
  <2> QED BY <1>1, <1>2, SetInduction
<1> QED BY <1>3

LEMMA PathIs ==
  ASSUME NEW l, NEW q, Len(q) \in Nat
  PROVE  /\ Path(l, q)[0] = l
         /\ \A n \in 1..Len(q) : Path(l, q)[n] = After(Path(l, q)[n - 1], q[n])
<1>. DEFINE Works(at) == at = [n \in 0..Len(q) |-> IF n = 0 THEN l ELSE After(at[n - 1], q[n])]
            f == CHOOSE at : Works(at)
<1>1. Works(f)
  BY PathExists
<1>2. Path(l, q) = f
  BY DEF Path
<1>3. \A n \in 0..Len(q) : f[n] = IF n = 0 THEN l ELSE After(f[n - 1], q[n])
  <2>. HIDE DEF f
  <2> QED BY <1>1
<1>. HIDE DEF f, Works
<1> QED BY <1>2, <1>3

\* Whatever obeys the recursion is the path.
LEMMA PathOnly ==
  ASSUME NEW l, NEW q, Len(q) \in Nat, NEW h, NEW k \in 0..Len(q), h[0] = l,
         \A n \in 1..k : h[n] = After(h[n - 1], q[n])
  PROVE  \A n \in 0..k : Path(l, q)[n] = h[n]
<1>. DEFINE Good == {n \in Nat : n <= k => Path(l, q)[n] = h[n]}
<1>1. 0 \in Good
  BY PathIs
<1>2. ASSUME NEW n \in Nat, n \in Good PROVE n + 1 \in Good
  <2>1. SUFFICES ASSUME n + 1 <= k PROVE Path(l, q)[n + 1] = h[n + 1]
    OBVIOUS
  <2>2. n + 1 \in 1..k /\ n + 1 \in 1..Len(q) /\ (n + 1) - 1 = n /\ Path(l, q)[n] = h[n]
    BY <2>1, <1>2
  <2> QED BY <2>2, PathIs
<1>3. \A n \in Nat : n \in Good
  <2>. HIDE DEF Good
  <2> QED BY <1>1, <1>2, SetInduction
<1> QED BY <1>3

LEMMA FollowsNothing ==
  ASSUME NEW l, NEW m
  PROVE  Follows(l, <<>>, m) <=> m = l /\ l.pc # "dead"
<1>1. Len(<<>>) = 0 /\ Path(l, <<>>)[0] = l
  BY PathIs
<1> QED BY <1>1 DEF Follows

\* One frame more at the end of a link.
LEMMA FollowsMore ==
  ASSUME NEW l, NEW q, Line(q), NEW m, NEW f, Follows(l, q, m), After(m, f).pc # "dead"
  PROVE  Follows(l, Append(q, f), After(m, f))
<1>. DEFINE c == Append(q, f)
            n == Len(q)
<1>1. n \in Nat /\ Len(c) = n + 1 /\ c[n + 1] = f /\ \A i \in 1..n : c[i] = q[i]
  <2>. DEFINE T == ToSet(q) \cup {f}
  <2>1. q \in Seq(T) /\ f \in T
    BY SeqMonotonic DEF Line
  <2>. HIDE DEF T
  <2> QED BY <2>1
<1>2. /\ Path(l, q)[0] = l /\ Path(l, q)[n] = m
      /\ \A i \in 1..n : Path(l, q)[i] = After(Path(l, q)[i - 1], q[i])
      /\ \A i \in 0..n : Path(l, q)[i].pc # "dead"
  BY <1>1, PathIs DEF Follows
<1>. HIDE DEF c, n
<1>3. \A i \in 1..n : Path(l, q)[i] = After(Path(l, q)[i - 1], c[i])
  BY <1>1, <1>2
<1>4. \A i \in 0..n : Path(l, c)[i] = Path(l, q)[i]
  <2>1. PICK h : h = Path(l, q)
    OBVIOUS
  <2>2. h[0] = l /\ \A i \in 1..n : h[i] = After(h[i - 1], c[i])
    BY <1>2, <1>3, <2>1
  <2>3. Len(c) \in Nat /\ n \in 0..Len(c)
    BY <1>1
  <2>4. \A i \in 0..n : Path(l, c)[i] = h[i]
    BY ONLY <2>2, <2>3, PathOnly
  <2> QED BY <2>1, <2>4
<1>5. Path(l, c)[n + 1] = After(m, f)
  <2>1. n + 1 \in 1..Len(c) /\ (n + 1) - 1 = n
    BY <1>1
  <2> QED BY <2>1, <1>1, <1>2, <1>4, PathIs
<1>6. \A i \in 0..Len(c) : Path(l, c)[i].pc # "dead"
  <2>1. \A i \in 0..Len(c) : i \in 0..n \/ i = n + 1
    BY <1>1
  <2> QED BY <2>1, <1>2, <1>4, <1>5
<1>7. Path(l, c)[Len(c)] = After(m, f)
  BY <1>1, <1>5
<1>8. Follows(l, c, After(m, f))
  BY <1>6, <1>7 DEF Follows
<1> QED BY <1>8 DEF c

\* One frame less at its head.
LEMMA FollowsLess ==
  ASSUME NEW l, NEW q, Line(q), q # <<>>, NEW m, Follows(l, q, m)
  PROVE  /\ l.pc # "dead" /\ After(l, Head(q)).pc # "dead"
         /\ Follows(After(l, Head(q)), Tail(q), m)
<1>. DEFINE c == Tail(q)
            n == Len(q)
            k == After(l, Head(q))
            h == [i \in 0..Len(c) |-> Path(l, q)[i + 1]]
<1>1. /\ n \in Nat /\ n >= 1 /\ Len(c) = n - 1 /\ Head(q) = q[1]
      /\ \A i \in 1..Len(c) : c[i] = q[i + 1]
  BY HeadTailProperties DEF Line
<1>2. /\ Path(l, q)[0] = l /\ Path(l, q)[n] = m
      /\ \A i \in 1..n : Path(l, q)[i] = After(Path(l, q)[i - 1], q[i])
      /\ \A i \in 0..n : Path(l, q)[i].pc # "dead"
  BY <1>1, PathIs DEF Follows
<1>3. Path(l, q)[1] = k
  <2>1. 1 \in 1..n /\ 1 - 1 = 0
    BY <1>1
  <2> QED BY <2>1, <1>1, <1>2
<1>. HIDE DEF c, n, k
<1>4. h[0] = k
  BY <1>1, <1>3
<1>5. \A i \in 1..Len(c) : h[i] = After(h[i - 1], c[i])
  <2>1. SUFFICES ASSUME NEW i \in 1..Len(c) PROVE h[i] = After(h[i - 1], c[i])
    OBVIOUS
  <2>2. i + 1 \in 1..n /\ (i + 1) - 1 = i /\ i - 1 \in 0..Len(c) /\ (i - 1) + 1 = i /\ i \in 0..Len(c)
    BY <1>1
  <2> QED BY <2>2, <1>1, <1>2
<1>6. \A i \in 0..Len(c) : Path(k, c)[i] = h[i]
  <2>. HIDE DEF h
  <2>1. Len(c) \in Nat
    BY <1>1
  <2> QED BY <2>1, <1>4, <1>5, PathOnly
<1>7. Path(k, c)[Len(c)] = m
  <2>1. Len(c) \in 0..Len(c) /\ Len(c) + 1 = n
    BY <1>1
  <2> QED BY <2>1, <1>2, <1>6
<1>8. \A i \in 0..Len(c) : Path(k, c)[i].pc # "dead"
  <2>1. \A i \in 0..Len(c) : i + 1 \in 0..n
    BY <1>1
  <2> QED BY <2>1, <1>2, <1>6
<1>9. Follows(k, c, m)
  BY <1>7, <1>8 DEF Follows
<1>10. l.pc # "dead" /\ k.pc # "dead"
  BY <1>1, <1>2, <1>3
<1> QED BY <1>9, <1>10 DEF c, k

-----------------------------------------------------------------------------
(* Sequences. *)

LEMMA EmptyFacts ==
  /\ <<>> \in Seq(Requests) /\ ToSet(<<>>) = {} /\ IsInjective(<<>>) /\ Line(<<>>)
  BY DEF ToSet, IsInjective, Line

LEMMA ConcatFacts ==
  ASSUME NEW a \in Seq(Requests), NEW b \in Seq(Requests)
  PROVE  /\ a \o b \in Seq(Requests) /\ ToSet(a \o b) = ToSet(a) \cup ToSet(b)
         /\ IsInjective(a \o b) <=> IsInjective(a) /\ IsInjective(b) /\ ToSet(a) \cap ToSet(b) = {}
<1>. DEFINE c == a \o b
<1>1. /\ c \in Seq(Requests) /\ Len(a) \in Nat /\ Len(b) \in Nat /\ Len(c) = Len(a) + Len(b)
      /\ DOMAIN a = 1..Len(a) /\ DOMAIN b = 1..Len(b) /\ DOMAIN c = 1..Len(c)
      /\ \A i \in 1..Len(a) : i \in 1..Len(c) /\ c[i] = a[i]
      /\ \A i \in 1..Len(b) : Len(a) + i \in 1..Len(c) /\ c[Len(a) + i] = b[i]
  BY ConcatProperties, LenProperties
<1>2. \A i \in 1..Len(c) : i \in 1..Len(a) \/ \E j \in 1..Len(b) : i = Len(a) + j
  <2>1. SUFFICES ASSUME NEW i \in 1..Len(c), i \notin 1..Len(a) PROVE \E j \in 1..Len(b) : i = Len(a) + j
    OBVIOUS
  <2>2. i - Len(a) \in 1..Len(b) /\ i = Len(a) + (i - Len(a))
    BY <1>1, <2>1
  <2> QED BY <2>2
<1>. HIDE DEF c
<1>3. ToSet(c) = ToSet(a) \cup ToSet(b)
  <2>1. ASSUME NEW r \in ToSet(c) PROVE r \in ToSet(a) \cup ToSet(b)
    <3>1. PICK i \in 1..Len(c) : c[i] = r
      BY <1>1 DEF ToSet
    <3>2. CASE i \in 1..Len(a)
      BY <3>1, <3>2, <1>1 DEF ToSet
    <3>3. CASE \E j \in 1..Len(b) : i = Len(a) + j
      BY <3>1, <3>3, <1>1 DEF ToSet
    <3> QED BY <3>2, <3>3, <1>2
  <2>2. \A r \in ToSet(a) \cup ToSet(b) : r \in ToSet(c)
    BY <1>1 DEF ToSet
  <2> QED BY <2>1, <2>2
<1>4. ASSUME IsInjective(c) PROVE IsInjective(a) /\ IsInjective(b) /\ ToSet(a) \cap ToSet(b) = {}
  <2>1. IsInjective(a)
    BY <1>1, <1>4 DEF IsInjective
  <2>2. IsInjective(b)
    <3>1. SUFFICES ASSUME NEW i \in 1..Len(b), NEW j \in 1..Len(b), b[i] = b[j] PROVE i = j
      BY <1>1 DEF IsInjective
    <3>2. Len(a) + i = Len(a) + j
      BY <1>1, <1>4, <3>1 DEF IsInjective
    <3> QED BY <3>2, <1>1
  <2>3. ASSUME NEW i \in 1..Len(a), NEW j \in 1..Len(b) PROVE a[i] # b[j]
    <3>1. i # Len(a) + j
      BY <1>1
    <3> QED BY <1>1, <1>4, <3>1 DEF IsInjective
  <2> QED BY <2>1, <2>2, <2>3, <1>1 DEF ToSet
<1>5. ASSUME IsInjective(a), IsInjective(b), ToSet(a) \cap ToSet(b) = {} PROVE IsInjective(c)
  <2>1. \A i \in 1..Len(a), j \in 1..Len(b) : a[i] # b[j]
    BY <1>5, <1>1 DEF ToSet
  <2>2. SUFFICES ASSUME NEW i \in 1..Len(c), NEW j \in 1..Len(c), c[i] = c[j] PROVE i = j
    BY <1>1 DEF IsInjective
  <2>3. CASE i \in 1..Len(a) /\ j \in 1..Len(a)
    BY <2>2, <2>3, <1>1, <1>5 DEF IsInjective
  <2>4. CASE i \in 1..Len(a) /\ j \notin 1..Len(a)
    BY <2>1, <2>2, <2>4, <1>1, <1>2
  <2>5. CASE i \notin 1..Len(a) /\ j \in 1..Len(a)
    BY <2>1, <2>2, <2>5, <1>1, <1>2
  <2>6. CASE i \notin 1..Len(a) /\ j \notin 1..Len(a)
    <3>1. PICK k \in 1..Len(b) : i = Len(a) + k
      BY <2>6, <1>2
    <3>2. PICK m \in 1..Len(b) : j = Len(a) + m
      BY <2>6, <1>2
    <3>3. b[k] = b[m]
      BY <3>1, <3>2, <2>2, <1>1
    <3> QED BY <3>1, <3>2, <3>3, <1>1, <1>5 DEF IsInjective
  <2> QED BY <2>3, <2>4, <2>5, <2>6
<1> QED BY <1>1, <1>3, <1>4, <1>5 DEF c

LEMMA PrefixFacts ==
  ASSUME NEW q \in Seq(Requests), NEW n \in 0..Len(q)
  PROVE  /\ SubSeq(q, 1, n) \in Seq(Requests) /\ ToSet(SubSeq(q, 1, n)) \subseteq ToSet(q)
         /\ IsInjective(q) => IsInjective(SubSeq(q, 1, n))
<1>. DEFINE p == SubSeq(q, 1, n)
<1>1. /\ Len(q) \in Nat /\ n \in Nat /\ DOMAIN q = 1..Len(q) /\ p \in Seq(Requests)
      /\ DOMAIN p = 1..n /\ \A i \in 1..n : i \in 1..Len(q) /\ p[i] = q[i]
  <2>1. Len(q) \in Nat /\ DOMAIN q = 1..Len(q) /\ n \in Nat /\ \A i \in 1..n : i \in 1..Len(q) /\ q[i] \in Requests
    BY LenProperties, ElementOfSeq
  <2>2. p \in Seq(Requests) /\ Len(p) = n /\ \A i \in 1..n : p[i] = q[i]
    BY <2>1, SubSeqProperties
  <2> QED BY <2>1, <2>2, LenProperties
<1>. HIDE DEF p
<1>2. ToSet(p) \subseteq ToSet(q) /\ (IsInjective(q) => IsInjective(p))
  BY <1>1 DEF ToSet, IsInjective
<1> QED BY <1>1, <1>2 DEF p

LEMMA SeqIsLine ==
  ASSUME NEW S, NEW q \in Seq(S) PROVE Line(q)
<1>1. Len(q) \in Nat /\ DOMAIN q = 1..Len(q) /\ q = [i \in 1..Len(q) |-> q[i]]
  OBVIOUS
<1>2. \A i \in 1..Len(q) : q[i] \in ToSet(q)
  BY <1>1 DEF ToSet
<1> QED BY <1>1, <1>2 DEF Line

\* A line, one longer.
LEMMA LineMore ==
  ASSUME NEW q, Line(q), NEW f
  PROVE  /\ Line(Append(q, f)) /\ Len(q) \in Nat /\ Len(Append(q, f)) = Len(q) + 1
         /\ DOMAIN q = 1..Len(q) /\ DOMAIN Append(q, f) = 1..(Len(q) + 1)
         /\ Append(q, f)[Len(q) + 1] = f /\ \A i \in 1..Len(q) : Append(q, f)[i] = q[i]
         /\ ToSet(Append(q, f)) = ToSet(q) \cup {f} /\ Append(q, f) # <<>>
<1>. DEFINE c == Append(q, f)
            T == ToSet(q) \cup {f}
<1>1. q \in Seq(T) /\ f \in T
  BY SeqMonotonic DEF Line
<1>2. /\ Len(q) \in Nat /\ Len(c) = Len(q) + 1 /\ DOMAIN q = 1..Len(q) /\ DOMAIN c = 1..(Len(q) + 1)
      /\ c[Len(q) + 1] = f /\ \A i \in 1..Len(q) : i \in 1..(Len(q) + 1) /\ c[i] = q[i]
  <2>. HIDE DEF T
  <2> QED BY <1>1, AppendProperties, LenProperties
<1>3. c \in Seq(T) /\ c # <<>>
  <2>. HIDE DEF T
  <2> QED BY <1>1, AppendProperties
<1>. HIDE DEF c
<1>4. ToSet(c) = T
  <2>1. \A x \in ToSet(c) : x \in T
    BY <1>2 DEF ToSet
  <2>2. \A x \in ToSet(q) : x \in ToSet(c)
    BY <1>2 DEF ToSet
  <2>3. f \in ToSet(c)
    <3>1. Len(q) + 1 \in 1..(Len(q) + 1)
      BY <1>2
    <3> QED BY <3>1, <1>2 DEF ToSet
  <2> QED BY <2>1, <2>2, <2>3
<1> QED BY <1>2, <1>3, <1>4 DEF c, Line

\* A line without its head.
LEMMA LineLess ==
  ASSUME NEW q, Line(q), q # <<>>
  PROVE  /\ Line(Tail(q)) /\ Len(q) \in Nat \ {0} /\ Len(Tail(q)) = Len(q) - 1
         /\ DOMAIN q = 1..Len(q) /\ DOMAIN Tail(q) = 1..(Len(q) - 1)
         /\ Head(q) = q[1] /\ \A i \in 1..(Len(q) - 1) : i + 1 \in 1..Len(q) /\ Tail(q)[i] = q[i + 1]
         /\ ToSet(Tail(q)) \subseteq ToSet(q) /\ Head(q) \in ToSet(q)
<1>. DEFINE c == Tail(q)
<1>1. /\ Len(q) \in Nat \ {0} /\ DOMAIN q = 1..Len(q) /\ c \in Seq(ToSet(q)) /\ Len(c) = Len(q) - 1
      /\ DOMAIN c = 1..(Len(q) - 1) /\ Head(q) = q[1]
      /\ \A i \in 1..(Len(q) - 1) : i + 1 \in 1..Len(q) /\ c[i] = q[i + 1]
  BY HeadTailProperties, LenProperties, EmptySeq DEF Line
<1>. HIDE DEF c
<1>2. ToSet(c) \subseteq ToSet(q) /\ Head(q) \in ToSet(q)
  BY <1>1 DEF ToSet
<1>3. Line(c)
  BY <1>1, SeqIsLine
<1> QED BY <1>1, <1>2, <1>3 DEF c

LEMMA LineFacts ==
  ASSUME NEW q, Line(q)
  PROVE  Len(q) \in Nat /\ DOMAIN q = 1..Len(q) /\ (q = <<>> <=> Len(q) = 0)
  BY LenProperties, EmptySeq DEF Line

-----------------------------------------------------------------------------
(* The engine. *)

LEMMA ScheduleFacts ==
  ASSUME NEW e, EngineOK(e), NEW own
  PROVE  /\ Schedule(e, own) \in Seq(Requests) /\ IsInjective(Schedule(e, own))
         /\ ToSet(Schedule(e, own)) \subseteq Inside(e) \cap own
         /\ ToSet(e.running) \cap own \subseteq ToSet(Schedule(e, own))
<1>. DEFINE old  == Keep(e.running, own)
            kept == Keep(e.waiting, own)
            n    == IF Len(kept) < Room(Len(old)) THEN Len(kept) ELSE Room(Len(old))
<1>1. /\ e.running \in Seq(Requests) /\ e.waiting \in Seq(Requests)
      /\ IsInjective(e.running) /\ IsInjective(e.waiting) /\ ToSet(e.running) \cap ToSet(e.waiting) = {}
  BY ConcatFacts DEF EngineOK
<1>2. /\ old \in Seq(Requests) /\ ToSet(old) = ToSet(e.running) \cap own /\ IsInjective(old)
      /\ kept \in Seq(Requests) /\ ToSet(kept) = ToSet(e.waiting) \cap own /\ IsInjective(kept)
  BY <1>1, KeepFacts
<1>3. n \in 0..Len(kept)
  <2>1. Len(kept) \in Nat /\ Len(old) \in Nat /\ Cap \in Nat
    BY <1>2, SpliceAssumption
  <2>2. Room(Len(old)) \in Nat
    BY <2>1 DEF Room
  <2> QED BY <2>1, <2>2
<1>4. Schedule(e, own) = old \o SubSeq(kept, 1, n)
  BY DEF Schedule
<1>. HIDE DEF old, kept, n
<1>5. /\ SubSeq(kept, 1, n) \in Seq(Requests) /\ IsInjective(SubSeq(kept, 1, n))
      /\ ToSet(SubSeq(kept, 1, n)) \subseteq ToSet(kept)
  BY <1>2, <1>3, PrefixFacts
<1>6. ToSet(old) \cap ToSet(SubSeq(kept, 1, n)) = {}
  BY <1>1, <1>2, <1>5
<1>7. /\ Schedule(e, own) \in Seq(Requests) /\ IsInjective(Schedule(e, own))
      /\ ToSet(Schedule(e, own)) = ToSet(old) \cup ToSet(SubSeq(kept, 1, n))
  <2>. DEFINE p == SubSeq(kept, 1, n)
  <2>1. p \in Seq(Requests) /\ IsInjective(p) /\ ToSet(old) \cap ToSet(p) = {} /\ Schedule(e, own) = old \o p
    BY <1>4, <1>5, <1>6
  <2>. HIDE DEF p
  <2>2. old \o p \in Seq(Requests) /\ IsInjective(old \o p) /\ ToSet(old \o p) = ToSet(old) \cup ToSet(p)
    BY <1>2, <2>1, ConcatFacts
  <2> QED BY <2>1, <2>2 DEF p
<1> QED BY <1>2, <1>5, <1>7 DEF Inside

LEMMA AfterStepFacts ==
  ASSUME NEW e, EngineOK(e), NEW own
  PROVE  LET sched == Schedule(e, own)
             after == AfterStep(e, own, sched)
         IN  /\ EngineOK(after) /\ Inside(after) = Inside(e) /\ after.booked = e.booked
             /\ ToSet(sched) \subseteq ToSet(after.running)
<1>. DEFINE sched == Schedule(e, own)
            other == Requests \ own
            after == AfterStep(e, own, sched)
            or == Keep(e.running, other)
            ow == Keep(e.waiting, other)
            kw == Keep(e.waiting, own)
            wo == Without(kw, sched)
<1>1. /\ e.running \in Seq(Requests) /\ e.waiting \in Seq(Requests)
      /\ IsInjective(e.running) /\ IsInjective(e.waiting) /\ ToSet(e.running) \cap ToSet(e.waiting) = {}
  BY ConcatFacts DEF EngineOK
<1>2. ToSet(e.running) \subseteq Requests /\ ToSet(e.waiting) \subseteq Requests
  BY <1>1 DEF ToSet
<1>3. /\ or \in Seq(Requests) /\ ToSet(or) = ToSet(e.running) \cap other /\ IsInjective(or)
      /\ ow \in Seq(Requests) /\ ToSet(ow) = ToSet(e.waiting) \cap other /\ IsInjective(ow)
      /\ kw \in Seq(Requests) /\ ToSet(kw) = ToSet(e.waiting) \cap own /\ IsInjective(kw)
  BY <1>1, KeepFacts
<1>4. wo \in Seq(Requests) /\ ToSet(wo) = ToSet(kw) \cap (Requests \ ToSet(sched)) /\ IsInjective(wo)
  BY <1>3, KeepFacts DEF Without
<1>5. /\ sched \in Seq(Requests) /\ IsInjective(sched) /\ ToSet(sched) \subseteq Inside(e) \cap own
      /\ ToSet(e.running) \cap own \subseteq ToSet(sched)
  BY ScheduleFacts
<1>6. after = [running |-> sched \o or, waiting |-> wo \o ow, booked |-> e.booked]
  BY DEF AfterStep
<1>. HIDE DEF sched, other, or, ow, kw, wo, after
<1>7. ToSet(sched) \cap ToSet(or) = {} /\ ToSet(wo) \cap ToSet(ow) = {}
  BY <1>3, <1>4, <1>5 DEF other
<1>8. /\ sched \o or \in Seq(Requests) /\ IsInjective(sched \o or) /\ ToSet(sched \o or) = ToSet(sched) \cup ToSet(or)
      /\ wo \o ow \in Seq(Requests) /\ IsInjective(wo \o ow) /\ ToSet(wo \o ow) = ToSet(wo) \cup ToSet(ow)
  BY <1>3, <1>4, <1>5, <1>7, ConcatFacts
<1>9. ToSet(sched \o or) \cap ToSet(wo \o ow) = {}
  BY <1>1, <1>3, <1>4, <1>5, <1>8 DEF other
<1>10. /\ after.running = sched \o or /\ after.waiting = wo \o ow /\ after.booked = e.booked
       /\ after = [running |-> after.running, waiting |-> after.waiting, booked |-> after.booked]
  BY <1>6
<1>11. IsInjective(after.running \o after.waiting)
  BY <1>8, <1>9, <1>10, ConcatFacts
<1>12. Inside(after) = Inside(e)
  <2>1. \A r \in Inside(after) : r \in Inside(e)
    BY <1>3, <1>4, <1>5, <1>8, <1>10 DEF Inside
  <2>2. \A r \in Inside(e) : r \in Inside(after)
    BY <1>2, <1>3, <1>4, <1>5, <1>8, <1>10 DEF Inside, other
  <2> QED BY <2>1, <2>2
<1>13. EngineOK(after)
  BY <1>8, <1>10, <1>11, <1>12 DEF EngineOK
<1> QED BY <1>8, <1>10, <1>12, <1>13 DEF after, sched

LEMMA AppliedFacts ==
  ASSUME NEW e, EngineOK(e), NEW f, f.admits \in Seq(Requests), IsInjective(f.admits),
         \A r \in ToSet(f.admits) : r \notin Inside(e) /\ e.booked[r] = 0
  PROVE  /\ EngineOK(Applied(e, f)) /\ Applied(e, f).booked = e.booked
         /\ Inside(Applied(e, f)) = (Inside(e) \ ToSet(f.aborts)) \cup ToSet(f.admits)
<1>. DEFINE a == Applied(e, f)
            r0 == Without(e.running, f.aborts)
            w0 == Without(e.waiting, f.aborts)
<1>1. /\ e.running \in Seq(Requests) /\ e.waiting \in Seq(Requests)
      /\ IsInjective(e.running) /\ IsInjective(e.waiting) /\ ToSet(e.running) \cap ToSet(e.waiting) = {}
  BY ConcatFacts DEF EngineOK
<1>2. ToSet(e.running) \subseteq Requests /\ ToSet(e.waiting) \subseteq Requests /\ ToSet(f.admits) \subseteq Requests
  BY <1>1 DEF ToSet
<1>3. /\ r0 \in Seq(Requests) /\ ToSet(r0) = ToSet(e.running) \cap (Requests \ ToSet(f.aborts)) /\ IsInjective(r0)
      /\ w0 \in Seq(Requests) /\ ToSet(w0) = ToSet(e.waiting) \cap (Requests \ ToSet(f.aborts)) /\ IsInjective(w0)
  BY <1>1, KeepFacts DEF Without
<1>4. a = [running |-> r0, waiting |-> w0 \o f.admits, booked |-> e.booked]
  BY DEF Applied
<1>. HIDE DEF r0, w0, a
<1>5. ToSet(w0) \cap ToSet(f.admits) = {} /\ ToSet(r0) \cap ToSet(f.admits) = {}
  BY <1>3 DEF Inside
<1>6. w0 \o f.admits \in Seq(Requests) /\ IsInjective(w0 \o f.admits) /\ ToSet(w0 \o f.admits) = ToSet(w0) \cup ToSet(f.admits)
  BY <1>3, <1>5, ConcatFacts
<1>7. /\ a.running = r0 /\ a.waiting = w0 \o f.admits /\ a.booked = e.booked
      /\ a = [running |-> a.running, waiting |-> a.waiting, booked |-> a.booked]
  BY <1>4
<1>8. IsInjective(a.running \o a.waiting)
  <2>1. ToSet(r0) \cap ToSet(w0 \o f.admits) = {}
    BY <1>1, <1>3, <1>5, <1>6
  <2> QED BY <1>3, <1>6, <1>7, <2>1, ConcatFacts
<1>9. Inside(a) = (Inside(e) \ ToSet(f.aborts)) \cup ToSet(f.admits)
  BY <1>2, <1>3, <1>6, <1>7 DEF Inside
<1>10. \A r \in Inside(a) : a.booked[r] < MaxTokens[r]
  <2>1. ASSUME NEW r \in ToSet(f.admits) PROVE e.booked[r] < MaxTokens[r]
    <3>1. e.booked[r] = 0 /\ MaxTokens[r] \in Nat \ {0}
      BY <1>2, SpliceAssumption
    <3> QED BY <3>1
  <2> QED BY <1>7, <1>9, <2>1 DEF EngineOK
<1>11. EngineOK(a)
  BY <1>3, <1>6, <1>7, <1>8, <1>10 DEF EngineOK
<1> QED BY <1>7, <1>9, <1>11 DEF a

LEMMA BookFacts ==
  ASSUME NEW e, EngineOK(e), NEW sched, NEW ended, ToSet(sched) \subseteq ToSet(e.running)
  PROVE  /\ EngineOK(Book(e, sched, ended)) /\ Inside(Book(e, sched, ended)) \subseteq Inside(e)
         /\ \A r \in Requests : Book(e, sched, ended).booked[r] = IF r \in ToSet(sched) THEN e.booked[r] + 1 ELSE e.booked[r]
<1>. DEFINE b == Book(e, sched, ended)
            S == {r \in Requests : ~(r \in ToSet(sched) /\ Ends(e, r, ended))}
            k == Keep(e.running, S)
            n == [r \in Requests |-> IF r \in ToSet(sched) THEN e.booked[r] + 1 ELSE e.booked[r]]
<1>1. /\ e.running \in Seq(Requests) /\ e.waiting \in Seq(Requests)
      /\ IsInjective(e.running) /\ IsInjective(e.waiting) /\ ToSet(e.running) \cap ToSet(e.waiting) = {}
  BY ConcatFacts DEF EngineOK
<1>2. ToSet(e.running) \subseteq Requests /\ ToSet(e.waiting) \subseteq Requests
  BY <1>1 DEF ToSet
<1>3. k \in Seq(Requests) /\ ToSet(k) = ToSet(e.running) \cap S /\ IsInjective(k)
  BY <1>1, KeepFacts
<1>4. b = [running |-> k, waiting |-> e.waiting, booked |-> n]
  BY DEF Book
<1>. HIDE DEF k, b, n
<1>5. /\ b.running = k /\ b.waiting = e.waiting /\ b.booked = n
      /\ b = [running |-> b.running, waiting |-> b.waiting, booked |-> b.booked]
  BY <1>4
<1>6. IsInjective(b.running \o b.waiting)
  BY <1>1, <1>3, <1>5, ConcatFacts
<1>7. Inside(b) \subseteq Inside(e)
  BY <1>3, <1>5 DEF Inside
<1>8. \A r \in Requests : e.booked[r] \in Nat /\ MaxTokens[r] \in Nat /\ e.booked[r] <= MaxTokens[r]
  BY SpliceAssumption DEF EngineOK
<1>9. \A r \in Inside(e) : r \in Requests /\ e.booked[r] < MaxTokens[r]
  BY <1>2 DEF EngineOK, Inside
<1>10. n \in [Requests -> Nat] /\ \A r \in Requests : n[r] <= MaxTokens[r]
  <2>1. ASSUME NEW r \in Requests PROVE n[r] \in Nat /\ n[r] <= MaxTokens[r]
    <3>1. CASE r \in ToSet(sched)
      <4>1. r \in Inside(e)
        BY <3>1 DEF Inside
      <4> QED BY <3>1, <4>1, <1>8, <1>9 DEF n
    <3>2. CASE r \notin ToSet(sched)
      BY <3>2, <1>8 DEF n
    <3> QED BY <3>1, <3>2
  <2> QED BY <2>1 DEF n
<1>11. ASSUME NEW r \in Inside(b) PROVE n[r] < MaxTokens[r]
  <2>1. r \in Inside(e) /\ r \in Requests /\ e.booked[r] < MaxTokens[r] /\ e.booked[r] \in Nat /\ MaxTokens[r] \in Nat
    BY <1>7, <1>8, <1>9
  <2>2. CASE r \notin ToSet(sched)
    BY <2>1, <2>2 DEF n
  <2>3. CASE r \in ToSet(sched)
    <3>1. r \in ToSet(k)
      BY <2>3, <1>1, <1>5 DEF Inside
    <3>2. e.booked[r] + 1 # MaxTokens[r]
      BY <3>1, <2>3, <1>3 DEF Ends
    <3> QED BY <2>1, <2>3, <3>2 DEF n
  <2> QED BY <2>2, <2>3
<1>12. EngineOK(b)
  BY <1>1, <1>3, <1>5, <1>6, <1>10, <1>11 DEF EngineOK
<1> QED BY <1>5, <1>7, <1>12 DEF b, n

LEMMA BookNothing ==
  ASSUME NEW e, EngineOK(e), NEW ended
  PROVE  Book(e, <<>>, ended) = e
<1>1. ToSet(<<>>) = {}
  BY EmptyFacts
<1>2. Keep(e.running, {r \in Requests : ~(r \in ToSet(<<>>) /\ Ends(e, r, ended))}) = e.running
  <2>1. e.running \in Seq(Requests)
    BY DEF EngineOK
  <2>2. ToSet(e.running) \subseteq {r \in Requests : ~(r \in ToSet(<<>>) /\ Ends(e, r, ended))}
    BY <1>1, <2>1 DEF ToSet
  <2> QED BY <2>1, <2>2, KeepAll
<1>3. [r \in Requests |-> IF r \in ToSet(<<>>) THEN e.booked[r] + 1 ELSE e.booked[r]] = e.booked
  BY <1>1 DEF EngineOK
<1>4. Book(e, <<>>, ended) = [running |-> e.running, waiting |-> e.waiting, booked |-> e.booked]
  BY <1>2, <1>3 DEF Book
<1> QED BY <1>4 DEF EngineOK

-----------------------------------------------------------------------------
(* What a frame does to what a stage shows. *)

LEMMA ViewFields ==
  ASSUME NEW at, NEW e, NEW of, NEW q, NEW n
  PROVE  /\ View(at, e, of, q, n).pc = at /\ View(at, e, of, q, n).eng = e
         /\ View(at, e, of, q, n).rows = q /\ View(at, e, of, q, n).weights = n
         /\ \A r \in Requests : r \in Inside(e) => View(at, e, of, q, n).of[r] = of[r]
  BY DEF View

LEMMA ViewSame ==
  ASSUME NEW at, NEW e, NEW of, NEW og, NEW q, NEW n, \A r \in Requests : r \in Inside(e) => of[r] = og[r]
  PROVE  View(at, e, of, q, n) = View(at, e, og, q, n)
<1>1. [r \in Requests |-> IF r \in Inside(e) THEN of[r] ELSE NoWave]
    = [r \in Requests |-> IF r \in Inside(e) THEN og[r] ELSE NoWave]
  OBVIOUS
<1> QED BY <1>1 DEF View

\* A view of a view, of an engine with no more in it.
LEMMA ViewAgain ==
  ASSUME NEW at, NEW e, NEW of, NEW q, NEW n, NEW au, NEW d, NEW p, NEW m, Inside(d) \subseteq Inside(e)
  PROVE  View(au, d, View(at, e, of, q, n).of, p, m) = View(au, d, of, p, m)
<1>1. \A r \in Requests : r \in Inside(d) => View(at, e, of, q, n).of[r] = of[r]
  BY ViewFields
<1> QED BY <1>1, ViewSame

LEMMA ScheduleSame ==
  ASSUME NEW e, EngineOK(e), NEW S, NEW T, \A r \in Inside(e) : r \in S <=> r \in T
  PROVE  Schedule(e, S) = Schedule(e, T) /\ \A sched : AfterStep(e, S, sched) = AfterStep(e, T, sched)
<1>1. /\ e.running \in Seq(Requests) /\ e.waiting \in Seq(Requests)
      /\ ToSet(e.running) \subseteq Inside(e) /\ ToSet(e.waiting) \subseteq Inside(e)
  BY DEF EngineOK, Inside
<1>2. Keep(e.running, S) = Keep(e.running, T) /\ Keep(e.waiting, S) = Keep(e.waiting, T)
  BY <1>1, KeepSame
<1>3. \A r \in Inside(e) : r \in Requests \ S <=> r \in Requests \ T
  OBVIOUS
<1>4. /\ Keep(e.running, Requests \ S) = Keep(e.running, Requests \ T)
      /\ Keep(e.waiting, Requests \ S) = Keep(e.waiting, Requests \ T)
  BY <1>1, <1>3, KeepSame
<1> QED BY <1>2, <1>4 DEF Schedule, AfterStep

\* A control frame, to a stage whose engine knows none of those it admits.
LEMMA AfterOfCtl ==
  ASSUME NEW e, EngineOK(e), NEW of, NEW q, NEW n, NEW f, f.tag = "ctl",
         f.admits \in Seq(Requests), IsInjective(f.admits),
         \A r \in ToSet(f.admits) : r \notin Inside(e) /\ e.booked[r] = 0
  PROVE  LET og == Mapped(of, f)
             d  == Applied(e, f)
             own == Mine(og, f.wave)
             sched == Schedule(d, own)
             m == IF f.reload THEN n + 1 ELSE n
         IN  After(View("ctl", e, of, q, n), f) =
               IF f.step THEN View(IF sched = <<>> THEN "ctl" ELSE "hr", AfterStep(d, own, sched), og, sched, m)
               ELSE View("ctl", d, og, q, m)
<1>. DEFINE l == View("ctl", e, of, q, n)
            og == Mapped(of, f)
            oh == Mapped(l.of, f)
            d  == Applied(e, f)
            own == Mine(og, f.wave)
            oxn == Mine(oh, f.wave)
            sched == Schedule(d, own)
            m == IF f.reload THEN n + 1 ELSE n
<1>1. l.pc = "ctl" /\ l.eng = e /\ l.rows = q /\ l.weights = n /\ \A r \in Requests : r \in Inside(e) => l.of[r] = of[r]
  BY ViewFields
<1>2. EngineOK(d) /\ Inside(d) = (Inside(e) \ ToSet(f.aborts)) \cup ToSet(f.admits)
  BY AppliedFacts
<1>. HIDE DEF l, d
<1>3. \A r \in Requests : r \in Inside(d) => oh[r] = og[r]
  BY <1>1, <1>2 DEF Mapped
<1>4. Inside(d) \subseteq Requests
  BY <1>2 DEF EngineOK, Inside, ToSet
<1>. HIDE DEF og, oh
<1>5. \A r \in Inside(d) : r \in oxn <=> r \in own
  BY <1>3, <1>4 DEF Mine
<1>. HIDE DEF own, oxn
<1>6. Schedule(d, oxn) = sched /\ AfterStep(d, oxn, sched) = AfterStep(d, own, sched)
  BY <1>2, <1>5, ScheduleSame
<1>7. Inside(AfterStep(d, own, sched)) = Inside(d)
  BY <1>2, AfterStepFacts
<1>. HIDE DEF sched
<1>8. \A at : View(at, AfterStep(d, own, sched), oh, sched, m) = View(at, AfterStep(d, own, sched), og, sched, m)
  BY <1>3, <1>7, ViewSame
<1>9. View("ctl", d, oh, q, m) = View("ctl", d, og, q, m)
  BY <1>3, ViewSame
<1>10. AfterCtl(l, f) = IF f.step THEN View(IF sched = <<>> THEN "ctl" ELSE "hr", AfterStep(d, oxn, sched), oh, sched, m)
                        ELSE View("ctl", d, oh, q, m)
  BY <1>1, <1>6 DEF AfterCtl, oh, oxn, d
<1>11. After(l, f) = AfterCtl(l, f)
  BY <1>1 DEF After
<1>12. After(l, f) = IF f.step THEN View(IF sched = <<>> THEN "ctl" ELSE "hr", AfterStep(d, own, sched), og, sched, m)
                     ELSE View("ctl", d, og, q, m)
  BY <1>6, <1>8, <1>9, <1>10, <1>11
<1> QED BY <1>12 DEF l, d, og, own, sched

\* The hidden states of the step under way.
LEMMA AfterOfHr ==
  ASSUME NEW e, EngineOK(e), NEW of, NEW q, ToSet(q) \subseteq ToSet(e.running), NEW n,
         NEW f, f.tag = "hr", f.rows = q, f.weights = n
  PROVE  After(View("hr", e, of, q, n), f) =
           IF f.wave = NoWave THEN View("tok", e, of, q, n) ELSE View("ctl", Book(e, q, {}), of, q, n)
<1>. DEFINE l == View("hr", e, of, q, n)
<1>1. l.pc = "hr" /\ l.eng = e /\ l.rows = q /\ l.weights = n
  BY ViewFields
<1>2. View("tok", e, l.of, q, n) = View("tok", e, of, q, n)
  BY ViewAgain
<1>3. View("ctl", Book(e, q, {}), l.of, q, n) = View("ctl", Book(e, q, {}), of, q, n)
  BY BookFacts, ViewAgain
<1>. HIDE DEF l
<1>4. After(l, f) = AfterHr(l, f)
  BY <1>1 DEF After
<1>5. AfterHr(l, f) = IF f.wave = NoWave THEN View("tok", e, l.of, q, n) ELSE View("ctl", Book(e, q, {}), l.of, q, n)
  BY <1>1 DEF AfterHr
<1> QED BY <1>2, <1>3, <1>4, <1>5 DEF l

\* The tokens of the step under way.
LEMMA AfterOfTok ==
  ASSUME NEW at, NEW e, EngineOK(e), NEW of, NEW q, ToSet(q) \subseteq ToSet(e.running), NEW n, NEW f
  PROVE  /\ AfterTok(View(at, e, of, q, n), f) = View("ctl", Book(e, q, Ended(f.toks)), of, q, n)
         /\ at = "tok" /\ f.tag = "tok" => After(View(at, e, of, q, n), f) = AfterTok(View(at, e, of, q, n), f)
<1>. DEFINE l == View(at, e, of, q, n)
<1>1. l.pc = at /\ l.eng = e /\ l.rows = q /\ l.weights = n
  BY ViewFields
<1>2. View("ctl", Book(e, q, Ended(f.toks)), l.of, q, n) = View("ctl", Book(e, q, Ended(f.toks)), of, q, n)
  BY BookFacts, ViewAgain
<1>. HIDE DEF l
<1>3. AfterTok(l, f) = View("ctl", Book(e, q, Ended(f.toks)), l.of, q, n)
  BY <1>1 DEF AfterTok
<1>4. at = "tok" /\ f.tag = "tok" => After(l, f) = AfterTok(l, f)
  BY <1>1 DEF After
<1> QED BY <1>2, <1>3, <1>4 DEF l

\* A frame that does not kill is the one that was waited for.
LEMMA Expected ==
  ASSUME NEW l, NEW f, After(l, f).pc # "dead"
  PROVE  f.tag = l.pc /\ (f.tag = "hr" => f.rows = l.rows /\ f.weights = l.weights)
<1>1. Lost(l).pc = "dead"
  BY ViewFields DEF Lost
<1>2. f.tag = l.pc
  BY <1>1 DEF After
<1>3. ASSUME f.tag = "hr" PROVE f.rows = l.rows /\ f.weights = l.weights
  <2>1. After(l, f) = AfterHr(l, f)
    BY <1>2, <1>3 DEF After
  <2> QED BY <2>1, <1>1 DEF AfterHr
<1> QED BY <1>2, <1>3

-----------------------------------------------------------------------------
(* What the actions of the followers do. *)

LEMMA StageFacts ==
  /\ LastStage \in Nat \ {0} /\ 0 \in Stages /\ 0 \in Links /\ LastStage \in Stages /\ LastStage \in Followers /\ LastStage \notin Links
  /\ \A s \in Followers : s \in Stages /\ s \in Int /\ s # 0 /\ s - 1 \in Links /\ s - 1 \in Stages /\ s - 1 # s /\ (s # LastStage => s \in Links)
  /\ \A s \in Links : s \in Stages /\ s \in Int /\ s # LastStage /\ s + 1 \in Followers /\ (s + 1) - 1 = s
  /\ \A s \in Stages : s \in Int /\ (s = 0 \/ s \in Followers) /\ (s = LastStage \/ s \in Links)
<1>1. LastStage \in Nat \ {0}
  BY SpliceAssumption
<1> QED BY <1>1 DEF Stages, Links, Followers

\* The engines, drivers and maps of the other stages stay as they are.
Others(s) ==
  /\ pc' = [t \in Stages |-> pc'[t]] /\ eng' = [t \in Stages |-> eng'[t]] /\ waveOf' = [t \in Stages |-> waveOf'[t]]
  /\ rows' = [t \in Stages |-> rows'[t]] /\ weights' = [t \in Stages |-> weights'[t]]
  /\ \A t \in Stages : t # s =>
       pc'[t] = pc[t] /\ eng'[t] = eng[t] /\ waveOf'[t] = waveOf[t] /\ rows'[t] = rows[t] /\ weights'[t] = weights[t]

\* The place where a frame was before the step of stage s.
Shift(s, u) == IF u = s - 1 THEN 1 ELSE 0

\* Stage s takes the head of its link, and may hand something on.
LEMMA FollowerLinks ==
  ASSUME TypeInv, NEW s \in Followers, down[s - 1] # <<>>, NEW g,
         down' = Rest(s) \/ (s # LastStage /\ down' = [Rest(s) EXCEPT ![s] = Append(@, g)])
  PROVE  /\ down' = [u \in Links |-> down'[u]] /\ \A u \in Links : Line(down'[u])
         /\ down'[s - 1] = Tail(down[s - 1]) /\ \A u \in Links : u # s - 1 /\ u # s => down'[u] = down[u]
         /\ s \in Links => down'[s] = IF down' = Rest(s) THEN down[s] ELSE Append(down[s], g)
         /\ \A u \in Links : \A i \in DOMAIN down'[u] :
              \/ i + Shift(s, u) \in DOMAIN down[u] /\ down'[u][i] = down[u][i + Shift(s, u)]
              \/ u = s /\ i = Len(down[s]) + 1 /\ down'[u][i] = g
<1>1. /\ s \in Int /\ s - 1 \in Links /\ s - 1 # s /\ (s # LastStage => s \in Links)
      /\ down = [u \in Links |-> down[u]] /\ \A u \in Links : Line(down[u])
  BY StageFacts DEF TypeInv
<1>2. Rest(s) = [u \in Links |-> IF u = s - 1 THEN Tail(down[u]) ELSE down[u]]
  BY <1>1 DEF Rest
<1>3. /\ down' = [u \in Links |-> down'[u]]
      /\ down'[s - 1] = Tail(down[s - 1]) /\ \A u \in Links : u # s - 1 /\ u # s => down'[u] = down[u]
      /\ s \in Links => down'[s] = IF down' = Rest(s) THEN down[s] ELSE Append(down[s], g)
  BY <1>1, <1>2
<1>4. ASSUME NEW u \in Links
      PROVE  /\ Line(down'[u])
             /\ \A i \in DOMAIN down'[u] :
                  \/ i + Shift(s, u) \in DOMAIN down[u] /\ down'[u][i] = down[u][i + Shift(s, u)]
                  \/ u = s /\ i = Len(down[s]) + 1 /\ down'[u][i] = g
  <2>0. Line(down[u]) /\ DOMAIN down[u] = 1..Len(down[u]) /\ Len(down[u]) \in Nat
    BY <1>1, LineFacts
  <2>1. CASE u = s - 1
    <3>1. Shift(s, u) = 1 /\ down'[u] = Tail(down[u]) /\ down[u] # <<>>
      BY <2>1, <1>3 DEF Shift
    <3> QED BY <3>1, <2>0, LineLess
  <2>2. CASE u # s - 1
    <3>1. Shift(s, u) = 0
      BY <2>2 DEF Shift
    <3>2. CASE down'[u] = down[u]
      BY <3>1, <3>2, <2>0
    <3>3. CASE down'[u] # down[u]
      <4>1. u = s /\ down'[u] = Append(down[u], g)
        BY <3>3, <2>2, <1>3
      <4>2. \A i \in 1..(Len(down[u]) + 1) : i = Len(down[u]) + 1 \/ i \in 1..Len(down[u])
        BY <2>0
      <4> QED BY <4>1, <4>2, <3>1, <2>0, LineMore
    <3> QED BY <3>2, <3>3
  <2> QED BY <2>1, <2>2
<1> QED BY <1>3, <1>4

\* A frame on a link that admits brings requests unknown at its next stage.
LEMMA Admissible ==
  ASSUME BaseInv, NEW s \in Followers, down[s - 1] # <<>>, NEW f, f = Head(down[s - 1]), f.tag = "ctl"
  PROVE  /\ f.admits \in Seq(Requests) /\ IsInjective(f.admits)
         /\ \A r \in ToSet(f.admits) : r \in Requests /\ r \notin Inside(eng[s]) /\ eng[s].booked[r] = 0
<1>1. s - 1 \in Links /\ s \in Int /\ s \in (s - 1 + 1)..LastStage /\ Line(down[s - 1])
  BY StageFacts DEF BaseInv, TypeInv, Followers
<1>2. 1 \in DOMAIN down[s - 1] /\ f = down[s - 1][1]
  BY <1>1, LineLess
<1>3. f.admits \in Seq(Requests) /\ IsInjective(f.admits)
  BY <1>1, <1>2 DEF BaseInv, ArrivalInv
<1>4. ASSUME NEW r \in ToSet(f.admits) PROVE r \in Requests /\ Unseen(s, r)
  <2>1. r \in Requests
    BY <1>3 DEF ToSet
  <2>2. Brings(s - 1, 1, r)
    BY <1>2 DEF Brings
  <2> QED BY <1>1, <1>2, <2>1, <2>2 DEF BaseInv, ArrivalInv
<1> QED BY <1>3, <1>4 DEF Unseen

\* An engine that has not seen a request has not after a frame that does not admit it.
LEMMA StillUnseen ==
  ASSUME NEW e, EngineOK(e), NEW f, f.admits \in Seq(Requests), IsInjective(f.admits),
         \A r \in ToSet(f.admits) : r \notin Inside(e) /\ e.booked[r] = 0,
         NEW own
  PROVE  LET d == Applied(e, f)
             sched == Schedule(d, own)
             a == AfterStep(d, own, sched)
         IN  /\ EngineOK(d) /\ EngineOK(a) /\ Inside(a) = Inside(d)
             /\ sched \in Seq(Requests) /\ ToSet(sched) \subseteq ToSet(a.running)
             /\ ToSet(sched) \subseteq Inside(d) \cap own
             /\ d.booked = e.booked /\ a.booked = e.booked
             /\ \A r \in Requests : r \notin Inside(e) /\ r \notin ToSet(f.admits) => r \notin Inside(d)
<1>. DEFINE d == Applied(e, f)
<1>1. EngineOK(d) /\ d.booked = e.booked /\ Inside(d) = (Inside(e) \ ToSet(f.aborts)) \cup ToSet(f.admits)
  BY AppliedFacts
<1>. HIDE DEF d
<1>2. \A r \in Requests : r \notin Inside(e) /\ r \notin ToSet(f.admits) => r \notin Inside(d)
  BY <1>1
<1>3. /\ Schedule(d, own) \in Seq(Requests) /\ ToSet(Schedule(d, own)) \subseteq Inside(d) \cap own
      /\ EngineOK(AfterStep(d, own, Schedule(d, own))) /\ Inside(AfterStep(d, own, Schedule(d, own))) = Inside(d)
      /\ AfterStep(d, own, Schedule(d, own)).booked = d.booked
      /\ ToSet(Schedule(d, own)) \subseteq ToSet(AfterStep(d, own, Schedule(d, own)).running)
  BY <1>1, ScheduleFacts, AfterStepFacts
<1> QED BY <1>1, <1>2, <1>3 DEF d

LEMMA CtlEffect ==
  ASSUME BaseInv, NEW s \in Followers, TakeCtl(s), NEW f, f = Head(down[s - 1])
  PROVE  /\ down[s - 1] # <<>> /\ pc[s] = "ctl" /\ Others(s)
         /\ UNCHANGED <<mode, client, inbox, ring, told, failed, rowQ, outstanding>>
         /\ \/ f.tag # "ctl" /\ pc'[s] = "dead" /\ eng'[s] = eng[s] /\ rows'[s] = rows[s] /\ down' = Rest(s)
            \/ /\ f.tag = "ctl" /\ pc'[s] \in {"ctl", "hr"} /\ EngineOK(eng'[s]) /\ rows'[s] \in Seq(Requests)
               /\ pc'[s] = "hr" => ToSet(rows'[s]) \subseteq ToSet(eng'[s].running)
               /\ Local(s)' = After(Local(s), f)
               /\ down' = IF s = LastStage THEN Rest(s) ELSE [Rest(s) EXCEPT ![s] = Append(@, f)]
               /\ \A r \in Requests : Unseen(s, r) /\ r \notin ToSet(f.admits) => Unseen(s, r)'
<1>1. /\ down[s - 1] # <<>> /\ pc[s] = "ctl" /\ s \in Stages
      /\ UNCHANGED <<mode, client, inbox, told, failed, rowQ, outstanding>>
  BY StageFacts DEF TakeCtl, Upstream, waves
<1>2. TypeInv /\ EngineOK(eng[s]) /\ rows[s] \in Seq(Requests)
  BY <1>1 DEF BaseInv, EngineInv, TypeInv
<1>3. CASE f.tag # "ctl"
  <2>1. Dies(s) /\ down' = Rest(s)
    BY <1>3 DEF TakeCtl, Upstream
  <2>2. Others(s) /\ pc'[s] = "dead" /\ UNCHANGED ring
    BY <2>1, <1>1, <1>2 DEF Dies, Others, TypeInv
  <2>3. eng'[s] = eng[s] /\ rows'[s] = rows[s]
    BY <2>1 DEF Dies
  <2> QED BY <1>1, <1>3, <2>1, <2>2, <2>3
<1>4. CASE f.tag = "ctl"
  <2>. DEFINE of == Mapped(waveOf[s], f)
              e  == Applied(eng[s], f)
              own == Mine(of, f.wave)
              sched == Schedule(e, own)
              after == AfterStep(e, own, sched)
  <2>1. /\ down' = IF s = LastStage THEN Rest(s) ELSE [Rest(s) EXCEPT ![s] = Append(@, f)]
        /\ weights' = [weights EXCEPT ![s] = Swapped(s, f)]
        /\ waveOf' = [waveOf EXCEPT ![s] = of]
        /\ IF f.step
           THEN /\ eng' = [eng EXCEPT ![s] = after]
                /\ rows' = [rows EXCEPT ![s] = sched]
                /\ pc' = [pc EXCEPT ![s] = IF sched = <<>> THEN "ctl" ELSE "hr"]
           ELSE eng' = [eng EXCEPT ![s] = e] /\ UNCHANGED <<rows, pc>>
        /\ UNCHANGED ring
    BY <1>4 DEF TakeCtl, Upstream
  <2>2. /\ f.admits \in Seq(Requests) /\ IsInjective(f.admits)
        /\ \A r \in ToSet(f.admits) : r \in Requests /\ r \notin Inside(eng[s]) /\ eng[s].booked[r] = 0
    BY <1>1, <1>4, Admissible
  <2>3. /\ EngineOK(e) /\ EngineOK(after) /\ Inside(after) = Inside(e)
        /\ sched \in Seq(Requests) /\ ToSet(sched) \subseteq ToSet(after.running)
        /\ e.booked = eng[s].booked /\ after.booked = eng[s].booked
        /\ \A r \in Requests : r \notin Inside(eng[s]) /\ r \notin ToSet(f.admits) => r \notin Inside(e)
    BY <1>2, <2>2, StillUnseen, SMTT(30)
  <2>4. After(View("ctl", eng[s], waveOf[s], rows[s], weights[s]), f) =
          IF f.step THEN View(IF sched = <<>> THEN "ctl" ELSE "hr", after, of, sched, Swapped(s, f))
          ELSE View("ctl", e, of, rows[s], Swapped(s, f))
    BY <1>2, <1>4, <2>2, AfterOfCtl DEF Swapped
  <2>5. Local(s) = View("ctl", eng[s], waveOf[s], rows[s], weights[s])
    BY <1>1 DEF Local
  <2>. HIDE DEF of, e, own, sched, after
  <2>6. Others(s) /\ weights'[s] = Swapped(s, f) /\ waveOf'[s] = of
    BY <2>1, <1>1, <1>2 DEF Others, TypeInv
  <2>7. CASE f.step
    <3>1. eng'[s] = after /\ rows'[s] = sched /\ pc'[s] = IF sched = <<>> THEN "ctl" ELSE "hr"
      BY <2>1, <2>7, <1>1, <1>2 DEF TypeInv
    <3>2. Local(s)' = View(pc'[s], after, of, sched, Swapped(s, f))
      BY <3>1, <2>6 DEF Local
    <3>3. Local(s)' = After(Local(s), f)
      BY <3>1, <3>2, <2>4, <2>5, <2>7
    <3>4. \A r \in Requests : Unseen(s, r) /\ r \notin ToSet(f.admits) => Unseen(s, r)'
      BY <3>1, <2>3 DEF Unseen
    <3>5. EngineOK(eng'[s]) /\ rows'[s] \in Seq(Requests) /\ ToSet(rows'[s]) \subseteq ToSet(eng'[s].running)
      BY <3>1, <2>3
    <3> QED BY <1>1, <1>4, <2>1, <2>6, <3>1, <3>3, <3>4, <3>5
  <2>8. CASE ~f.step
    <3>1. eng'[s] = e /\ rows'[s] = rows[s] /\ pc'[s] = "ctl"
      BY <2>1, <2>8, <1>1, <1>2 DEF TypeInv
    <3>2. Local(s)' = View("ctl", e, of, rows[s], Swapped(s, f))
      BY <3>1, <2>6 DEF Local
    <3>3. Local(s)' = After(Local(s), f)
      BY <3>2, <2>4, <2>5, <2>8
    <3>4. \A r \in Requests : Unseen(s, r) /\ r \notin ToSet(f.admits) => Unseen(s, r)'
      BY <3>1, <2>3 DEF Unseen
    <3>5. EngineOK(eng'[s]) /\ rows'[s] \in Seq(Requests)
      BY <3>1, <2>3, <1>2
    <3> QED BY <1>1, <1>4, <2>1, <2>6, <3>1, <3>3, <3>4, <3>5
  <2> QED BY <2>7, <2>8
<1> QED BY <1>3, <1>4

\* The tokens sampled say which texts have ended.
LEMMA SampledEnded ==
  ASSUME NEW s \in Stages, NEW q \in Seq(Requests), NEW ended \in SUBSET ToSet(q), NEW w
  PROVE  Ended(Tok(w, Sampled(s, q, ended)).toks) = ended
<1>. DEFINE toks == Sampled(s, q, ended)
<1>1. DOMAIN q = 1..Len(q) /\ Len(q) \in Nat
  OBVIOUS
<1>2. toks = [i \in 1..Len(q) |-> [of |-> q[i], nr |-> eng[s].booked[q[i]] + 1, eos |-> q[i] \in ended]]
  BY DEF Sampled
<1>3. /\ DOMAIN toks = 1..Len(q)
      /\ \A i \in 1..Len(q) : toks[i].of = q[i] /\ (toks[i].eos <=> q[i] \in ended)
  <2>1. DOMAIN toks = 1..Len(q)
    BY <1>2
  <2>2. ASSUME NEW i \in 1..Len(q) PROVE toks[i].of = q[i] /\ (toks[i].eos <=> q[i] \in ended)
    <3>1. toks[i] = [of |-> q[i], nr |-> eng[s].booked[q[i]] + 1, eos |-> q[i] \in ended]
      <4>. HIDE DEF toks
      <4> QED BY <1>2
    <3>2. toks[i].of = q[i]
      <4>. HIDE DEF toks
      <4> QED BY <3>1
    <3>3. toks[i].eos = (q[i] \in ended)
      <4>. HIDE DEF toks
      <4>1. PICK b : b = (q[i] \in ended)
        BY Zenon
      <4>2. toks[i] = [of |-> q[i], nr |-> eng[s].booked[q[i]] + 1, eos |-> b]
        BY <3>1, <4>1, Zenon
      <4>3. toks[i].eos = b
        BY <4>2
      <4> QED BY <4>1, <4>3, Zenon
    <3> QED BY <3>2, <3>3
  <2> QED BY <2>1, <2>2
<1>. HIDE DEF toks
<1>4. ToSet(toks) = {toks[i] : i \in 1..Len(q)}
  BY <1>3 DEF ToSet
<1>5. ASSUME NEW r \in Ended(toks) PROVE r \in ended
  <2>1. PICK t \in ToSet(toks) : t.eos /\ r = t.of
    BY <1>5 DEF Ended
  <2>2. PICK i \in 1..Len(q) : t = toks[i]
    BY <2>1, <1>4
  <2> QED BY <2>1, <2>2, <1>3
<1>6. ASSUME NEW r \in ended PROVE r \in Ended(toks)
  <2>1. PICK i \in 1..Len(q) : q[i] = r
    BY <1>1 DEF ToSet
  <2>2. toks[i].of = r /\ toks[i].eos /\ toks[i] \in ToSet(toks)
    BY <2>1, <1>3, <1>4
  <2> QED BY <2>2 DEF Ended
<1>7. Ended(toks) = ended
  BY <1>5, <1>6
<1> QED BY <1>7 DEF Tok, toks

\* What follows of a follower taking f for the hidden states it waits for.
HrDone(s, f) ==
  /\ down[s - 1] # <<>> /\ pc[s] = "hr" /\ Others(s) /\ ToSet(rows[s]) \subseteq ToSet(eng[s].running)
  /\ UNCHANGED <<mode, client, inbox, told, failed, rowQ, outstanding>>
  /\ rows'[s] = rows[s] /\ weights'[s] = weights[s] /\ waveOf'[s] = waveOf[s]
  /\ \/ f.tag # "hr" /\ pc'[s] = "dead" /\ eng'[s] = eng[s] /\ down' = Rest(s) /\ ring' = ring
     \/ /\ f.tag = "hr" /\ EngineOK(eng'[s])
        /\ \A r \in Requests : Unseen(s, r) => Unseen(s, r)'
        /\ \/ /\ s = LastStage /\ pc'[s] = "ctl" /\ down' = Rest(s)
              /\ \E g : /\ g.tag = "tok" /\ g.wave = f.wave /\ ring' = Append(ring, g)
                        /\ eng'[s] = Book(eng[s], rows[s], IF mode = 0 THEN Ended(g.toks) ELSE {})
           \/ /\ s # LastStage /\ UNCHANGED ring
              /\ down' = [Rest(s) EXCEPT ![s] = Append(@, Hr(f.wave, rows[s], weights[s]))]
              /\ IF mode = 0 THEN pc'[s] = "tok" /\ eng'[s] = eng[s]
                 ELSE pc'[s] = "ctl" /\ eng'[s] = Book(eng[s], rows[s], {})

LEMMA HrEffect ==
  ASSUME BaseInv, NEW s \in Followers, TakeHr(s), NEW f, f = Head(down[s - 1])
  PROVE  HrDone(s, f)
<1>1. /\ down[s - 1] # <<>> /\ pc[s] = "hr" /\ s \in Stages
      /\ UNCHANGED <<mode, client, inbox, told, failed, rowQ, outstanding>>
  BY StageFacts DEF TakeHr, Upstream, waves
<1>2. TypeInv /\ EngineOK(eng[s]) /\ rows[s] \in Seq(Requests) /\ ToSet(rows[s]) \subseteq ToSet(eng[s].running)
  BY <1>1 DEF BaseInv, EngineInv, TypeInv
<1>3. CASE f.tag # "hr"
  <2>1. Dies(s) /\ down' = Rest(s)
    BY <1>3 DEF TakeHr, Upstream
  <2>2. Others(s) /\ pc'[s] = "dead" /\ UNCHANGED ring
    BY <2>1, <1>1, <1>2 DEF Dies, Others, TypeInv
  <2>3. eng'[s] = eng[s] /\ rows'[s] = rows[s] /\ weights'[s] = weights[s] /\ waveOf'[s] = waveOf[s]
    BY <2>1 DEF Dies
  <2> QED BY <1>1, <1>2, <1>3, <2>1, <2>2, <2>3 DEF HrDone
<1>4. CASE f.tag = "hr"
  <2>1. UNCHANGED <<waveOf, rows, weights>>
    BY <1>4 DEF TakeHr, Upstream
  <2>2. \A ended : /\ EngineOK(Book(eng[s], rows[s], ended)) /\ Inside(Book(eng[s], rows[s], ended)) \subseteq Inside(eng[s])
                   /\ \A r \in Requests : Book(eng[s], rows[s], ended).booked[r] =
                        IF r \in ToSet(rows[s]) THEN eng[s].booked[r] + 1 ELSE eng[s].booked[r]
    BY <1>2, BookFacts
  <2>3. \A ended : \A r \in Requests : Unseen(s, r) =>
          r \notin Inside(Book(eng[s], rows[s], ended)) /\ Book(eng[s], rows[s], ended).booked[r] = 0
    BY <1>2, <2>2 DEF Unseen, Inside
  <2>4. CASE s = LastStage
    <3>1. PICK ended \in SUBSET ToSet(rows[s]) :
            /\ ring' = Append(ring, Tok(f.wave, Sampled(s, rows[s], ended)))
            /\ eng' = [eng EXCEPT ![s] = Book(@, rows[s], IF mode = 0 THEN ended ELSE {})]
            /\ pc' = [pc EXCEPT ![s] = "ctl"]
            /\ down' = Rest(s)
      BY <1>4, <2>4 DEF TakeHr, Upstream
    <3>2. PICK g : g = Tok(f.wave, Sampled(s, rows[s], ended))
      OBVIOUS
    <3>3. Ended(g.toks) = ended
      BY <1>1, <1>2, <3>2, SampledEnded
    <3>4. g.tag = "tok" /\ g.wave = f.wave
      BY <3>2 DEF Tok
    <3>5. Others(s) /\ pc'[s] = "ctl" /\ eng'[s] = Book(eng[s], rows[s], IF mode = 0 THEN ended ELSE {})
      BY <3>1, <2>1, <1>1, <1>2 DEF Others, TypeInv
    <3>6. EngineOK(eng'[s]) /\ \A r \in Requests : Unseen(s, r) => Unseen(s, r)'
      BY <3>5, <2>2, <2>3 DEF Unseen
    <3> QED BY <1>1, <1>2, <1>4, <2>1, <2>4, <3>1, <3>2, <3>3, <3>4, <3>5, <3>6 DEF HrDone
  <2>5. CASE s # LastStage
    <3>1. /\ down' = [Rest(s) EXCEPT ![s] = Append(@, Hr(f.wave, rows[s], weights[s]))] /\ UNCHANGED ring
          /\ IF mode = 0
             THEN pc' = [pc EXCEPT ![s] = "tok"] /\ UNCHANGED eng
             ELSE pc' = [pc EXCEPT ![s] = "ctl"] /\ eng' = [eng EXCEPT ![s] = Book(@, rows[s], {})]
      BY <1>4, <2>5 DEF TakeHr, Upstream
    <3>2. /\ Others(s)
          /\ IF mode = 0 THEN pc'[s] = "tok" /\ eng'[s] = eng[s]
             ELSE pc'[s] = "ctl" /\ eng'[s] = Book(eng[s], rows[s], {})
      BY <3>1, <2>1, <1>1, <1>2 DEF Others, TypeInv
    <3>3. EngineOK(eng'[s]) /\ \A r \in Requests : Unseen(s, r) => Unseen(s, r)'
      BY <3>2, <2>2, <2>3, <1>2 DEF Unseen
    <3> QED BY <1>1, <1>2, <1>4, <2>1, <2>5, <3>1, <3>2, <3>3 DEF HrDone
  <2> QED BY <2>4, <2>5
<1> QED BY <1>3, <1>4

\* What follows of a follower taking f for the tokens it waits for.
TokDone(s, f) ==
  /\ down[s - 1] # <<>> /\ pc[s] = "tok" /\ Others(s) /\ ToSet(rows[s]) \subseteq ToSet(eng[s].running)
  /\ UNCHANGED <<mode, client, inbox, ring, told, failed, rowQ, outstanding>>
  /\ rows'[s] = rows[s] /\ weights'[s] = weights[s] /\ waveOf'[s] = waveOf[s]
  /\ \/ f.tag # "tok" /\ pc'[s] = "dead" /\ eng'[s] = eng[s] /\ down' = Rest(s)
     \/ /\ f.tag = "tok" /\ pc'[s] = "ctl" /\ EngineOK(eng'[s])
        /\ \A r \in Requests : Unseen(s, r) => Unseen(s, r)'
        /\ eng'[s] = Book(eng[s], rows[s], Ended(f.toks))
        /\ down' = IF s + 1 = LastStage THEN Rest(s) ELSE [Rest(s) EXCEPT ![s] = Append(@, f)]

LEMMA TokEffect ==
  ASSUME BaseInv, NEW s \in Followers, s # LastStage, TakeTok(s), NEW f, f = Head(down[s - 1])
  PROVE  TokDone(s, f)
<1>1. /\ down[s - 1] # <<>> /\ pc[s] = "tok" /\ s \in Stages
      /\ UNCHANGED <<mode, client, inbox, told, failed, rowQ, outstanding>>
  BY StageFacts DEF TakeTok, Upstream, waves
<1>2. TypeInv /\ EngineOK(eng[s]) /\ ToSet(rows[s]) \subseteq ToSet(eng[s].running)
  BY <1>1 DEF BaseInv, EngineInv
<1>3. CASE f.tag # "tok"
  <2>1. Dies(s) /\ down' = Rest(s)
    BY <1>3 DEF TakeTok, Upstream
  <2>2. Others(s) /\ pc'[s] = "dead" /\ UNCHANGED ring
    BY <2>1, <1>1, <1>2 DEF Dies, Others, TypeInv
  <2>3. eng'[s] = eng[s] /\ rows'[s] = rows[s] /\ weights'[s] = weights[s] /\ waveOf'[s] = waveOf[s]
    BY <2>1 DEF Dies
  <2> QED BY <1>1, <1>2, <1>3, <2>1, <2>2, <2>3 DEF TokDone
<1>4. CASE f.tag = "tok"
  <2>1. /\ down' = IF NextIsLast(s) THEN Rest(s) ELSE [Rest(s) EXCEPT ![s] = Append(@, f)]
        /\ eng' = [eng EXCEPT ![s] = Book(@, rows[s], Ended(f.toks))]
        /\ pc' = [pc EXCEPT ![s] = "ctl"]
        /\ UNCHANGED <<waveOf, rows, weights, ring>>
    BY <1>4 DEF TakeTok, Upstream
  <2>2. Others(s) /\ pc'[s] = "ctl" /\ eng'[s] = Book(eng[s], rows[s], Ended(f.toks))
    BY <2>1, <1>1, <1>2 DEF Others, TypeInv
  <2>3. EngineOK(eng'[s]) /\ \A r \in Requests : Unseen(s, r) => Unseen(s, r)'
    BY <2>2, <1>2, BookFacts DEF Unseen, Inside
  <2> QED BY <1>1, <1>2, <1>4, <2>1, <2>2, <2>3 DEF NextIsLast, TokDone
<1> QED BY <1>3, <1>4

-----------------------------------------------------------------------------
(* What stage 0 does. *)

LEMMA TwoMore ==
  ASSUME NEW q, Line(q), NEW f, NEW g
  PROVE  q \o <<f>> = Append(q, f) /\ q \o <<f, g>> = Append(Append(q, f), g)
<1>. DEFINE T == ToSet(q) \cup {f, g}
<1>1. q \in Seq(T) /\ f \in T /\ g \in T
  BY SeqMonotonic DEF Line
<1>. HIDE DEF T
<1>2. q \o <<f>> = Append(q, f) /\ Append(q, f) \in Seq(T) /\ <<f>> \in Seq(T) /\ <<g>> \in Seq(T)
  BY <1>1, AppendIsConcat, AppendProperties
<1>3. Append(Append(q, f), g) = (q \o <<f>>) \o <<g>>
  BY <1>1, <1>2, AppendIsConcat
<1>4. (q \o <<f>>) \o <<g>> = q \o (<<f>> \o <<g>>)
  BY <1>1, <1>2, ConcatAssociative
<1>5. <<f>> \o <<g>> = <<f, g>>
  <2>. DEFINE c == <<f>> \o <<g>>
  <2>1. Len(<<f>>) = 1 /\ Len(<<g>>) = 1 /\ <<f>>[1] = f /\ <<g>>[1] = g
    OBVIOUS
  <2>2. c \in Seq(T) /\ Len(c) = 2 /\ c[1] = f /\ c[2] = g
    BY <1>2, <2>1, ConcatProperties
  <2>. HIDE DEF c
  <2>3. <<f, g>> \in Seq(T) /\ Len(<<f, g>>) = 2 /\ <<f, g>>[1] = f /\ <<f, g>>[2] = g
    BY <1>1
  <2>4. c = <<f, g>>
    BY <2>2, <2>3, SeqEqual
  <2> QED BY <2>4 DEF c
<1> QED BY <1>2, <1>3, <1>4, <1>5

\* What follows of stage 0 emitting f.
EmitDone(f, outcome) ==
  LET g == Hr(f.wave, rows'[0], weights'[0])
      l == View("ctl", eng[0], waveOf[0], rows[0], weights[0])
  IN  /\ Others(0) /\ EngineOK(eng'[0]) /\ rows'[0] \in Seq(Requests)
      /\ down' = [down EXCEPT ![0] = IF outcome # "raised" /\ rows'[0] # <<>> THEN Append(Append(@, f), g)
                                     ELSE Append(@, f)]
      /\ \A r \in Requests : Unseen(0, r) /\ r \notin ToSet(f.admits) => Unseen(0, r)'
      /\ waveOf'[0] = Mapped(waveOf[0], f)
      /\ ToSet(rows'[0]) \subseteq Mine(waveOf'[0], f.wave)
      /\ outcome = "stepped" =>
           /\ mode = 0 => ToSet(rows'[0]) \subseteq ToSet(eng'[0].running)
           /\ mode # 0 => \A r \in Requests :
                eng'[0].booked[r] = IF r \in ToSet(rows'[0]) THEN eng[0].booked[r] + 1 ELSE eng[0].booked[r]
           /\ (mode = 0 <=> f.wave = NoWave) =>
                IF rows'[0] = <<>> THEN After(l, f) = View("ctl", eng'[0], waveOf'[0], rows'[0], weights'[0])
                ELSE /\ After(l, f).pc = "hr"
                     /\ After(After(l, f), g) =
                          View(IF mode = 0 THEN "tok" ELSE "ctl", eng'[0], waveOf'[0], rows'[0], weights'[0])

LEMMA EmitEffect ==
  ASSUME BaseInv, NEW f, f.tag = "ctl", f.step, f.admits \in Seq(Requests), IsInjective(f.admits),
         \A r \in ToSet(f.admits) : Unseen(0, r),
         NEW outcome, Emit(f, outcome),
         pc' = [t \in Stages |-> pc'[t]], \A t \in Stages : t # 0 => pc'[t] = pc[t]
  PROVE  EmitDone(f, outcome)
<1>1. 0 \in Stages /\ 0 \in Links /\ TypeInv /\ EngineOK(eng[0]) /\ Line(down[0])
  BY StageFacts DEF BaseInv, EngineInv, TypeInv
<1>. DEFINE of == Mapped(waveOf[0], f)
            e  == Applied(eng[0], f)
            own == Mine(of, f.wave)
            sched == Schedule(e, own)
            after == AfterStep(e, own, sched)
            n == Swapped(0, f)
            l == View("ctl", eng[0], waveOf[0], rows[0], weights[0])
<1>2. /\ weights' = [weights EXCEPT ![0] = n]
      /\ waveOf' = [waveOf EXCEPT ![0] = of]
      /\ rows' = [rows EXCEPT ![0] = sched]
      /\ eng' = [eng EXCEPT ![0] = IF outcome # "stepped" THEN e ELSE IF mode = 0 THEN after ELSE Book(after, sched, {})]
      /\ down' = [down EXCEPT ![0] = @ \o (IF outcome # "raised" /\ sched # <<>>
                                           THEN <<f, Hr(f.wave, sched, weights'[0])>> ELSE <<f>>)]
  BY DEF Emit
<1>3. \A r \in ToSet(f.admits) : r \notin Inside(eng[0]) /\ eng[0].booked[r] = 0
  BY DEF Unseen
<1>4. /\ EngineOK(e) /\ EngineOK(after) /\ Inside(after) = Inside(e)
      /\ sched \in Seq(Requests) /\ ToSet(sched) \subseteq ToSet(after.running) /\ ToSet(sched) \subseteq own
      /\ e.booked = eng[0].booked /\ after.booked = eng[0].booked
      /\ \A r \in Requests : r \notin Inside(eng[0]) /\ r \notin ToSet(f.admits) => r \notin Inside(e)
  <2>. HIDE DEF own
  <2> QED BY <1>1, <1>3, StillUnseen, SMTT(30)
<1>5. After(l, f) = View(IF sched = <<>> THEN "ctl" ELSE "hr", after, of, sched, n)
  BY <1>1, <1>3, AfterOfCtl DEF Swapped
<1>. HIDE DEF of, e, own, sched, after, n, l
<1>6. /\ Others(0) /\ weights'[0] = n /\ waveOf'[0] = of /\ rows'[0] = sched
      /\ eng'[0] = IF outcome # "stepped" THEN e ELSE IF mode = 0 THEN after ELSE Book(after, sched, {})
  BY <1>1, <1>2 DEF Others, TypeInv
<1>7. PICK g : g = Hr(f.wave, rows'[0], weights'[0])
  OBVIOUS
<1>8. down' = [down EXCEPT ![0] = IF outcome # "raised" /\ rows'[0] # <<>> THEN Append(Append(@, f), g) ELSE Append(@, f)]
  <2>1. down[0] \o <<f>> = Append(down[0], f) /\ down[0] \o <<f, g>> = Append(Append(down[0], f), g)
    BY <1>1, TwoMore
  <2> QED BY <1>2, <1>6, <1>7, <2>1
<1>9. /\ EngineOK(Book(after, sched, {})) /\ Inside(Book(after, sched, {})) \subseteq Inside(e)
      /\ \A r \in Requests : Book(after, sched, {}).booked[r] = IF r \in ToSet(sched) THEN eng[0].booked[r] + 1 ELSE eng[0].booked[r]
  BY <1>4, BookFacts
<1>10. EngineOK(eng'[0])
  BY <1>4, <1>6, <1>9
<1>11. ASSUME NEW r \in Requests, Unseen(0, r), r \notin ToSet(f.admits) PROVE Unseen(0, r)'
  <2>1. r \notin Inside(e) /\ eng[0].booked[r] = 0
    BY <1>4, <1>11 DEF Unseen
  <2>2. r \notin ToSet(sched)
    BY <1>4, <2>1 DEF Inside
  <2>3. r \notin Inside(eng'[0]) /\ eng'[0].booked[r] = 0
    BY <1>4, <1>6, <1>9, <2>1, <2>2
  <2> QED BY <2>3 DEF Unseen
<1>12. ASSUME outcome = "stepped"
       PROVE  /\ mode = 0 => ToSet(sched) \subseteq ToSet(eng'[0].running)
              /\ mode # 0 => \A r \in Requests : eng'[0].booked[r] = IF r \in ToSet(sched) THEN eng[0].booked[r] + 1 ELSE eng[0].booked[r]
  BY <1>4, <1>6, <1>9, <1>12
<1>13. ASSUME outcome = "stepped", mode = 0 <=> f.wave = NoWave, sched = <<>>
       PROVE  After(l, f) = View("ctl", eng'[0], waveOf'[0], rows'[0], weights'[0])
  <2>1. Book(after, sched, {}) = after
    BY <1>4, <1>13, BookNothing
  <2> QED BY <1>5, <1>6, <1>13, <2>1
<1>14. ASSUME outcome = "stepped", mode = 0 <=> f.wave = NoWave, sched # <<>>
       PROVE  /\ After(l, f).pc = "hr"
              /\ After(After(l, f), g) = View(IF mode = 0 THEN "tok" ELSE "ctl", eng'[0], waveOf'[0], rows'[0], weights'[0])
  <2>1. After(l, f) = View("hr", after, of, sched, n)
    BY <1>5, <1>14
  <2>2. g.tag = "hr" /\ g.rows = sched /\ g.weights = n /\ g.wave = f.wave
    BY <1>6, <1>7 DEF Hr
  <2>3. After(View("hr", after, of, sched, n), g) =
          IF g.wave = NoWave THEN View("tok", after, of, sched, n) ELSE View("ctl", Book(after, sched, {}), of, sched, n)
    <3>1. EngineOK(after) /\ ToSet(sched) \subseteq ToSet(after.running)
      BY <1>4
    <3> QED BY ONLY <2>2, <3>1, AfterOfHr
  <2>4. View("hr", after, of, sched, n).pc = "hr"
    BY ViewFields
  <2> QED BY <1>6, <1>14, <2>1, <2>2, <2>3, <2>4
<1>15. /\ Others(0) /\ EngineOK(eng'[0]) /\ rows'[0] \in Seq(Requests)
       /\ waveOf'[0] = Mapped(waveOf[0], f) /\ ToSet(rows'[0]) \subseteq Mine(waveOf'[0], f.wave)
  BY <1>4, <1>6, <1>10 DEF of, own
<1> QED BY <1>6, <1>7, <1>8, <1>11, <1>12, <1>13, <1>14, <1>15 DEF l, EmitDone

-----------------------------------------------------------------------------
(* Requests arrive at each stage once. *)

LEMMA ArriveFollower ==
  ASSUME BaseInv, NEW s \in Followers, down[s - 1] # <<>>, NEW f, f = Head(down[s - 1]), NEW g, g.tag # "ctl" \/ g = f,
         down' = Rest(s) \/ (s # LastStage /\ down' = [Rest(s) EXCEPT ![s] = Append(@, g)]),
         UNCHANGED <<client, inbox>>, \A t \in Stages : t # s => eng'[t] = eng[t],
         \A r \in Requests : Unseen(s, r) /\ ~(f.tag = "ctl" /\ r \in ToSet(f.admits)) => Unseen(s, r)'
  PROVE  ArrivalInv'
<1>1. TypeInv /\ ArrivalInv
  BY DEF BaseInv
<1>2. /\ s \in Int /\ s - 1 \in Links /\ s \in Stages /\ Links \subseteq Int /\ Stages \subseteq Int
      /\ \A u \in Links : Line(down[u]) /\ Line(down'[u])
      /\ \A u \in Links : \A i \in DOMAIN down'[u] :
           \/ i + Shift(s, u) \in DOMAIN down[u] /\ down'[u][i] = down[u][i + Shift(s, u)]
           \/ u = s /\ i = Len(down[s]) + 1 /\ down'[u][i] = g
  <2>1. s \in Int /\ s - 1 \in Links /\ s \in Stages /\ Links \subseteq Int /\ Stages \subseteq Int
    BY StageFacts
  <2>2. \A u \in Links : Line(down[u])
    BY <1>1 DEF TypeInv
  <2>3. /\ \A u \in Links : Line(down'[u])
        /\ \A u \in Links : \A i \in DOMAIN down'[u] :
             \/ i + Shift(s, u) \in DOMAIN down[u] /\ down'[u][i] = down[u][i + Shift(s, u)]
             \/ u = s /\ i = Len(down[s]) + 1 /\ down'[u][i] = g
    <3>1. TypeInv /\ down[s - 1] # <<>> /\ (down' = Rest(s) \/ (s # LastStage /\ down' = [Rest(s) EXCEPT ![s] = Append(@, g)]))
      BY <1>1
    <3> QED BY ONLY <3>1, FollowerLinks, ZenonT(60)
  <2> QED BY <2>1, <2>2, <2>3
<1>3. \A u \in Links : (\A i \in DOMAIN down'[u] : i \in Nat /\ i >= 1) /\ Shift(s, u) \in {0, 1} /\ (Shift(s, u) = 1 => u = s - 1)
  <2>1. ASSUME NEW u \in Links, NEW i \in DOMAIN down'[u] PROVE i \in Nat /\ i >= 1
    <3>1. DOMAIN down'[u] = 1..Len(down'[u]) /\ Len(down'[u]) \in Nat
      BY <1>2, LineFacts
    <3> QED BY <3>1
  <2> QED BY <2>1 DEF Shift
<1>4. 1 \in DOMAIN down[s - 1] /\ f = down[s - 1][1] /\ Shift(s, s - 1) = 1
  BY <1>2, LineLess DEF Shift
<1>5. ASSUME NEW u \in Links, NEW i \in DOMAIN down'[u], down'[u][i].tag = "ctl"
      PROVE  down'[u][i].admits \in Seq(Requests) /\ IsInjective(down'[u][i].admits)
  BY <1>1, <1>2, <1>4, <1>5 DEF ArrivalInv
<1>6. ASSUME NEW u \in Links, NEW i \in DOMAIN down'[u], NEW r \in Requests, Brings(u, i, r)'
      PROVE  \/ i + Shift(s, u) \in DOMAIN down[u] /\ Brings(u, i + Shift(s, u), r)
             \/ u = s /\ i = Len(down[s]) + 1 /\ Brings(s - 1, 1, r)
  BY <1>2, <1>4, <1>6 DEF Brings
<1>7. \A r \in Requests : f.tag = "ctl" /\ r \in ToSet(f.admits) <=> Brings(s - 1, 1, r)
  BY <1>4 DEF Brings
<1>8. \A r \in Requests : \A t \in Stages : Unseen(t, r) /\ (t = s => ~Brings(s - 1, 1, r)) => Unseen(t, r)'
  BY <1>2, <1>7 DEF Unseen
<1>9. ASSUME NEW r \in Requests, Awaited(r)'
      PROVE  /\ ~(client'[r] = "new" /\ r \in ToSet(inbox'))
             /\ \A t \in Stages : Unseen(t, r)'
             /\ \A u \in Links : \A i \in DOMAIN down'[u] : ~Brings(u, i, r)'
  <2>1. Awaited(r)
    BY <1>9 DEF Awaited
  <2>2. /\ ~(client[r] = "new" /\ r \in ToSet(inbox)) /\ \A t \in Stages : Unseen(t, r)
        /\ \A u \in Links : \A i \in DOMAIN down[u] : ~Brings(u, i, r)
    BY <1>1, <2>1 DEF ArrivalInv
  <2>3. ~Brings(s - 1, 1, r)
    BY <1>2, <1>4, <2>2
  <2>4. \A t \in Stages : Unseen(t, r)'
    BY <1>8, <2>2, <2>3
  <2>5. \A u \in Links : \A i \in DOMAIN down'[u] : ~Brings(u, i, r)'
    BY <1>6, <2>2, <2>3
  <2> QED BY <2>2, <2>4, <2>5
<1>10. \A u \in Links : \A i \in DOMAIN down[u] : \A r \in Requests : Brings(u, i, r) =>
         /\ \A t \in (u + 1)..LastStage : Unseen(t, r)
         /\ \A v \in Links : \A j \in DOMAIN down[v] : Brings(v, j, r) => v = u /\ j = i
  BY <1>1 DEF ArrivalInv
<1>11. ASSUME NEW u \in Links, NEW i \in DOMAIN down'[u], NEW r \in Requests, Brings(u, i, r)',
              NEW t \in (u + 1)..LastStage
       PROVE  Unseen(t, r)'
  <2>1. t \in Stages /\ t > u /\ t \in Int
    BY StageFacts, <1>2 DEF Stages, Links
  <2>2. CASE i + Shift(s, u) \in DOMAIN down[u] /\ Brings(u, i + Shift(s, u), r)
    <3>1. Unseen(t, r)
      BY <1>10, <2>2
    <3>2. ~Brings(s - 1, 1, r)
      <4>1. SUFFICES ASSUME Brings(s - 1, 1, r) PROVE FALSE
        OBVIOUS
      <4>2. u = s - 1 /\ i + Shift(s, u) = 1
        BY <1>2, <1>4, <1>10, <2>2, <4>1
      <4> QED BY <4>2, <1>3, <1>4
    <3> QED BY <1>8, <2>1, <3>1, <3>2
  <2>3. CASE u = s /\ i = Len(down[s]) + 1 /\ Brings(s - 1, 1, r)
    <3>1. t \in (s - 1 + 1)..LastStage /\ t # s
      BY <2>1, <2>3, <1>2
    <3>2. Unseen(t, r)
      BY <1>2, <1>4, <1>10, <2>3, <3>1
    <3> QED BY <1>8, <2>1, <3>1, <3>2
  <2> QED BY <1>6, <1>11, <2>2, <2>3
<1>12. ASSUME NEW u \in Links, NEW i \in DOMAIN down'[u], NEW r \in Requests, Brings(u, i, r)',
              NEW v \in Links, NEW j \in DOMAIN down'[v], Brings(v, j, r)'
       PROVE  v = u /\ j = i
  <2>1. \/ i + Shift(s, u) \in DOMAIN down[u] /\ Brings(u, i + Shift(s, u), r)
        \/ u = s /\ i = Len(down[s]) + 1 /\ Brings(s - 1, 1, r)
    BY <1>6, <1>12
  <2>2. \/ j + Shift(s, v) \in DOMAIN down[v] /\ Brings(v, j + Shift(s, v), r)
        \/ v = s /\ j = Len(down[s]) + 1 /\ Brings(s - 1, 1, r)
    BY <1>6, <1>12
  <2>3. i \in Nat /\ i >= 1 /\ j \in Nat /\ j >= 1 /\ Shift(s, u) \in {0, 1} /\ Shift(s, v) \in {0, 1}
    BY <1>3
  <2>4. CASE /\ i + Shift(s, u) \in DOMAIN down[u] /\ Brings(u, i + Shift(s, u), r)
             /\ j + Shift(s, v) \in DOMAIN down[v] /\ Brings(v, j + Shift(s, v), r)
    <3>1. v = u /\ j + Shift(s, v) = i + Shift(s, u)
      BY <1>10, <2>4
    <3> QED BY <3>1, <2>3
  <2>5. CASE Brings(s - 1, 1, r)
    <3>1. ASSUME NEW w \in Links, NEW k \in DOMAIN down'[w], k + Shift(s, w) \in DOMAIN down[w], Brings(w, k + Shift(s, w), r)
          PROVE  FALSE
      <4>1. w = s - 1 /\ k + Shift(s, w) = 1
        BY <1>2, <1>4, <1>10, <2>5, <3>1
      <4> QED BY <4>1, <1>3, <1>4
    <3> QED BY <2>1, <2>2, <3>1
  <2> QED BY <2>1, <2>2, <2>4, <2>5
<1>13. inbox' \in Seq(Requests) /\ IsInjective(inbox')
  BY <1>1 DEF ArrivalInv
<1> QED BY <1>5, <1>9, <1>11, <1>12, <1>13 DEF ArrivalInv

\* Stage 0 sends one frame or two.
LEMMA FirstLinks ==
  ASSUME TypeInv, NEW f, NEW g,
         \/ down' = [down EXCEPT ![0] = Append(@, f)]
         \/ down' = [down EXCEPT ![0] = Append(Append(@, f), g)]
  PROVE  /\ down' = [u \in Links |-> down'[u]] /\ \A u \in Links : Line(down'[u])
         /\ \A u \in Links : u # 0 => down'[u] = down[u]
         /\ \A u \in Links : \A i \in DOMAIN down'[u] :
              \/ i \in DOMAIN down[u] /\ down'[u][i] = down[u][i]
              \/ u = 0 /\ i = Len(down[0]) + 1 /\ down'[u][i] = f
              \/ /\ u = 0 /\ i = Len(down[0]) + 2 /\ i = Len(down'[0]) /\ down'[u][i] = g
                 /\ down' = [down EXCEPT ![0] = Append(Append(@, f), g)]
<1>1. 0 \in Links /\ down = [u \in Links |-> down[u]] /\ \A u \in Links : Line(down[u])
  BY StageFacts DEF TypeInv
<1>. DEFINE q == Append(down[0], f)
            c == Append(q, g)
<1>2. down' = [u \in Links |-> down'[u]] /\ \A u \in Links : u # 0 => down'[u] = down[u]
  BY <1>1
<1>3. down'[0] \in {q, c}
  BY <1>1
<1>3a. down'[0] = q \/ (down'[0] = c /\ down' = [down EXCEPT ![0] = Append(Append(@, f), g)])
  BY <1>1
<1>4. /\ Line(q) /\ Len(down[0]) \in Nat /\ Len(q) = Len(down[0]) + 1 /\ DOMAIN down[0] = 1..Len(down[0])
      /\ DOMAIN q = 1..(Len(down[0]) + 1) /\ q[Len(down[0]) + 1] = f /\ \A i \in 1..Len(down[0]) : q[i] = down[0][i]
  BY <1>1, LineMore
<1>. HIDE DEF q
<1>5. /\ Line(c) /\ Len(c) = Len(q) + 1 /\ DOMAIN c = 1..(Len(q) + 1) /\ c[Len(q) + 1] = g
      /\ \A i \in 1..Len(q) : c[i] = q[i]
  BY <1>4, LineMore
<1>. HIDE DEF c
<1>6. \A u \in Links : Line(down'[u])
  BY <1>1, <1>2, <1>3, <1>4, <1>5
<1>7. \A i \in DOMAIN q : (i \in DOMAIN down[0] /\ q[i] = down[0][i]) \/ (i = Len(down[0]) + 1 /\ q[i] = f)
  BY <1>4
<1>8. ASSUME NEW i \in DOMAIN c
      PROVE  \/ i \in DOMAIN down[0] /\ c[i] = down[0][i]
             \/ i = Len(down[0]) + 1 /\ c[i] = f
             \/ i = Len(down[0]) + 2 /\ i = Len(c) /\ c[i] = g
  <2>1. CASE i = Len(q) + 1
    <3>1. i = Len(down[0]) + 2
      BY <2>1, <1>4
    <3> QED BY <3>1, <2>1, <1>5
  <2>2. CASE i # Len(q) + 1
    <3>1. i \in 1..Len(q) /\ i \in DOMAIN q /\ c[i] = q[i]
      BY <2>2, <1>4, <1>5
    <3> QED BY <3>1, <1>7
  <2> QED BY <2>1, <2>2
<1>9. ASSUME NEW u \in Links, NEW i \in DOMAIN down'[u]
      PROVE  \/ i \in DOMAIN down[u] /\ down'[u][i] = down[u][i]
             \/ u = 0 /\ i = Len(down[0]) + 1 /\ down'[u][i] = f
             \/ /\ u = 0 /\ i = Len(down[0]) + 2 /\ i = Len(down'[0]) /\ down'[u][i] = g
                /\ down' = [down EXCEPT ![0] = Append(Append(@, f), g)]
  <2>1. CASE u # 0
    BY <2>1, <1>2
  <2>2. CASE u = 0 /\ down'[0] = q
    BY <2>2, <1>7
  <2>3. CASE u = 0 /\ down'[0] = c /\ down' = [down EXCEPT ![0] = Append(Append(@, f), g)]
    BY <2>3, <1>8
  <2> QED BY <2>1, <2>2, <2>3, <1>3a
<1> QED BY <1>2, <1>6, <1>9

LEMMA ArriveFirst ==
  ASSUME BaseInv, NEW f,
         f.tag = "ctl" => f.admits \in Seq(Requests) /\ IsInjective(f.admits) /\ ToSet(f.admits) \subseteq ToSet(inbox)
                          /\ ToSet(f.admits) \cap ToSet(inbox') = {},
         \A u \in Links : \A i \in DOMAIN down'[u] :
           \/ i \in DOMAIN down[u] /\ down'[u][i] = down[u][i]
           \/ down'[u][i].tag # "ctl"
           \/ u = 0 /\ i = Len(down[0]) + 1 /\ down'[u][i] = f,
         inbox' \in Seq(Requests), IsInjective(inbox'), ToSet(inbox') \subseteq ToSet(inbox),
         \A r \in Requests : client'[r] = "new" <=> client[r] = "new",
         \A t \in Stages : t # 0 => eng'[t] = eng[t],
         \A r \in Requests : Unseen(0, r) /\ ~(f.tag = "ctl" /\ r \in ToSet(f.admits)) => Unseen(0, r)'
  PROVE  ArrivalInv'
<1>1. TypeInv /\ ArrivalInv /\ 0 \in Links /\ 0 \in Stages /\ Links \subseteq Stages
  BY StageFacts DEF BaseInv
<1>. DEFINE A == IF f.tag = "ctl" THEN ToSet(f.admits) ELSE {}
<1>2. \A r \in A : r \in ToSet(inbox) /\ r \notin ToSet(inbox') /\ r \in Requests
  <2>1. ToSet(inbox) \subseteq Requests
    BY <1>1 DEF ArrivalInv, ToSet
  <2> QED BY <2>1
<1>3. ASSUME NEW r \in Requests, Awaited(r)
      PROVE  /\ ~(client[r] = "new" /\ r \in ToSet(inbox)) /\ \A t \in Stages : Unseen(t, r)
             /\ \A u \in Links : \A i \in DOMAIN down[u] : ~Brings(u, i, r)
  BY <1>1, <1>3 DEF ArrivalInv
<1>4. \A r \in A : Awaited(r)
  BY <1>2 DEF Awaited
<1>5. ASSUME NEW u \in Links, NEW i \in DOMAIN down'[u], down'[u][i].tag = "ctl"
      PROVE  down'[u][i].admits \in Seq(Requests) /\ IsInjective(down'[u][i].admits)
  BY <1>1, <1>5 DEF ArrivalInv
<1>6. ASSUME NEW u \in Links, NEW i \in DOMAIN down'[u], NEW r \in Requests, Brings(u, i, r)'
      PROVE  (i \in DOMAIN down[u] /\ Brings(u, i, r)) \/ (u = 0 /\ i = Len(down[0]) + 1 /\ r \in A)
  BY <1>6 DEF Brings
<1>7. \A r \in Requests : \A t \in Stages : Unseen(t, r) /\ (t = 0 => r \notin A) => Unseen(t, r)'
  BY DEF Unseen
<1>. HIDE DEF A
<1>8. ASSUME NEW r \in Requests, Awaited(r)'
      PROVE  /\ ~(client'[r] = "new" /\ r \in ToSet(inbox'))
             /\ \A t \in Stages : Unseen(t, r)'
             /\ \A u \in Links : \A i \in DOMAIN down'[u] : ~Brings(u, i, r)'
  <2>1. Awaited(r) /\ r \notin A
    <3>1. CASE client[r] = "new"
      BY <3>1, <1>2, <1>3 DEF Awaited
    <3>2. CASE r \in ToSet(inbox')
      BY <3>2, <1>2 DEF Awaited
    <3> QED BY <1>8, <3>1, <3>2 DEF Awaited
  <2>2. ~(client'[r] = "new" /\ r \in ToSet(inbox'))
    BY <2>1, <1>3
  <2>3. \A t \in Stages : Unseen(t, r)'
    BY <2>1, <1>3, <1>7
  <2>4. \A u \in Links : \A i \in DOMAIN down'[u] : ~Brings(u, i, r)'
    BY <2>1, <1>3, <1>6
  <2> QED BY <2>2, <2>3, <2>4
<1>9. \A u \in Links : \A i \in DOMAIN down[u] : \A r \in Requests : Brings(u, i, r) =>
        /\ \A t \in (u + 1)..LastStage : Unseen(t, r)
        /\ \A v \in Links : \A j \in DOMAIN down[v] : Brings(v, j, r) => v = u /\ j = i
  BY <1>1 DEF ArrivalInv
<1>10. ASSUME NEW u \in Links, NEW i \in DOMAIN down'[u], NEW r \in Requests, Brings(u, i, r)',
              NEW t \in (u + 1)..LastStage
       PROVE  Unseen(t, r)'
  <2>1. t \in Stages /\ t # 0
    BY StageFacts DEF Stages, Links
  <2>2. CASE i \in DOMAIN down[u] /\ Brings(u, i, r)
    BY <2>1, <2>2, <1>7, <1>9
  <2>3. CASE r \in A
    BY <2>1, <2>3, <1>3, <1>4, <1>7
  <2> QED BY <1>6, <1>10, <2>2, <2>3
<1>11. ASSUME NEW u \in Links, NEW i \in DOMAIN down'[u], NEW r \in Requests, Brings(u, i, r)',
              NEW v \in Links, NEW j \in DOMAIN down'[v], Brings(v, j, r)'
       PROVE  v = u /\ j = i
  <2>1. (i \in DOMAIN down[u] /\ Brings(u, i, r)) \/ (u = 0 /\ i = Len(down[0]) + 1 /\ r \in A)
    BY <1>6, <1>11
  <2>2. (j \in DOMAIN down[v] /\ Brings(v, j, r)) \/ (v = 0 /\ j = Len(down[0]) + 1 /\ r \in A)
    BY <1>6, <1>11
  <2>3. CASE r \in A
    BY <2>1, <2>2, <2>3, <1>3, <1>4
  <2>4. CASE r \notin A
    BY <2>1, <2>2, <2>4, <1>9
  <2> QED BY <2>3, <2>4
<1> QED BY <1>5, <1>8, <1>10, <1>11 DEF ArrivalInv

-----------------------------------------------------------------------------
(* BaseInv is an invariant. *)

\* The step of one stage keeps the types and the books of the stages.
LEMMA OneStage ==
  ASSUME BaseInv, NEW s \in Stages, Others(s), mode' = mode,
         pc'[s] \in {"loop", "ctl", "hr", "tok", "dead"}, s = 0 => pc'[s] \in {"loop", "tok"}, s # 0 => pc'[s] # "loop",
         mode > 0 => pc'[s] # "tok", rows'[s] \in Seq(Requests), EngineOK(eng'[s]),
         pc'[s] \in {"hr", "tok"} => ToSet(rows'[s]) \subseteq ToSet(eng'[s].running)
  PROVE  /\ mode' \in Modes
         /\ pc' \in [Stages -> {"loop", "ctl", "hr", "tok", "dead"}] /\ pc'[0] \in {"loop", "tok"}
         /\ \A t \in Followers : pc'[t] # "loop"
         /\ mode' > 0 => \A t \in Stages : pc'[t] # "tok"
         /\ eng' = [t \in Stages |-> eng'[t]] /\ waveOf' = [t \in Stages |-> waveOf'[t]]
         /\ rows' \in [Stages -> Seq(Requests)] /\ weights' = [t \in Stages |-> weights'[t]]
         /\ EngineInv'
<1>1. TypeInv /\ EngineInv /\ 0 \in Stages /\ \A t \in Followers : t \in Stages /\ t # 0
  BY StageFacts DEF BaseInv
<1>2. /\ pc' = [t \in Stages |-> pc'[t]] /\ eng' = [t \in Stages |-> eng'[t]] /\ waveOf' = [t \in Stages |-> waveOf'[t]]
      /\ rows' = [t \in Stages |-> rows'[t]] /\ weights' = [t \in Stages |-> weights'[t]]
      /\ \A t \in Stages : t # s => pc'[t] = pc[t] /\ eng'[t] = eng[t] /\ rows'[t] = rows[t]
  BY DEF Others
<1>3. \A t \in Stages : pc'[t] \in {"loop", "ctl", "hr", "tok", "dead"} /\ rows'[t] \in Seq(Requests)
  BY <1>1, <1>2 DEF TypeInv
<1>4. pc'[0] \in {"loop", "tok"} /\ \A t \in Followers : pc'[t] # "loop"
  BY <1>1, <1>2 DEF TypeInv
<1>5. mode' > 0 => \A t \in Stages : pc'[t] # "tok"
  BY <1>1, <1>2 DEF TypeInv
<1>6. EngineInv'
  BY <1>1, <1>2 DEF EngineInv
<1>7. mode' \in Modes
  BY <1>1 DEF TypeInv
<1> QED BY <1>2, <1>3, <1>4, <1>5, <1>6, <1>7

LEMMA BaseCtl ==
  ASSUME BaseInv, NEW s \in Followers, TakeCtl(s)
  PROVE  BaseInv'
<1>1. PICK f : f = Head(down[s - 1])
  OBVIOUS
<1>2. /\ down[s - 1] # <<>> /\ pc[s] = "ctl" /\ Others(s)
      /\ UNCHANGED <<mode, client, inbox, ring, told, failed, rowQ, outstanding>>
      /\ \/ f.tag # "ctl" /\ pc'[s] = "dead" /\ eng'[s] = eng[s] /\ rows'[s] = rows[s] /\ down' = Rest(s)
         \/ /\ f.tag = "ctl" /\ pc'[s] \in {"ctl", "hr"} /\ EngineOK(eng'[s]) /\ rows'[s] \in Seq(Requests)
            /\ pc'[s] = "hr" => ToSet(rows'[s]) \subseteq ToSet(eng'[s].running)
            /\ down' = IF s = LastStage THEN Rest(s) ELSE [Rest(s) EXCEPT ![s] = Append(@, f)]
            /\ \A r \in Requests : Unseen(s, r) /\ r \notin ToSet(f.admits) => Unseen(s, r)'
  BY <1>1, CtlEffect, SMTT(30)
<1>3. s \in Stages /\ s # 0 /\ TypeInv /\ EngineOK(eng[s]) /\ rows[s] \in Seq(Requests)
  BY StageFacts DEF BaseInv, EngineInv, TypeInv
<1>4. down' = Rest(s) \/ (s # LastStage /\ down' = [Rest(s) EXCEPT ![s] = Append(@, f)])
  BY <1>2
<1>5. down' = [u \in Links |-> down'[u]] /\ \A u \in Links : Line(down'[u])
  BY <1>2, <1>3, <1>4, FollowerLinks
<1>6. /\ pc'[s] \in {"loop", "ctl", "hr", "tok", "dead"} /\ pc'[s] # "loop" /\ pc'[s] # "tok"
      /\ rows'[s] \in Seq(Requests) /\ EngineOK(eng'[s])
      /\ pc'[s] \in {"hr", "tok"} => ToSet(rows'[s]) \subseteq ToSet(eng'[s].running)
  BY <1>2, <1>3
<1>7. TypeInv' /\ EngineInv'
  BY <1>2, <1>3, <1>5, <1>6, OneStage DEF TypeInv
<1>8. \A t \in Stages : t # s => eng'[t] = eng[t]
  BY <1>2 DEF Others
<1>9. \A r \in Requests : Unseen(s, r) /\ ~(f.tag = "ctl" /\ r \in ToSet(f.admits)) => Unseen(s, r)'
  BY <1>2 DEF Unseen
<1>10. ArrivalInv'
  BY <1>1, <1>2, <1>4, <1>8, <1>9, ArriveFollower
<1> QED BY <1>7, <1>10 DEF BaseInv

LEMMA BaseHr ==
  ASSUME BaseInv, NEW s \in Followers, TakeHr(s)
  PROVE  BaseInv'
<1>1. PICK f : f = Head(down[s - 1])
  OBVIOUS
<1>1a. HrDone(s, f)
  BY <1>1, HrEffect
<1>2. /\ down[s - 1] # <<>> /\ pc[s] = "hr" /\ Others(s) /\ ToSet(rows[s]) \subseteq ToSet(eng[s].running)
      /\ UNCHANGED <<mode, client, inbox, told, failed, rowQ, outstanding>>
      /\ rows'[s] = rows[s] /\ weights'[s] = weights[s] /\ waveOf'[s] = waveOf[s]
      /\ \/ f.tag # "hr" /\ pc'[s] = "dead" /\ eng'[s] = eng[s] /\ down' = Rest(s) /\ ring' = ring
         \/ /\ f.tag = "hr" /\ EngineOK(eng'[s])
            /\ \A r \in Requests : Unseen(s, r) => Unseen(s, r)'
            /\ \/ /\ s = LastStage /\ pc'[s] = "ctl" /\ down' = Rest(s)
                  /\ \E g : /\ g.tag = "tok" /\ g.wave = f.wave /\ ring' = Append(ring, g)
                            /\ eng'[s] = Book(eng[s], rows[s], IF mode = 0 THEN Ended(g.toks) ELSE {})
               \/ /\ s # LastStage /\ UNCHANGED ring
                  /\ down' = [Rest(s) EXCEPT ![s] = Append(@, Hr(f.wave, rows[s], weights[s]))]
                  /\ IF mode = 0 THEN pc'[s] = "tok" /\ eng'[s] = eng[s]
                     ELSE pc'[s] = "ctl" /\ eng'[s] = Book(eng[s], rows[s], {})
  BY <1>1a DEF HrDone
<1>3. s \in Stages /\ s # 0 /\ TypeInv /\ EngineOK(eng[s]) /\ rows[s] \in Seq(Requests) /\ mode \in Nat
  BY StageFacts, SpliceAssumption DEF BaseInv, EngineInv, TypeInv
<1>4. PICK g : g = Hr(f.wave, rows[s], weights[s])
  OBVIOUS
<1>5. g.tag # "ctl" /\ (down' = Rest(s) \/ (s # LastStage /\ down' = [Rest(s) EXCEPT ![s] = Append(@, g)]))
  BY <1>2, <1>4 DEF Hr
<1>6. down' = [u \in Links |-> down'[u]] /\ \A u \in Links : Line(down'[u])
  BY <1>2, <1>3, <1>5, FollowerLinks
<1>7. /\ pc'[s] \in {"loop", "ctl", "hr", "tok", "dead"} /\ pc'[s] # "loop" /\ (mode > 0 => pc'[s] # "tok")
      /\ rows'[s] \in Seq(Requests) /\ EngineOK(eng'[s])
      /\ pc'[s] \in {"hr", "tok"} => ToSet(rows'[s]) \subseteq ToSet(eng'[s].running)
  BY <1>2, <1>3
<1>8. Line(ring') /\ \A i \in DOMAIN ring' : ring'[i].tag = "tok"
  <2>1. CASE ring' = ring
    BY <2>1, <1>3 DEF TypeInv
  <2>2. ASSUME NEW k, k.tag = "tok", ring' = Append(ring, k) PROVE Line(ring') /\ \A i \in DOMAIN ring' : ring'[i].tag = "tok"
    <3>1. /\ Line(ring) /\ \A i \in DOMAIN ring : ring[i].tag = "tok"
      BY <1>3 DEF TypeInv
    <3>2. /\ Line(ring') /\ Len(ring) \in Nat /\ DOMAIN ring = 1..Len(ring) /\ DOMAIN ring' = 1..(Len(ring) + 1)
          /\ ring'[Len(ring) + 1] = k /\ \A i \in 1..Len(ring) : ring'[i] = ring[i]
      BY <2>2, <3>1, LineMore
    <3>3. \A i \in 1..(Len(ring) + 1) : i = Len(ring) + 1 \/ i \in 1..Len(ring)
      BY <3>2
    <3> QED BY <2>2, <3>1, <3>2, <3>3
  <2> QED BY <1>2, <2>1, <2>2
<1>9. TypeInv' /\ EngineInv'
  BY <1>2, <1>3, <1>6, <1>7, <1>8, OneStage DEF TypeInv
<1>10. \A t \in Stages : t # s => eng'[t] = eng[t]
  BY <1>2 DEF Others
<1>11. \A r \in Requests : Unseen(s, r) /\ ~(f.tag = "ctl" /\ r \in ToSet(f.admits)) => Unseen(s, r)'
  BY <1>2 DEF Unseen
<1>12. ArrivalInv'
  BY <1>1, <1>2, <1>5, <1>10, <1>11, ArriveFollower
<1> QED BY <1>9, <1>12 DEF BaseInv

LEMMA BaseTok ==
  ASSUME BaseInv, NEW s \in Followers, s # LastStage, TakeTok(s)
  PROVE  BaseInv'
<1>1. PICK f : f = Head(down[s - 1])
  OBVIOUS
<1>2. /\ down[s - 1] # <<>> /\ pc[s] = "tok" /\ Others(s)
      /\ UNCHANGED <<mode, client, inbox, ring, told, failed, rowQ, outstanding>>
      /\ rows'[s] = rows[s]
      /\ \/ f.tag # "tok" /\ pc'[s] = "dead" /\ eng'[s] = eng[s] /\ down' = Rest(s)
         \/ /\ f.tag = "tok" /\ pc'[s] = "ctl" /\ EngineOK(eng'[s])
            /\ \A r \in Requests : Unseen(s, r) => Unseen(s, r)'
            /\ down' = IF s + 1 = LastStage THEN Rest(s) ELSE [Rest(s) EXCEPT ![s] = Append(@, f)]
  <2>1. TokDone(s, f)
    BY <1>1, TokEffect
  <2> QED BY <2>1 DEF TokDone
<1>3. s \in Stages /\ s # 0 /\ TypeInv /\ EngineOK(eng[s]) /\ rows[s] \in Seq(Requests)
  BY StageFacts DEF BaseInv, EngineInv, TypeInv
<1>4. down' = Rest(s) \/ (s # LastStage /\ down' = [Rest(s) EXCEPT ![s] = Append(@, f)])
  BY <1>2
<1>5. down' = [u \in Links |-> down'[u]] /\ \A u \in Links : Line(down'[u])
  BY <1>2, <1>3, <1>4, FollowerLinks
<1>6. /\ pc'[s] \in {"loop", "ctl", "hr", "tok", "dead"} /\ pc'[s] # "loop" /\ pc'[s] # "tok"
      /\ rows'[s] \in Seq(Requests) /\ EngineOK(eng'[s])
      /\ pc'[s] \in {"hr", "tok"} => ToSet(rows'[s]) \subseteq ToSet(eng'[s].running)
  BY <1>2, <1>3
<1>7. TypeInv' /\ EngineInv'
  BY <1>2, <1>3, <1>5, <1>6, OneStage DEF TypeInv
<1>8. \A t \in Stages : t # s => eng'[t] = eng[t]
  BY <1>2 DEF Others
<1>9. \A r \in Requests : Unseen(s, r) /\ ~(f.tag = "ctl" /\ r \in ToSet(f.admits)) => Unseen(s, r)'
  BY <1>2 DEF Unseen
<1>10. ArrivalInv'
  BY <1>1, <1>2, <1>4, <1>8, <1>9, ArriveFollower
<1> QED BY <1>7, <1>10 DEF BaseInv

LEMMA InboxUnseen ==
  ASSUME BaseInv
  PROVE  \A r \in ToSet(inbox) : r \in Requests /\ Unseen(0, r)
<1>1. ArrivalInv /\ 0 \in Stages
  BY StageFacts DEF BaseInv
<1>2. \A r \in ToSet(inbox) : r \in Requests
  BY <1>1 DEF ArrivalInv, ToSet
<1> QED BY <1>1, <1>2 DEF ArrivalInv, Awaited

LEMMA BaseEmit ==
  ASSUME BaseInv, NEW f, f.tag = "ctl", f.step, f.admits \in Seq(Requests), IsInjective(f.admits),
         ToSet(f.admits) \subseteq ToSet(inbox), inbox' = <<>> \/ (inbox' = inbox /\ f.admits = <<>>),
         NEW outcome, Emit(f, outcome),
         pc' = [t \in Stages |-> pc'[t]], \A t \in Stages : t # 0 => pc'[t] = pc[t],
         pc'[0] \in {"loop", "tok"}, pc'[0] = "tok" => mode = 0 /\ outcome = "stepped",
         mode' = mode, failed' \in Nat, client' \in [Requests -> {"new", "open", "gone", "done"}],
         \A r \in Requests : client'[r] = "new" <=> client[r] = "new",
         UNCHANGED <<ring, told>>, rowQ' = [w \in Waves |-> rowQ'[w]], \A w \in Waves : Line(rowQ'[w]),
         outstanding' \in [Waves -> BOOLEAN]
  PROVE  BaseInv'
<1>1. /\ TypeInv /\ ArrivalInv /\ 0 \in Stages /\ mode \in Nat
      /\ \A r \in ToSet(f.admits) : Unseen(0, r)
  BY InboxUnseen, StageFacts, SpliceAssumption DEF BaseInv, TypeInv
<1>2. PICK g : g = Hr(f.wave, rows'[0], weights'[0])
  OBVIOUS
<1>3. /\ Others(0) /\ EngineOK(eng'[0]) /\ rows'[0] \in Seq(Requests)
      /\ down' = [down EXCEPT ![0] = IF outcome # "raised" /\ rows'[0] # <<>> THEN Append(Append(@, f), g) ELSE Append(@, f)]
      /\ \A r \in Requests : Unseen(0, r) /\ r \notin ToSet(f.admits) => Unseen(0, r)'
      /\ outcome = "stepped" => (mode = 0 => ToSet(rows'[0]) \subseteq ToSet(eng'[0].running))
  <2>1. EmitDone(f, outcome)
    BY <1>1, EmitEffect
  <2> QED BY <1>2, <2>1 DEF EmitDone
<1>4. \/ down' = [down EXCEPT ![0] = Append(@, f)]
      \/ down' = [down EXCEPT ![0] = Append(Append(@, f), g)]
  BY <1>3
<1>5. g.tag # "ctl"
  BY <1>2 DEF Hr
<1>6. /\ down' = [u \in Links |-> down'[u]] /\ \A u \in Links : Line(down'[u])
      /\ \A u \in Links : \A i \in DOMAIN down'[u] :
           \/ i \in DOMAIN down[u] /\ down'[u][i] = down[u][i]
           \/ down'[u][i].tag # "ctl"
           \/ u = 0 /\ i = Len(down[0]) + 1 /\ down'[u][i] = f
  <2>1. /\ down' = [u \in Links |-> down'[u]] /\ \A u \in Links : Line(down'[u])
        /\ \A u \in Links : \A i \in DOMAIN down'[u] :
             \/ i \in DOMAIN down[u] /\ down'[u][i] = down[u][i]
             \/ u = 0 /\ i = Len(down[0]) + 1 /\ down'[u][i] = f
             \/ /\ u = 0 /\ i = Len(down[0]) + 2 /\ i = Len(down'[0]) /\ down'[u][i] = g
                /\ down' = [down EXCEPT ![0] = Append(Append(@, f), g)]
    BY ONLY <1>1, <1>4, FirstLinks
  <2>2. ASSUME NEW u \in Links, NEW i \in DOMAIN down'[u]
        PROVE  \/ i \in DOMAIN down[u] /\ down'[u][i] = down[u][i]
               \/ down'[u][i].tag # "ctl"
               \/ u = 0 /\ i = Len(down[0]) + 1 /\ down'[u][i] = f
    BY <2>1, <1>5
  <2> QED BY <2>1, <2>2
<1>7. TypeInv' /\ EngineInv'
  <2>1. /\ pc'[0] \in {"loop", "ctl", "hr", "tok", "dead"} /\ (mode > 0 => pc'[0] # "tok")
        /\ pc'[0] \in {"hr", "tok"} => ToSet(rows'[0]) \subseteq ToSet(eng'[0].running)
    BY <1>1, <1>3
  <2>2. /\ mode' \in Modes
        /\ pc' \in [Stages -> {"loop", "ctl", "hr", "tok", "dead"}] /\ pc'[0] \in {"loop", "tok"}
        /\ \A t \in Followers : pc'[t] # "loop"
        /\ mode' > 0 => \A t \in Stages : pc'[t] # "tok"
        /\ eng' = [t \in Stages |-> eng'[t]] /\ waveOf' = [t \in Stages |-> waveOf'[t]]
        /\ rows' \in [Stages -> Seq(Requests)] /\ weights' = [t \in Stages |-> weights'[t]]
        /\ EngineInv'
    BY <1>1, <1>3, <2>1, OneStage
  <2> QED BY <1>1, <1>6, <2>2 DEF TypeInv
<1>8. /\ inbox' \in Seq(Requests) /\ IsInjective(inbox') /\ ToSet(inbox') \subseteq ToSet(inbox)
      /\ ToSet(f.admits) \cap ToSet(inbox') = {}
  BY <1>1, EmptyFacts DEF ArrivalInv
<1>9. \A t \in Stages : t # 0 => eng'[t] = eng[t]
  BY <1>3 DEF Others
<1>10. \A r \in Requests : Unseen(0, r) /\ ~(f.tag = "ctl" /\ r \in ToSet(f.admits)) => Unseen(0, r)'
  BY <1>3
<1>11. ArrivalInv'
  BY <1>6, <1>8, <1>9, <1>10, ArriveFirst
<1> QED BY <1>7, <1>11 DEF BaseInv

\* The frames of stage 0 admit what waits, or nothing.
LEMMA AdmitsFacts ==
  ASSUME BaseInv, NEW admits, admits = inbox \/ admits = <<>>
  PROVE  admits \in Seq(Requests) /\ IsInjective(admits) /\ ToSet(admits) \subseteq ToSet(inbox)
<1>1. inbox \in Seq(Requests) /\ IsInjective(inbox)
  BY DEF BaseInv, ArrivalInv
<1> QED BY <1>1, EmptyFacts

\* Clients change, but those that are new stay so.
LEMMA ClientsTyped ==
  ASSUME TypeInv, NEW S, client' = [r \in Requests |-> IF client[r] = "open" /\ r \in S THEN "done" ELSE client[r]]
  PROVE  /\ client' \in [Requests -> {"new", "open", "gone", "done"}]
         /\ \A r \in Requests : client'[r] = "new" <=> client[r] = "new"
  BY DEF TypeInv

LEMMA BaseLockstepStep ==
  ASSUME BaseInv, LockstepStep
  PROVE  BaseInv'
<1>1. PICK f : f = Frame(inbox, TRUE, aborts, NoWave)
  OBVIOUS
<1>2. /\ f.tag = "ctl" /\ f.step /\ f.admits \in Seq(Requests) /\ IsInjective(f.admits) /\ ToSet(f.admits) \subseteq ToSet(inbox)
  <2>1. f.tag = "ctl" /\ f.step /\ f.admits = inbox
    BY <1>1 DEF Frame
  <2> QED BY <2>1, AdmitsFacts
<1>3. /\ Emit(f, "stepped") /\ mode = 0 /\ inbox' = <<>> /\ pc' = [pc EXCEPT ![0] = IF rows'[0] = <<>> THEN "loop" ELSE "tok"]
      /\ UNCHANGED <<mode, client, ring, told, failed, rowQ, outstanding>>
  BY <1>1 DEF LockstepStep, LockstepFrame, MayStep, waves
<1>4. 0 \in Stages /\ TypeInv
  BY StageFacts DEF BaseInv
<1>5. pc' = [t \in Stages |-> pc'[t]] /\ (\A t \in Stages : t # 0 => pc'[t] = pc[t]) /\ pc'[0] \in {"loop", "tok"}
  BY <1>3, <1>4 DEF TypeInv
<1>6. failed' \in Nat /\ client' \in [Requests -> {"new", "open", "gone", "done"}]
      /\ rowQ' = [w \in Waves |-> rowQ'[w]] /\ (\A w \in Waves : Line(rowQ'[w])) /\ outstanding' \in [Waves -> BOOLEAN]
  BY <1>3, <1>4 DEF TypeInv
<1> QED BY <1>2, <1>3, <1>5, <1>6, BaseEmit

LEMMA BaseLockstepFails ==
  ASSUME BaseInv, LockstepFails
  PROVE  BaseInv'
<1>1. PICK f : f = Frame(inbox, TRUE, aborts, NoWave)
  OBVIOUS
<1>2. /\ f.tag = "ctl" /\ f.step /\ f.admits \in Seq(Requests) /\ IsInjective(f.admits) /\ ToSet(f.admits) \subseteq ToSet(inbox)
  <2>1. f.tag = "ctl" /\ f.step /\ f.admits = inbox
    BY <1>1 DEF Frame
  <2> QED BY <2>1, AdmitsFacts
<1>3. /\ Emit(f, "raised") /\ inbox' = <<>> /\ pc' = pc /\ pc[0] = "loop" /\ failed' = failed + 1
      /\ client' = [r \in Requests |-> IF client[r] = "open" /\ r \in ToSet(inbox) THEN "done" ELSE client[r]]
      /\ UNCHANGED <<mode, ring, told, rowQ, outstanding>>
  BY <1>1 DEF LockstepFails, LockstepFrame, MayStep, Raises, waves
<1>4. 0 \in Stages /\ TypeInv
  BY StageFacts DEF BaseInv
<1>5. pc' = [t \in Stages |-> pc'[t]] /\ (\A t \in Stages : t # 0 => pc'[t] = pc[t]) /\ pc'[0] = "loop"
  BY <1>3, <1>4 DEF TypeInv
<1>6. failed' \in Nat
      /\ rowQ' = [w \in Waves |-> rowQ'[w]] /\ (\A w \in Waves : Line(rowQ'[w])) /\ outstanding' \in [Waves -> BOOLEAN]
  BY <1>3, <1>4 DEF TypeInv
<1>7. /\ client' \in [Requests -> {"new", "open", "gone", "done"}]
      /\ \A r \in Requests : client'[r] = "new" <=> client[r] = "new"
  BY <1>3, <1>4, ClientsTyped
<1> QED BY <1>2, <1>3, <1>5, <1>6, <1>7, BaseEmit

LEMMA JoiningIs == \A w : Joining(w) = inbox \/ Joining(w) = <<>>
  BY DEF Joining

LEMMA BaseStepWave ==
  ASSUME BaseInv, NEW w \in Waves, StepWave(w)
  PROVE  BaseInv'
<1>1. PICK f : f = Frame(Joining(w), TRUE, byWave[w], w)
  OBVIOUS
<1>2. /\ f.tag = "ctl" /\ f.step /\ f.admits = Joining(w)
      /\ f.admits \in Seq(Requests) /\ IsInjective(f.admits) /\ ToSet(f.admits) \subseteq ToSet(inbox)
  <2>1. f.tag = "ctl" /\ f.step /\ f.admits = Joining(w)
    BY <1>1 DEF Frame
  <2> QED BY <2>1, AdmitsFacts, JoiningIs
<1>3. /\ Emit(f, "stepped") /\ mode > 0 /\ inbox' = (IF Joining(w) = <<>> THEN inbox ELSE <<>>)
      /\ rowQ' = [rowQ EXCEPT ![w] = Queued(w, rows'[0])]
      /\ outstanding' = [outstanding EXCEPT ![w] = InFlight(rows'[0])]
      /\ pc[0] = "loop" /\ UNCHANGED <<mode, client, pc, ring, told, failed>>
  BY <1>1 DEF StepWave, WaveFrame, MayStepWave, TakenFrom
<1>4. 0 \in Stages /\ TypeInv
  BY StageFacts DEF BaseInv
<1>5. pc' = [t \in Stages |-> pc'[t]] /\ (\A t \in Stages : t # 0 => pc'[t] = pc[t]) /\ pc'[0] = "loop"
  BY <1>3, <1>4 DEF TypeInv
<1>6. /\ failed' \in Nat /\ client' \in [Requests -> {"new", "open", "gone", "done"}]
      /\ rowQ' = [v \in Waves |-> rowQ'[v]] /\ outstanding' \in [Waves -> BOOLEAN]
  BY <1>3, <1>4 DEF TypeInv, InFlight
<1>7. \A v \in Waves : Line(rowQ'[v])
  <2>1. Line(rowQ[w]) /\ Line(Append(rowQ[w], rows'[0]))
    BY <1>4, LineMore DEF TypeInv
  <2>2. Line(Queued(w, rows'[0]))
    BY <2>1 DEF Queued
  <2> QED BY <1>3, <1>4, <2>2 DEF TypeInv
<1>8. inbox' = <<>> \/ (inbox' = inbox /\ f.admits = <<>>)
  BY <1>2, <1>3
<1> QED BY <1>2, <1>3, <1>5, <1>6, <1>7, <1>8, BaseEmit

LEMMA BaseStepWaveFails ==
  ASSUME BaseInv, NEW w \in Waves, StepWaveFails(w)
  PROVE  BaseInv'
<1>1. PICK f : f = Frame(Joining(w), TRUE, byWave[w], w)
  OBVIOUS
<1>2. /\ f.tag = "ctl" /\ f.step /\ f.admits = Joining(w)
      /\ f.admits \in Seq(Requests) /\ IsInjective(f.admits) /\ ToSet(f.admits) \subseteq ToSet(inbox)
  <2>1. f.tag = "ctl" /\ f.step /\ f.admits = Joining(w)
    BY <1>1 DEF Frame
  <2> QED BY <2>1, AdmitsFacts, JoiningIs
<1>3. PICK outcome \in {"raised", "shipped"} :
        /\ MayStepWave(w) /\ Raises(Joining(w))
        /\ Emit(WaveFrame(w), outcome) /\ TakenFrom(w)
        /\ UNCHANGED <<mode, aborts, pc, ring, live, rowQ, outstanding, nextWave, told, reloads>>
  BY DEF StepWaveFails
<1>4. /\ Emit(f, outcome) /\ inbox' = (IF Joining(w) = <<>> THEN inbox ELSE <<>>)
      /\ pc[0] = "loop" /\ failed' = failed + 1
      /\ client' = [r \in Requests |-> IF client[r] = "open" /\ r \in ToSet(Joining(w)) THEN "done" ELSE client[r]]
      /\ UNCHANGED <<mode, pc, ring, told, rowQ, outstanding>>
  BY <1>1, <1>3 DEF WaveFrame, MayStepWave, TakenFrom, Raises
<1>5. 0 \in Stages /\ TypeInv
  BY StageFacts DEF BaseInv
<1>6. pc' = [t \in Stages |-> pc'[t]] /\ (\A t \in Stages : t # 0 => pc'[t] = pc[t]) /\ pc'[0] = "loop"
  BY <1>4, <1>5 DEF TypeInv
<1>7. /\ failed' \in Nat
      /\ rowQ' = [v \in Waves |-> rowQ'[v]] /\ (\A v \in Waves : Line(rowQ'[v])) /\ outstanding' \in [Waves -> BOOLEAN]
  BY <1>4, <1>5 DEF TypeInv
<1>8. /\ client' \in [Requests -> {"new", "open", "gone", "done"}]
      /\ \A r \in Requests : client'[r] = "new" <=> client[r] = "new"
  BY <1>4, <1>5, ClientsTyped
<1>9. inbox' = <<>> \/ (inbox' = inbox /\ f.admits = <<>>)
  BY <1>2, <1>4
<1> QED BY <1>2, <1>4, <1>6, <1>7, <1>8, <1>9, BaseEmit

\* A line without one of its elements.
LEMMA LineWithout ==
  ASSUME NEW q, Line(q), NEW k \in 1..Len(q)
  PROVE  /\ Line(RemoveAt(q, k)) /\ Len(RemoveAt(q, k)) = Len(q) - 1 /\ DOMAIN RemoveAt(q, k) = 1..(Len(q) - 1)
         /\ \A i \in 1..(Len(q) - 1) : RemoveAt(q, k)[i] = IF i < k THEN q[i] ELSE q[i + 1]
<1>1. q \in Seq(ToSet(q)) /\ Len(q) \in Nat
  BY LineFacts DEF Line
<1>2. /\ SubSeq(q, 1, k - 1) \in Seq(ToSet(q)) /\ SubSeq(q, k + 1, Len(q)) \in Seq(ToSet(q))
      /\ Len(SubSeq(q, 1, k - 1)) = k - 1 /\ Len(SubSeq(q, k + 1, Len(q))) = Len(q) - k
  BY <1>1
<1>3. /\ RemoveAt(q, k) \in Seq(ToSet(q)) /\ Len(RemoveAt(q, k)) = Len(q) - 1
      /\ \A i \in 1..(Len(q) - 1) : RemoveAt(q, k)[i] = IF i < k THEN q[i] ELSE q[i + 1]
  <2>1. PICK a, b : a = SubSeq(q, 1, k - 1) /\ b = SubSeq(q, k + 1, Len(q))
    OBVIOUS
  <2>2. /\ a \in Seq(ToSet(q)) /\ b \in Seq(ToSet(q)) /\ Len(a) = k - 1 /\ Len(b) = Len(q) - k
        /\ \A i \in 1..(k - 1) : a[i] = q[i]
        /\ \A i \in 1..(Len(q) - k) : b[i] = q[i + k]
    BY <1>1, <1>2, <2>1
  <2>3. RemoveAt(q, k) = a \o b
    BY <2>1 DEF RemoveAt
  <2>4. a \o b \in Seq(ToSet(q)) /\ Len(a \o b) = Len(q) - 1
    BY <1>1, <2>2
  <2>5. ASSUME NEW i \in 1..(Len(q) - 1) PROVE (a \o b)[i] = IF i < k THEN q[i] ELSE q[i + 1]
    <3>1. (a \o b)[i] = IF i <= k - 1 THEN a[i] ELSE b[i - (k - 1)]
      BY <1>1, <2>2
    <3>2. CASE i < k
      BY <3>1, <3>2, <2>2, <1>1
    <3>3. CASE ~(i < k)
      <4>1. i - (k - 1) \in 1..(Len(q) - k) /\ (i - (k - 1)) + k = i + 1
        BY <3>3, <1>1
      <4> QED BY <3>1, <3>3, <4>1, <2>2, <1>1
    <3> QED BY <3>2, <3>3
  <2> QED BY <2>3, <2>4, <2>5
<1>4. Line(RemoveAt(q, k))
  BY <1>3, SeqIsLine
<1> QED BY <1>3, <1>4, LineFacts

\* What follows of stage 0 taking f for the tokens of its step, in lockstep.
TokenDone(f) ==
  /\ mode = 0 /\ pc[0] = "tok" /\ ring # <<>> /\ f \in ToSet(ring) /\ f.tag = "tok"
  /\ Others(0) /\ ToSet(rows[0]) \subseteq ToSet(eng[0].running) /\ ring' = Tail(ring)
  /\ UNCHANGED <<mode, inbox, failed, rowQ, outstanding>>
  /\ rows'[0] = rows[0] /\ weights'[0] = weights[0] /\ waveOf'[0] = waveOf[0] /\ pc'[0] = "loop"
  /\ eng'[0] = Book(eng[0], rows[0], Ended(f.toks)) /\ EngineOK(eng'[0])
  /\ \A r \in Requests : Unseen(0, r) => Unseen(0, r)'
  /\ down' = (IF LastStage = 1 THEN down ELSE [down EXCEPT ![0] = Append(@, f)])

LEMMA TokenEffect ==
  ASSUME BaseInv, LockstepToken, NEW f, f = Head(ring)
  PROVE  TokenDone(f)
<1>1. /\ mode = 0 /\ pc[0] = "tok" /\ ring # <<>> /\ ring' = Tail(ring) /\ 0 \in Stages
      /\ down' = IF NextIsLast(0) THEN down ELSE [down EXCEPT ![0] = Append(@, f)]
      /\ eng' = [eng EXCEPT ![0] = Book(eng[0], rows[0], Ended(f.toks))]
      /\ pc' = [pc EXCEPT ![0] = "loop"]
      /\ UNCHANGED <<mode, inbox, waveOf, rows, weights, failed, rowQ, outstanding>>
  BY StageFacts DEF LockstepToken, waves
<1>2. TypeInv /\ EngineOK(eng[0]) /\ ToSet(rows[0]) \subseteq ToSet(eng[0].running)
  BY <1>1 DEF BaseInv, EngineInv
<1>3. f \in ToSet(ring) /\ f.tag = "tok"
  BY <1>1, <1>2, LineLess DEF TypeInv
<1>4. Others(0) /\ pc'[0] = "loop" /\ eng'[0] = Book(eng[0], rows[0], Ended(f.toks))
  BY <1>1, <1>2 DEF Others, TypeInv
<1>5. EngineOK(eng'[0]) /\ \A r \in Requests : Unseen(0, r) => Unseen(0, r)'
  BY <1>4, <1>2, BookFacts DEF Unseen, Inside
<1>6. NextIsLast(0) <=> LastStage = 1
  BY DEF NextIsLast
<1> QED BY <1>1, <1>2, <1>3, <1>4, <1>5, <1>6 DEF TokenDone

\* Stage 0 tells the clients of their tokens.
LEMMA TellEffect ==
  ASSUME TypeInv, NEW toks, NEW done, Tell(toks, done)
  PROVE  /\ told' = [r \in Requests |-> told'[r]] /\ \A r \in Requests : Line(told'[r])
         /\ client' \in [Requests -> {"new", "open", "gone", "done"}]
         /\ \A r \in Requests : client'[r] = "new" <=> client[r] = "new"
         /\ \A r \in Requests : \/ told'[r] = told[r]
                                \/ (\E t \in toks : t.of = r) /\ \E t : told'[r] = Append(told[r], t)
<1>1. /\ told' = [r \in Requests |-> IF \E t \in toks : t.of = r
                                     THEN Append(told[r], CHOOSE t \in toks : t.of = r) ELSE told[r]]
      /\ client' = [r \in Requests |-> IF client[r] = "open" /\ r \in done THEN "done" ELSE client[r]]
  BY DEF Tell
<1>2. \A r \in Requests : \/ told'[r] = told[r]
                          \/ (\E t \in toks : t.of = r) /\ \E t : told'[r] = Append(told[r], t)
  BY <1>1
<1>3. \A r \in Requests : Line(told[r])
  BY DEF TypeInv
<1>4. ASSUME NEW r \in Requests PROVE Line(told'[r])
  <2>1. CASE told'[r] = told[r]
    BY <2>1, <1>3
  <2>2. ASSUME NEW t, told'[r] = Append(told[r], t) PROVE Line(told'[r])
    BY <2>2, <1>3, LineMore
  <2> QED BY <1>2, <2>1, <2>2
<1> QED BY <1>1, <1>2, <1>4, ClientsTyped

\* Stage 0 sends one frame.
LEMMA OneMore ==
  ASSUME TypeInv, NEW f, down' = [down EXCEPT ![0] = Append(@, f)]
  PROVE  /\ down' = [u \in Links |-> down'[u]] /\ \A u \in Links : Line(down'[u])
         /\ down'[0] = Append(down[0], f) /\ \A u \in Links : u # 0 => down'[u] = down[u]
         /\ \A u \in Links : \A i \in DOMAIN down'[u] :
              \/ i \in DOMAIN down[u] /\ down'[u][i] = down[u][i]
              \/ u = 0 /\ i = Len(down[0]) + 1 /\ down'[u][i] = f
<1>2. 0 \in Links /\ down = [u \in Links |-> down[u]] /\ \A u \in Links : Line(down[u])
  BY StageFacts DEF TypeInv
<1>3. /\ down' = [u \in Links |-> down'[u]] /\ down'[0] = Append(down[0], f)
      /\ \A u \in Links : u # 0 => down'[u] = down[u]
  BY <1>2
<1>4. /\ Line(Append(down[0], f)) /\ Len(down[0]) \in Nat /\ DOMAIN down[0] = 1..Len(down[0])
      /\ DOMAIN Append(down[0], f) = 1..(Len(down[0]) + 1)
      /\ Append(down[0], f)[Len(down[0]) + 1] = f
      /\ \A i \in 1..Len(down[0]) : Append(down[0], f)[i] = down[0][i]
  BY <1>2, LineMore
<1>5. \A i \in 1..(Len(down[0]) + 1) : i = Len(down[0]) + 1 \/ i \in 1..Len(down[0])
  BY <1>4
<1>6. \A u \in Links : Line(down'[u])
  BY <1>2, <1>3, <1>4
<1>7. ASSUME NEW u \in Links, NEW i \in DOMAIN down'[u]
      PROVE  \/ i \in DOMAIN down[u] /\ down'[u][i] = down[u][i]
             \/ u = 0 /\ i = Len(down[0]) + 1 /\ down'[u][i] = f
  BY <1>3, <1>4, <1>5, <1>7
<1> QED BY <1>3, <1>6, <1>7

LEMMA BaseToken ==
  ASSUME BaseInv, LockstepToken
  PROVE  BaseInv'
<1>1. PICK f : f = Head(ring)
  OBVIOUS
<1>1a. TokenDone(f)
  BY <1>1, TokenEffect
<1>2. /\ mode = 0 /\ f.tag = "tok" /\ ring # <<>> /\ Others(0) /\ ring' = Tail(ring)
      /\ UNCHANGED <<mode, inbox, failed, rowQ, outstanding>>
      /\ rows'[0] = rows[0] /\ pc'[0] = "loop" /\ EngineOK(eng'[0])
      /\ \A r \in Requests : Unseen(0, r) => Unseen(0, r)'
      /\ down' = (IF LastStage = 1 THEN down ELSE [down EXCEPT ![0] = Append(@, f)])
  BY <1>1a DEF TokenDone
<1>3. 0 \in Stages /\ TypeInv /\ rows[0] \in Seq(Requests) /\ ArrivalInv
  BY StageFacts DEF BaseInv, TypeInv
<1>4. /\ told' = [r \in Requests |-> told'[r]] /\ \A r \in Requests : Line(told'[r])
      /\ client' \in [Requests -> {"new", "open", "gone", "done"}]
      /\ \A r \in Requests : client'[r] = "new" <=> client[r] = "new"
  <2>1. \E toks, done : Tell(toks, done)
    BY DEF LockstepToken
  <2> QED BY <2>1, <1>3, TellEffect
<1>5. /\ down' = [u \in Links |-> down'[u]] /\ \A u \in Links : Line(down'[u])
      /\ \A u \in Links : \A i \in DOMAIN down'[u] :
           \/ i \in DOMAIN down[u] /\ down'[u][i] = down[u][i]
           \/ u = 0 /\ i = Len(down[0]) + 1 /\ down'[u][i] = f
  <2>1. CASE down' = down
    BY <2>1, <1>3 DEF TypeInv
  <2>2. CASE down' = [down EXCEPT ![0] = Append(@, f)]
    BY <1>3, <2>2, OneMore
  <2> QED BY <1>2, <2>1, <2>2
<1>6. Line(ring') /\ \A i \in DOMAIN ring' : ring'[i].tag = "tok"
  <2>1. Line(ring) /\ \A i \in DOMAIN ring : ring[i].tag = "tok"
    BY <1>3 DEF TypeInv
  <2>2. /\ Line(ring') /\ DOMAIN ring = 1..Len(ring) /\ DOMAIN ring' = 1..(Len(ring) - 1)
        /\ \A i \in 1..(Len(ring) - 1) : i + 1 \in 1..Len(ring) /\ ring'[i] = ring[i + 1]
    BY <1>2, <2>1, LineLess
  <2> QED BY <2>1, <2>2
<1>7. TypeInv' /\ EngineInv'
  BY <1>2, <1>3, <1>4, <1>5, <1>6, OneStage DEF TypeInv
<1>8. \A t \in Stages : t # 0 => eng'[t] = eng[t]
  BY <1>2 DEF Others
<1>9. inbox' \in Seq(Requests) /\ IsInjective(inbox') /\ ToSet(inbox') \subseteq ToSet(inbox) /\ f.tag # "ctl"
  BY <1>2, <1>3 DEF ArrivalInv
<1>10. \A r \in Requests : Unseen(0, r) /\ ~(f.tag = "ctl" /\ r \in ToSet(f.admits)) => Unseen(0, r)'
  BY <1>2
<1>11. BaseInv
  OBVIOUS
<1>12. ArrivalInv'
  BY ONLY <1>4, <1>5, <1>8, <1>9, <1>10, <1>11, ArriveFirst
<1> QED BY <1>7, <1>12 DEF BaseInv

\* What follows of stage 0 sending f while it is idle.
IdleDone(f) ==
  /\ pc[0] = "loop" /\ pc' = pc /\ Others(0) /\ UNCHANGED <<mode, client, inbox, ring, told, failed, rowQ, outstanding>>
  /\ f.tag = "ctl" /\ f.admits = <<>>
  /\ down' = [down EXCEPT ![0] = Append(@, f)]
  /\ EngineOK(eng'[0]) /\ eng'[0].booked = eng[0].booked /\ rows'[0] = rows[0]
  /\ \A r \in Requests : Unseen(0, r) => Unseen(0, r)'
  /\ \A r \in Requests : waveOf'[0][r] \in {waveOf[0][r], NoWave}
  /\ After(View("ctl", eng[0], waveOf[0], rows[0], weights[0]), f) =
       View("ctl", eng'[0], waveOf'[0], rows'[0], weights'[0])

LEMMA IdleEffect ==
  ASSUME BaseInv, Heartbeat
  PROVE  \E f : IdleDone(f)
<1>1. PICK f : f = Frame(<<>>, FALSE, aborts, NoWave)
  OBVIOUS
<1>2. f.tag = "ctl" /\ f.admits = <<>> /\ ~f.step
  BY <1>1 DEF Frame
<1>3. /\ down' = [down EXCEPT ![0] = Append(@, f)]
      /\ eng' = [eng EXCEPT ![0] = Applied(@, f)]
      /\ waveOf' = [waveOf EXCEPT ![0] = Mapped(@, f)]
      /\ weights' = [weights EXCEPT ![0] = Swapped(0, f)]
      /\ pc[0] = "loop" /\ UNCHANGED <<mode, client, inbox, pc, rows, ring, told, failed, rowQ, outstanding>>
  BY <1>1 DEF Heartbeat, Idle, waves
<1>4. 0 \in Stages /\ TypeInv /\ EngineOK(eng[0])
  BY StageFacts DEF BaseInv, EngineInv
<1>5. /\ Others(0) /\ eng'[0] = Applied(eng[0], f) /\ rows'[0] = rows[0]
      /\ waveOf'[0] = Mapped(waveOf[0], f) /\ weights'[0] = Swapped(0, f)
  BY <1>3, <1>4 DEF Others, TypeInv
<1>6. f.admits \in Seq(Requests) /\ IsInjective(f.admits) /\ ToSet(f.admits) = {}
  BY <1>2, EmptyFacts
<1>7. /\ EngineOK(Applied(eng[0], f)) /\ Applied(eng[0], f).booked = eng[0].booked
      /\ Inside(Applied(eng[0], f)) = (Inside(eng[0]) \ ToSet(f.aborts)) \cup ToSet(f.admits)
  BY ONLY <1>4, <1>6, AppliedFacts
<1>8. \A r \in Requests : Unseen(0, r) => Unseen(0, r)'
  BY <1>5, <1>6, <1>7 DEF Unseen
<1>9. \A r \in Requests : waveOf'[0][r] \in {waveOf[0][r], NoWave}
  BY <1>5, <1>6 DEF Mapped
<1>10. After(View("ctl", eng[0], waveOf[0], rows[0], weights[0]), f) =
         View("ctl", Applied(eng[0], f), Mapped(waveOf[0], f), rows[0], Swapped(0, f))
  <2>. DEFINE of == Mapped(waveOf[0], f)
              e  == Applied(eng[0], f)
              own == Mine(of, f.wave)
              sched == Schedule(e, own)
              after == AfterStep(e, own, sched)
  <2>1. \A r \in ToSet(f.admits) : r \notin Inside(eng[0]) /\ eng[0].booked[r] = 0
    BY <1>6
  <2>2. f.tag = "ctl" /\ f.admits \in Seq(Requests) /\ IsInjective(f.admits) /\ EngineOK(eng[0])
    BY <1>2, <1>4, <1>6
  <2>3. After(View("ctl", eng[0], waveOf[0], rows[0], weights[0]), f) =
          IF f.step THEN View(IF sched = <<>> THEN "ctl" ELSE "hr", after, of, sched, Swapped(0, f))
          ELSE View("ctl", e, of, rows[0], Swapped(0, f))
    BY <2>1, <2>2, AfterOfCtl DEF Swapped
  <2>. HIDE DEF own, sched, after
  <2> QED BY <1>2, <2>3
<1>11. IdleDone(f)
  BY <1>2, <1>3, <1>5, <1>7, <1>8, <1>9, <1>10 DEF IdleDone
<1> QED BY <1>11

LEMMA BaseHeartbeat ==
  ASSUME BaseInv, Heartbeat
  PROVE  BaseInv'
<1>1. PICK f : IdleDone(f)
  BY IdleEffect
<1>2. /\ pc[0] = "loop" /\ pc' = pc /\ Others(0) /\ UNCHANGED <<mode, client, inbox, ring, told, failed, rowQ, outstanding>>
      /\ f.tag = "ctl" /\ f.admits = <<>> /\ down' = [down EXCEPT ![0] = Append(@, f)]
      /\ EngineOK(eng'[0]) /\ rows'[0] = rows[0] /\ \A r \in Requests : Unseen(0, r) => Unseen(0, r)'
  BY <1>1 DEF IdleDone
<1>3. 0 \in Stages /\ TypeInv /\ rows[0] \in Seq(Requests) /\ ArrivalInv
  BY StageFacts DEF BaseInv, TypeInv
<1>4. /\ down' = [u \in Links |-> down'[u]] /\ \A u \in Links : Line(down'[u])
      /\ \A u \in Links : \A i \in DOMAIN down'[u] :
           \/ i \in DOMAIN down[u] /\ down'[u][i] = down[u][i]
           \/ u = 0 /\ i = Len(down[0]) + 1 /\ down'[u][i] = f
  BY <1>2, <1>3, OneMore
<1>5. TypeInv' /\ EngineInv'
  BY <1>2, <1>3, <1>4, OneStage DEF TypeInv
<1>6. /\ inbox' \in Seq(Requests) /\ IsInjective(inbox') /\ ToSet(inbox') \subseteq ToSet(inbox)
      /\ f.admits \in Seq(Requests) /\ IsInjective(f.admits) /\ ToSet(f.admits) = {}
      /\ \A r \in Requests : client'[r] = "new" <=> client[r] = "new"
  BY <1>2, <1>3, EmptyFacts DEF ArrivalInv
<1>7. \A t \in Stages : t # 0 => eng'[t] = eng[t]
  BY <1>2 DEF Others
<1>8. \A r \in Requests : Unseen(0, r) /\ ~(f.tag = "ctl" /\ r \in ToSet(f.admits)) => Unseen(0, r)'
  BY <1>2
<1>9. BaseInv
  OBVIOUS
<1>10. ArrivalInv'
  BY ONLY <1>4, <1>6, <1>7, <1>8, <1>9, ArriveFirst
<1> QED BY <1>5, <1>10 DEF BaseInv

\* What follows of stage 0 taking the tokens of wave w.
AbsorbDone(w) ==
  /\ mode > 0 /\ pc[0] = "loop" /\ w \in InMode /\ First(w) \in DOMAIN ring /\ ring[First(w)].wave = w
  /\ ring' = RemoveAt(ring, First(w))
  /\ outstanding' = [outstanding EXCEPT ![w] = FALSE]
  /\ UNCHANGED <<mode, inbox, pc, eng, rows, weights, down, failed>>
  /\ waveOf' = [t \in Stages |-> waveOf'[t]] /\ \A t \in Stages : t # 0 => waveOf'[t] = waveOf[t]
  /\ \/ rowQ[w] = <<>> /\ UNCHANGED <<client, told, rowQ, waveOf>>
     \/ /\ rowQ[w] # <<>> /\ rowQ' = [rowQ EXCEPT ![w] = Tail(@)]
        /\ \E toks, done : Tell(toks, done)
        /\ \A r \in Requests : told'[r] # told[r] => r \in ToSet(Head(rowQ[w])) /\ \E t : told'[r] = Append(told[r], t)
        /\ \A r \in Requests : waveOf'[0][r] # waveOf[0][r] =>
             waveOf'[0][r] = NoWave /\ r \in ToSet(Head(rowQ[w])) /\ Len(told[r]) + 1 >= MaxTokens[r]

\* The first frame of a wave on the ring is one of them.
LEMMA FirstIs ==
  ASSUME TypeInv, NEW w, Arrived(w)
  PROVE  First(w) \in DOMAIN ring /\ ring[First(w)].wave = w
<1>1. Line(ring) /\ DOMAIN ring = 1..Len(ring) /\ Len(ring) \in Nat
  BY LineFacts DEF TypeInv
<1>. DEFINE T == {j \in 1..Len(ring) : ring[j].wave = w}
<1>2. T \in SUBSET Nat /\ T # {}
  BY <1>1 DEF Arrived
<1>3. PICK n \in T : \A k \in T : n <= k
  <2>. HIDE DEF T
  <2> QED BY <1>2, LeastOf
<1>4. ASSUME NEW k \in 1..(n - 1) PROVE ring[k].wave # w
  <2>1. n \in 1..Len(ring) /\ k \in 1..Len(ring) /\ ~(n <= k)
    BY <1>1, <1>3
  <2>2. k \notin T
    BY <1>3, <2>1
  <2> QED BY <2>1, <2>2
<1>5. \E j \in DOMAIN ring : ring[j].wave = w /\ \A k \in 1..(j - 1) : ring[k].wave # w
  BY <1>1, <1>3, <1>4
<1> QED BY <1>5 DEF First

\* The rows name the tokens.
LEMMA NamedRows ==
  ASSUME NEW names, NEW toks, NEW t \in ToSet(Named(names, toks))
  PROVE  t.of \in ToSet(names)
  BY DEF Named, ToSet

LEMMA AbsorbEffect ==
  ASSUME BaseInv, NEW w \in Waves, Absorb(w)
  PROVE  AbsorbDone(w)
<1>1. TypeInv /\ 0 \in Stages
  BY StageFacts DEF BaseInv
<1>2. /\ mode > 0 /\ pc[0] = "loop" /\ w \in InMode /\ Arrived(w)
      /\ ring' = RemoveAt(ring, First(w)) /\ outstanding' = [outstanding EXCEPT ![w] = FALSE]
      /\ UNCHANGED <<mode, inbox, pc, eng, rows, weights, down, failed>>
  BY DEF Absorb
<1>3. First(w) \in DOMAIN ring /\ ring[First(w)].wave = w
  BY <1>1, <1>2, FirstIs
<1>4. CASE rowQ[w] = <<>>
  <2>1. UNCHANGED <<client, told, rowQ, waveOf>>
    BY <1>4 DEF Absorb
  <2>2. waveOf' = [t \in Stages |-> waveOf'[t]] /\ \A t \in Stages : t # 0 => waveOf'[t] = waveOf[t]
    BY <2>1, <1>1 DEF TypeInv
  <2> QED BY <1>2, <1>3, <1>4, <2>1, <2>2 DEF AbsorbDone
<1>5. CASE rowQ[w] # <<>>
  <2>. DEFINE all == Named(Head(rowQ[w]), ring[First(w)].toks)
              named == {t \in ToSet(all) : t.of \in live[w]}
              length == {t.of : t \in {u \in named : LengthDone(u.of, Len(told[u.of]) + 1)}}
              ended == {t.of : t \in {u \in named : u.eos}}
  <2>1. /\ rowQ' = [rowQ EXCEPT ![w] = Tail(@)] /\ Tell(named, length \cup ended)
        /\ waveOf' = [waveOf EXCEPT ![0] = Unmapped(@, length, ended)]
    BY <1>5 DEF Absorb
  <2>2. \A t \in named : t.of \in ToSet(Head(rowQ[w]))
    BY NamedRows
  <2>3. \A r \in length : r \in ToSet(Head(rowQ[w])) /\ Len(told[r]) + 1 >= MaxTokens[r]
    BY <2>2 DEF LengthDone
  <2>. HIDE DEF named, length, ended
  <2>4. \A r \in Requests : \/ told'[r] = told[r]
                            \/ (\E t \in named : t.of = r) /\ \E t : told'[r] = Append(told[r], t)
    BY ONLY <1>1, <2>1, TellEffect
  <2>5. \A r \in Requests : told'[r] # told[r] => r \in ToSet(Head(rowQ[w])) /\ \E t : told'[r] = Append(told[r], t)
    BY <2>2, <2>4
  <2>6. /\ waveOf' = [t \in Stages |-> waveOf'[t]] /\ \A t \in Stages : t # 0 => waveOf'[t] = waveOf[t]
        /\ waveOf'[0] = Unmapped(waveOf[0], length, ended)
    BY <1>1, <2>1 DEF TypeInv
  <2>7. \A r \in Requests : waveOf'[0][r] # waveOf[0][r] =>
          waveOf'[0][r] = NoWave /\ r \in ToSet(Head(rowQ[w])) /\ Len(told[r]) + 1 >= MaxTokens[r]
    BY <2>3, <2>6 DEF Unmapped
  <2> QED BY <1>2, <1>3, <1>5, <2>1, <2>5, <2>6, <2>7 DEF AbsorbDone
<1> QED BY <1>4, <1>5

\* Nothing arrives at a stage.
LEMMA ArriveSame ==
  ASSUME ArrivalInv, inbox' \in Seq(Requests), IsInjective(inbox'), down' = down,
         \A r \in Requests : Awaited(r)' => Awaited(r) /\ ~(client'[r] = "new" /\ r \in ToSet(inbox')),
         \A r \in Requests : \A s \in Stages : Unseen(s, r) => Unseen(s, r)'
  PROVE  ArrivalInv'
<1>1. \A r : \A s \in Links : \A i : Brings(s, i, r)' <=> Brings(s, i, r)
  BY DEF Brings
<1>2. \A s \in Links : \A i \in DOMAIN down'[s] :
        down'[s][i].tag = "ctl" => down'[s][i].admits \in Seq(Requests) /\ IsInjective(down'[s][i].admits)
  BY DEF ArrivalInv
<1>3. ASSUME NEW r \in Requests, Awaited(r)'
      PROVE  /\ ~(client'[r] = "new" /\ r \in ToSet(inbox'))
             /\ \A s \in Stages : Unseen(s, r)'
             /\ \A s \in Links : \A i \in DOMAIN down'[s] : ~Brings(s, i, r)'
  BY <1>1, <1>3 DEF ArrivalInv
<1>4. ASSUME NEW s \in Links, NEW i \in DOMAIN down'[s], NEW r \in Requests, Brings(s, i, r)'
      PROVE  /\ \A t \in (s + 1)..LastStage : Unseen(t, r)'
             /\ \A t \in Links : \A j \in DOMAIN down'[t] : Brings(t, j, r)' => t = s /\ j = i
  <2>1. Brings(s, i, r) /\ i \in DOMAIN down[s]
    BY <1>1, <1>4
  <2>2. \A t \in (s + 1)..LastStage : t \in Stages
    BY StageFacts DEF Stages, Links
  <2> QED BY <1>1, <2>1, <2>2 DEF ArrivalInv
<1> QED BY <1>2, <1>3, <1>4 DEF ArrivalInv

LEMMA BaseAbsorb ==
  ASSUME BaseInv, NEW w \in Waves, Absorb(w)
  PROVE  BaseInv'
<1>1. /\ mode > 0 /\ First(w) \in DOMAIN ring /\ ring' = RemoveAt(ring, First(w))
      /\ outstanding' = [outstanding EXCEPT ![w] = FALSE]
      /\ UNCHANGED <<mode, inbox, pc, eng, rows, weights, down, failed>>
      /\ waveOf' = [t \in Stages |-> waveOf'[t]]
      /\ \/ rowQ[w] = <<>> /\ UNCHANGED <<client, told, rowQ, waveOf>>
         \/ rowQ[w] # <<>> /\ rowQ' = [rowQ EXCEPT ![w] = Tail(@)] /\ \E toks, done : Tell(toks, done)
  BY AbsorbEffect DEF AbsorbDone
<1>2. TypeInv /\ EngineInv /\ ArrivalInv
  BY DEF BaseInv
<1>3. /\ told' = [r \in Requests |-> told'[r]] /\ \A r \in Requests : Line(told'[r])
      /\ client' \in [Requests -> {"new", "open", "gone", "done"}]
      /\ \A r \in Requests : client'[r] = "new" <=> client[r] = "new"
  <2>1. CASE UNCHANGED <<client, told>>
    BY <1>2, <2>1 DEF TypeInv
  <2>2. ASSUME NEW toks, NEW done, Tell(toks, done)
        PROVE  /\ told' = [r \in Requests |-> told'[r]] /\ \A r \in Requests : Line(told'[r])
               /\ client' \in [Requests -> {"new", "open", "gone", "done"}]
               /\ \A r \in Requests : client'[r] = "new" <=> client[r] = "new"
    BY ONLY <1>2, <2>2, TellEffect
  <2> QED BY <1>1, <2>1, <2>2
<1>4. Line(ring') /\ \A i \in DOMAIN ring' : ring'[i].tag = "tok"
  <2>1. Line(ring) /\ (\A i \in DOMAIN ring : ring[i].tag = "tok") /\ DOMAIN ring = 1..Len(ring) /\ Len(ring) \in Nat
    BY <1>2, LineFacts DEF TypeInv
  <2>2. /\ Line(ring') /\ DOMAIN ring' = 1..(Len(ring) - 1)
        /\ \A i \in 1..(Len(ring) - 1) : ring'[i] = IF i < First(w) THEN ring[i] ELSE ring[i + 1]
    BY <1>1, <2>1, LineWithout
  <2>3. \A i \in 1..(Len(ring) - 1) : i \in 1..Len(ring) /\ i + 1 \in 1..Len(ring)
    BY <2>1
  <2> QED BY <2>1, <2>2, <2>3
<1>5. rowQ' = [v \in Waves |-> rowQ'[v]] /\ \A v \in Waves : Line(rowQ'[v])
  <2>1. CASE rowQ' = rowQ
    BY <1>2, <2>1 DEF TypeInv
  <2>2. CASE rowQ[w] # <<>> /\ rowQ' = [rowQ EXCEPT ![w] = Tail(@)]
    <3>1. Line(Tail(rowQ[w]))
      BY <1>2, <2>2, LineLess DEF TypeInv
    <3> QED BY <1>2, <2>2, <3>1 DEF TypeInv
  <2> QED BY <1>1, <2>1, <2>2
<1>6. outstanding' \in [Waves -> BOOLEAN]
  BY <1>1, <1>2 DEF TypeInv
<1>7. TypeInv'
  BY <1>1, <1>2, <1>3, <1>4, <1>5, <1>6 DEF TypeInv
<1>8. EngineInv'
  BY <1>1, <1>2 DEF EngineInv
<1>9. ArrivalInv'
  <2>1. \A r \in Requests : \A s \in Stages : Unseen(s, r) => Unseen(s, r)'
    BY <1>1 DEF Unseen
  <2>2. inbox' \in Seq(Requests) /\ IsInjective(inbox') /\ down' = down /\ ArrivalInv
    BY <1>1, <1>2 DEF ArrivalInv
  <2>3. \A r \in Requests : Awaited(r)' => Awaited(r) /\ ~(client'[r] = "new" /\ r \in ToSet(inbox'))
    BY <1>1, <1>2, <1>3 DEF Awaited, ArrivalInv
  <2> QED BY ONLY <2>1, <2>2, <2>3, ArriveSame
<1> QED BY <1>7, <1>8, <1>9 DEF BaseInv

\* The engines and the links stay as they are.
Quiet ==
  UNCHANGED <<mode, pc, eng, waveOf, rows, weights, down, ring, told, rowQ, outstanding, failed>>

LEMMA BaseQuiet ==
  ASSUME BaseInv, Quiet, client' \in [Requests -> {"new", "open", "gone", "done"}],
         inbox' \in Seq(Requests), IsInjective(inbox'),
         \A r \in Requests : Awaited(r)' => Awaited(r) /\ ~(client'[r] = "new" /\ r \in ToSet(inbox'))
  PROVE  BaseInv'
<1>1. TypeInv'
  BY DEF BaseInv, TypeInv, Quiet
<1>2. EngineInv'
  BY DEF BaseInv, EngineInv, Quiet
<1>3. \A r \in Requests : \A s \in Stages : Unseen(s, r) => Unseen(s, r)'
  BY DEF Unseen, Quiet
<1>4. down' = down /\ ArrivalInv
  BY DEF BaseInv, Quiet
<1>5. ArrivalInv'
  BY <1>3, <1>4, ArriveSame
<1> QED BY <1>1, <1>2, <1>5 DEF BaseInv

\* A line whose head goes to its end holds what it held.
LEMMA Turned ==
  ASSUME NEW q \in Seq(Requests), q # <<>>, IsInjective(q)
  PROVE  /\ Append(Tail(q), Head(q)) \in Seq(Requests) /\ IsInjective(Append(Tail(q), Head(q)))
         /\ ToSet(Append(Tail(q), Head(q))) = ToSet(q)
<1>1. PICK n \in Nat : n = Len(q)
  OBVIOUS
<1>2. PICK p : p = Append(Tail(q), Head(q))
  OBVIOUS
<1>3. n > 0 /\ DOMAIN q = 1..n /\ \A i \in 1..n : q[i] \in Requests
  BY <1>1
<1>4. /\ p \in Seq(Requests) /\ Len(p) = n /\ DOMAIN p = 1..n
      /\ \A i \in 1..n : p[i] = IF i = n THEN q[1] ELSE q[i + 1]
  BY <1>1, <1>2
<1>5. ASSUME NEW i \in 1..n, NEW j \in 1..n, p[i] = p[j] PROVE i = j
  <2>1. \A k \in 1..n : k # n => k + 1 \in 1..n /\ k + 1 # 1
    BY <1>1
  <2>2. \A k, m \in 1..n : q[k] = q[m] => k = m
    BY <1>3 DEF IsInjective
  <2> QED BY <1>3, <1>4, <1>5, <2>1, <2>2
<1>6. IsInjective(p)
  BY <1>4, <1>5 DEF IsInjective
<1>7. ToSet(p) \subseteq ToSet(q)
  BY <1>3, <1>4, SMTT(30) DEF ToSet
<1>8. ASSUME NEW i \in 1..n PROVE \E j \in 1..n : p[j] = q[i]
  <2>1. CASE i = 1
    BY <2>1, <1>3, <1>4
  <2>2. CASE i # 1
    <3>1. i - 1 \in 1..n /\ i - 1 # n /\ (i - 1) + 1 = i
      BY <2>2
    <3> QED BY <3>1, <1>4
  <2> QED BY <2>1, <2>2
<1>9. ASSUME NEW r \in ToSet(q) PROVE r \in ToSet(p)
  <2>1. PICK i \in 1..n : r = q[i]
    BY <1>3 DEF ToSet
  <2>2. PICK j \in 1..n : p[j] = q[i]
    BY <1>8
  <2> QED BY <1>4, <2>1, <2>2 DEF ToSet
<1> QED BY <1>2, <1>4, <1>6, <1>7, <1>9

\* What happens outside the engines.
Aside == (\E r \in Requests : Submit(r) \/ ClientGone(r)) \/ AskReload \/ Route \/ Requeue \/ UNCHANGED vars

LEMMA AsideQuiet ==
  ASSUME Aside PROVE Quiet
<1>1. ASSUME NEW r \in Requests, Submit(r) \/ ClientGone(r) PROVE Quiet
  BY <1>1 DEF Submit, ClientGone, engines, waves, Quiet
<1>2. ASSUME AskReload \/ Route \/ Requeue PROVE Quiet
  BY <1>2 DEF AskReload, Route, Requeue, engines, waves, Quiet
<1>3. ASSUME UNCHANGED vars PROVE Quiet
  BY <1>3 DEF vars, engines, waves, Quiet
<1> QED BY <1>1, <1>2, <1>3 DEF Aside

LEMMA BaseAside ==
  ASSUME BaseInv, Aside
  PROVE  BaseInv'
<1>1. TypeInv /\ ArrivalInv /\ Quiet
  BY AsideQuiet DEF BaseInv
<1>2. inbox \in Seq(Requests) /\ IsInjective(inbox) /\ client \in [Requests -> {"new", "open", "gone", "done"}]
      /\ \A r \in Requests : Awaited(r) => ~(client[r] = "new" /\ r \in ToSet(inbox))
  BY <1>1 DEF TypeInv, ArrivalInv
<1>3. ASSUME NEW r \in Requests, Submit(r) PROVE BaseInv'
  <2>1. client[r] = "new" /\ client' = [client EXCEPT ![r] = "open"] /\ inbox' = Append(inbox, r)
    BY <1>3 DEF Submit
  <2>2. r \notin ToSet(inbox)
    BY <1>2, <2>1 DEF Awaited
  <2>3. inbox' \in Seq(Requests) /\ ToSet(inbox') = ToSet(inbox) \cup {r}
    BY <1>2, <2>1, SeqIsLine, LineMore
  <2>4. IsInjective(inbox')
    <3>1. PICK n \in Nat : n = Len(inbox)
      BY <1>2
    <3>2. /\ DOMAIN inbox = 1..n /\ DOMAIN inbox' = 1..(n + 1) /\ inbox'[n + 1] = r
          /\ \A i \in 1..n : inbox'[i] = inbox[i] /\ inbox[i] # r
      BY <1>2, <2>1, <2>2, <3>1 DEF ToSet
    <3>3. \A i \in 1..(n + 1) : i = n + 1 \/ i \in 1..n
      BY <3>1
    <3>4. \A k, m \in 1..n : inbox[k] = inbox[m] => k = m
      BY <1>2, <3>2 DEF IsInjective
    <3>5. \A k, m \in 1..(n + 1) : inbox'[k] = inbox'[m] => k = m
      BY <3>2, <3>3, <3>4
    <3> QED BY <3>2, <3>5 DEF IsInjective
  <2>5. client' \in [Requests -> {"new", "open", "gone", "done"}]
    BY <1>2, <2>1
  <2>6. \A u \in Requests : Awaited(u)' => Awaited(u) /\ ~(client'[u] = "new" /\ u \in ToSet(inbox'))
    BY <1>2, <2>1, <2>3 DEF Awaited
  <2> QED BY <1>1, <2>3, <2>4, <2>5, <2>6, BaseQuiet
<1>4. ASSUME NEW r \in Requests, ClientGone(r) PROVE BaseInv'
  <2>1. client[r] # "new" /\ client' = [client EXCEPT ![r] = "gone"] /\ inbox' = inbox
    BY <1>4 DEF ClientGone
  <2>2. client' \in [Requests -> {"new", "open", "gone", "done"}]
    BY <1>2, <2>1
  <2>3. \A u \in Requests : Awaited(u)' => Awaited(u) /\ ~(client'[u] = "new" /\ u \in ToSet(inbox'))
    BY <1>2, <2>1 DEF Awaited
  <2> QED BY <1>1, <1>2, <2>1, <2>2, <2>3, BaseQuiet
<1>5. ASSUME Requeue PROVE BaseInv'
  <2>1. inbox' = Append(Tail(inbox), Head(inbox)) /\ inbox # <<>> /\ client' = client
    BY <1>2, <1>5 DEF Requeue
  <2>2. inbox' \in Seq(Requests) /\ IsInjective(inbox') /\ ToSet(inbox') = ToSet(inbox)
    BY <1>2, <2>1, Turned
  <2>3. \A u \in Requests : Awaited(u)' => Awaited(u) /\ ~(client'[u] = "new" /\ u \in ToSet(inbox'))
    BY <1>2, <2>1, <2>2 DEF Awaited
  <2> QED BY <1>1, <1>2, <2>1, <2>2, <2>3, BaseQuiet
<1>6. ASSUME UNCHANGED <<client, inbox>> PROVE BaseInv'
  <2>1. \A u \in Requests : Awaited(u)' => Awaited(u) /\ ~(client'[u] = "new" /\ u \in ToSet(inbox'))
    BY <1>2, <1>6 DEF Awaited
  <2> QED BY <1>1, <1>2, <1>6, <2>1, BaseQuiet
<1>7. AskReload \/ Route \/ UNCHANGED vars => UNCHANGED <<client, inbox>>
  BY DEF AskReload, Route, vars
<1> QED BY <1>3, <1>4, <1>5, <1>6, <1>7 DEF Aside

-----------------------------------------------------------------------------
(* Every step. *)

\* The steps that move frames.
Moves ==
  \/ LockstepStep \/ LockstepToken \/ LockstepFails \/ Heartbeat
  \/ \E w \in Waves : StepWave(w) \/ Absorb(w) \/ StepWaveFails(w)
  \/ \E s \in Followers : TakeCtl(s) \/ TakeHr(s) \/ (s # LastStage /\ TakeTok(s))

LEMMA NextIs ==
  ASSUME [Next]_vars PROVE Aside \/ Moves
<1>1. ASSUME NEW s \in Stages, Follow(s) PROVE Moves
  <2>1. s > 0 /\ s \in Followers /\ (s < LastStage => s # LastStage)
    BY <1>1, StageFacts DEF Follow, Stages
  <2> QED BY <1>1, <2>1 DEF Follow, Moves
<1>2. Drive => Aside \/ Moves
  BY DEF Drive, Aside, Moves
<1> QED BY <1>1, <1>2 DEF Next, Aside, Moves

LEMMA BaseStep ==
  ASSUME BaseInv, [Next]_vars PROVE BaseInv'
<1>1. CASE Aside
  BY <1>1, BaseAside
<1>2. CASE Moves
  BY <1>2, BaseLockstepStep, BaseToken, BaseLockstepFails, BaseHeartbeat, BaseStepWave, BaseAbsorb, BaseStepWaveFails,
     BaseCtl, BaseHr, BaseTok DEF Moves
<1> QED BY <1>1, <1>2, NextIs

LEMMA BaseInit ==
  ASSUME Init PROVE BaseInv
<1>1. /\ mode \in Modes /\ failed = 0 /\ client = [r \in Requests |-> "new"] /\ inbox = <<>> /\ ring = <<>>
      /\ pc = [s \in Stages |-> IF s = 0 THEN "loop" ELSE "ctl"]
      /\ eng = [s \in Stages |-> [running |-> <<>>, waiting |-> <<>>, booked |-> [r \in Requests |-> 0]]]
      /\ waveOf = [s \in Stages |-> [r \in Requests |-> NoWave]]
      /\ rows = [s \in Stages |-> <<>>] /\ weights = [s \in Stages |-> 0]
      /\ down = [s \in Links |-> <<>>] /\ told = [r \in Requests |-> <<>>]
      /\ rowQ = [w \in Waves |-> <<>>] /\ outstanding = [w \in Waves |-> FALSE]
  BY DEF Init, Links
<1>2. 0 \in Stages /\ \A s \in Followers : s \in Stages /\ s # 0
  BY StageFacts
<1>3. \A i : i \notin DOMAIN <<>>
  OBVIOUS
<1>4. TypeInv
  <2>1. pc \in [Stages -> {"loop", "ctl", "hr", "tok", "dead"}] /\ pc[0] \in {"loop", "tok"}
        /\ (\A s \in Followers : pc[s] # "loop") /\ \A s \in Stages : pc[s] # "tok"
    BY <1>1, <1>2
  <2>2. /\ eng = [s \in Stages |-> eng[s]] /\ waveOf = [s \in Stages |-> waveOf[s]]
        /\ rows \in [Stages -> Seq(Requests)] /\ weights = [s \in Stages |-> weights[s]]
    BY <1>1, EmptyFacts
  <2>3. /\ down = [s \in Links |-> down[s]] /\ \A s \in Links : Line(down[s])
        /\ Line(ring) /\ \A i \in DOMAIN ring : ring[i].tag = "tok"
        /\ told = [r \in Requests |-> told[r]] /\ \A r \in Requests : Line(told[r])
        /\ rowQ = [w \in Waves |-> rowQ[w]] /\ \A w \in Waves : Line(rowQ[w])
    BY <1>1, <1>3, EmptyFacts
  <2>4. outstanding \in [Waves -> BOOLEAN] /\ client \in [Requests -> {"new", "open", "gone", "done"}] /\ failed \in Nat
    BY <1>1
  <2> QED BY <1>1, <2>1, <2>2, <2>3, <2>4 DEF TypeInv
<1>5. ASSUME NEW s \in Stages
      PROVE  eng[s].running = <<>> /\ eng[s].waiting = <<>> /\ eng[s].booked = [r \in Requests |-> 0]
             /\ eng[s] = [running |-> eng[s].running, waiting |-> eng[s].waiting, booked |-> eng[s].booked]
  BY <1>1
<1>6. <<>> \o <<>> = <<>>
  OBVIOUS
<1>7. \A s \in Stages : Inside(eng[s]) = {} /\ \A r \in Requests : eng[s].booked[r] = 0
  BY <1>5, EmptyFacts DEF Inside
<1>8. ASSUME NEW s \in Stages PROVE EngineOK(eng[s])
  <2>1. \A r \in Requests : MaxTokens[r] \in Nat
    BY SpliceAssumption
  <2>2. PICK e : e = eng[s]
    OBVIOUS
  <2>3. /\ e.running = <<>> /\ e.waiting = <<>> /\ e.booked = [r \in Requests |-> 0] /\ Inside(e) = {}
        /\ e = [running |-> e.running, waiting |-> e.waiting, booked |-> e.booked]
    BY <1>5, <1>7, <2>2
  <2>4. e.running \o e.waiting = <<>>
    BY <1>6, <2>3
  <2>5. e.booked \in [Requests -> Nat] /\ \A r \in Requests : e.booked[r] <= MaxTokens[r]
    BY <2>1, <2>3
  <2>6. e.running \in Seq(Requests) /\ e.waiting \in Seq(Requests) /\ IsInjective(e.running \o e.waiting)
    BY <2>3, <2>4, EmptyFacts
  <2> QED BY <2>2, <2>3, <2>5, <2>6 DEF EngineOK
<1>9. EngineInv
  BY <1>1, <1>8 DEF EngineInv
<1>10. ArrivalInv
  <2>1. \A s \in Links : \A i : i \notin DOMAIN down[s]
    BY <1>1, <1>3
  <2>2. inbox \in Seq(Requests) /\ IsInjective(inbox) /\ ToSet(inbox) = {}
    BY <1>1, EmptyFacts
  <2>3. \A s \in Stages : \A r \in Requests : Unseen(s, r)
    BY <1>7 DEF Unseen
  <2> QED BY <2>1, <2>2, <2>3 DEF ArrivalInv
<1> QED BY <1>4, <1>9, <1>10 DEF BaseInv

-----------------------------------------------------------------------------
(* The stages agree: nothing is lost on the way from one to the next. *)

AgreeAt(s) ==
  IF Ahead(s) THEN pc[s] = "ctl" /\ \A f \in Answers : Local(s) = AfterTok(Local(s - 1), f)
  ELSE Follows(Local(s), down[s - 1], Local(s - 1))

LEMMA LocalSame ==
  ASSUME NEW s, NEW t, Others(s), t \in Stages, t # s
  PROVE  Local(t)' = Local(t)
  BY DEF Local, Others

\* A step of one stage concerns that stage and the next.
LEMMA AgreeOthers ==
  ASSUME BaseInv, AgreeInv, NEW s \in Stages, Others(s), mode' = mode,
         \A u \in Links : u # s - 1 /\ u # s => down'[u] = down[u],
         s # LastStage => Answers' \subseteq Answers /\ AgreeAt(s + 1)',
         s # 0 => AgreeAt(s)'
  PROVE  AgreeInv'
<1>1. ASSUME NEW t \in Followers PROVE AgreeAt(t)'
  <2>1. CASE t = s
    BY <2>1, StageFacts
  <2>2. CASE t = s + 1
    <3>1. s # LastStage
      BY <2>2, StageFacts DEF Followers
    <3> QED BY <2>2, <3>1
  <2>3. CASE t # s /\ t # s + 1
    <3>1. t \in Stages /\ t - 1 \in Stages /\ t - 1 \in Links /\ t - 1 # s /\ t - 1 # s - 1
      BY <2>3, StageFacts DEF Stages, Followers
    <3>2. Local(t)' = Local(t) /\ Local(t - 1)' = Local(t - 1)
      BY <2>3, <3>1, LocalSame
    <3>3. down'[t - 1] = down[t - 1] /\ pc'[t] = pc[t] /\ pc'[t - 1] = pc[t - 1]
      BY <2>3, <3>1 DEF Others
    <3>4. AgreeAt(t)
      BY DEF AgreeInv, AgreeAt
    <3>5. Ahead(t)' <=> Ahead(t)
      BY <3>3 DEF Ahead
    <3>6. Ahead(t) => s # LastStage
      BY <2>3 DEF Ahead
    <3>7. CASE Ahead(t)
      <4>1. pc[t] = "ctl" /\ \A f \in Answers : Local(t) = AfterTok(Local(t - 1), f)
        BY <3>4, <3>7 DEF AgreeAt
      <4>2. Answers' \subseteq Answers
        BY <3>6, <3>7
      <4>3. \A f \in Answers' : Local(t)' = AfterTok(Local(t - 1), f)
        BY <4>1, <4>2, <3>2
      <4>4. \A f \in Answers' : Local(t)' = AfterTok(Local(t - 1)', f)
        BY <4>3, <3>2
      <4> QED BY <3>3, <3>5, <3>7, <4>1, <4>4 DEF AgreeAt
    <3>8. CASE ~Ahead(t)
      <4>1. Follows(Local(t), down[t - 1], Local(t - 1))
        BY <3>4, <3>8 DEF AgreeAt
      <4>2. Follows(Local(t)', down'[t - 1], Local(t - 1)')
        BY <4>1, <3>2, <3>3
      <4> QED BY <3>5, <3>8, <4>2 DEF AgreeAt
    <3> QED BY <3>7, <3>8
  <2> QED BY <2>1, <2>2, <2>3
<1> QED BY <1>1 DEF AgreeInv, AgreeAt

\* The frame that reaches a stage is the one it waits for.
LEMMA Awaits ==
  ASSUME BaseInv, AgreeInv, NEW s \in Followers, down[s - 1] # <<>>, NEW f, f = Head(down[s - 1])
  PROVE  /\ ~Ahead(s) /\ f.tag = pc[s] /\ (f.tag = "hr" => f.rows = rows[s] /\ f.weights = weights[s])
         /\ Follows(Local(s), down[s - 1], Local(s - 1))
         /\ After(Local(s), f).pc # "dead" /\ Follows(After(Local(s), f), Tail(down[s - 1]), Local(s - 1))
<1>1. ~Ahead(s) /\ s - 1 \in Links /\ s \in Stages
  BY StageFacts DEF Ahead
<1>2. Follows(Local(s), down[s - 1], Local(s - 1))
  BY <1>1 DEF AgreeInv
<1>3. Line(down[s - 1]) /\ pc[s] # "loop"
  BY <1>1 DEF BaseInv, TypeInv
<1>4. After(Local(s), f).pc # "dead" /\ Follows(After(Local(s), f), Tail(down[s - 1]), Local(s - 1))
  BY <1>2, <1>3, FollowsLess
<1>5. f.tag = Local(s).pc /\ (f.tag = "hr" => f.rows = Local(s).rows /\ f.weights = Local(s).weights)
  BY <1>4, Expected
<1>6. Local(s).pc = pc[s] /\ Local(s).rows = rows[s] /\ Local(s).weights = weights[s]
  BY <1>3, ViewFields DEF Local
<1> QED BY <1>1, <1>2, <1>4, <1>5, <1>6

\* Tokens do not come out of nothing.
LEMMA AnswersLess ==
  ASSUME NEW s, ToSet(ring') \subseteq ToSet(ring) \cup {f \in Answers : f.tag = "tok"},
         \A u \in Links : \A f \in ToSet(down'[u]) : f.tag = "tok" => f \in Answers
  PROVE  Answers' \subseteq Answers
<1>1. ToSet(ring) \subseteq Answers
  BY DEF Answers
<1>2. ASSUME NEW f \in Answers' PROVE f \in Answers
  <2>1. f \in ToSet(ring') \/ \E u \in Links : f \in ToSet(down'[u]) /\ f.tag = "tok"
    BY <1>2 DEF Answers
  <2> QED BY <1>1, <2>1
<1> QED BY <1>2

\* What stage s hands on.
LEMMA FollowerAnswers ==
  ASSUME TypeInv, NEW s \in Followers, down[s - 1] # <<>>, NEW f, f = Head(down[s - 1]), NEW g, g.tag # "tok" \/ g = f,
         down' = Rest(s) \/ (s # LastStage /\ down' = [Rest(s) EXCEPT ![s] = Append(@, g)]),
         ring' = ring
  PROVE  Answers' \subseteq Answers
<1>1. /\ s - 1 \in Links /\ \A u \in Links : Line(down[u])
  BY StageFacts DEF TypeInv
<1>2. f \in ToSet(down[s - 1])
  BY <1>1, LineLess
<1>3. \A u \in Links : \A i \in DOMAIN down'[u] :
        \/ i + Shift(s, u) \in DOMAIN down[u] /\ down'[u][i] = down[u][i + Shift(s, u)]
        \/ u = s /\ i = Len(down[s]) + 1 /\ down'[u][i] = g
  BY FollowerLinks
<1>4. \A u \in Links : \A h \in ToSet(down[u]) : h.tag = "tok" => h \in Answers
  BY DEF Answers
<1>5. ASSUME NEW u \in Links, NEW h \in ToSet(down'[u]), h.tag = "tok" PROVE h \in Answers
  <2>1. PICK i \in DOMAIN down'[u] : h = down'[u][i]
    BY DEF ToSet
  <2>2. CASE h \in ToSet(down[u])
    BY <1>4, <1>5, <2>2
  <2>3. CASE h = g
    BY <1>1, <1>2, <1>4, <1>5, <2>3
  <2> QED BY <1>3, <2>1, <2>2, <2>3 DEF ToSet
<1> QED BY <1>5, AnswersLess

\* The links after stage s has taken a frame, and handed on another.
LEMMA HandsOn ==
  ASSUME TypeInv, NEW s \in Followers, NEW g, s # LastStage, down' = [Rest(s) EXCEPT ![s] = Append(@, g)]
  PROVE  /\ down'[s - 1] = Tail(down[s - 1]) /\ down'[s] = Append(down[s], g)
         /\ \A u \in Links : u # s - 1 /\ u # s => down'[u] = down[u]
<1>1. s - 1 \in Links /\ s \in Links /\ s - 1 # s /\ down = [u \in Links |-> down[u]]
  BY StageFacts DEF TypeInv
<1> QED BY <1>1 DEF Rest

LEMMA KeepsIt ==
  ASSUME TypeInv, NEW s \in Followers, down' = Rest(s)
  PROVE  down'[s - 1] = Tail(down[s - 1]) /\ \A u \in Links : u # s - 1 => down'[u] = down[u]
<1>1. s - 1 \in Links /\ down = [u \in Links |-> down[u]]
  BY StageFacts DEF TypeInv
<1> QED BY <1>1 DEF Rest

\* A stage that hands on a frame which does to it what the one it took did.
LEMMA AgreeOn ==
  ASSUME BaseInv, AgreeInv, NEW s \in Followers, s # LastStage, down[s - 1] # <<>>, NEW f, f = Head(down[s - 1]),
         Others(s), mode' = mode, ring' = ring, NEW g, g.tag # "tok" \/ g = f, ~Ahead(s + 1),
         down' = [Rest(s) EXCEPT ![s] = Append(@, g)],
         Local(s)' = After(Local(s), f), Local(s)' = After(Local(s), g)
  PROVE  AgreeInv'
<1>1. s \in Stages /\ s - 1 \in Stages /\ s - 1 # s /\ s \in Links /\ s + 1 \in Followers /\ (s + 1) - 1 = s /\ TypeInv
      /\ s + 1 \in Stages /\ s + 1 # s
  BY StageFacts DEF BaseInv
<1>2. /\ After(Local(s), f).pc # "dead" /\ Follows(After(Local(s), f), Tail(down[s - 1]), Local(s - 1))
  BY Awaits
<1>3. /\ down'[s - 1] = Tail(down[s - 1]) /\ down'[s] = Append(down[s], g)
      /\ \A u \in Links : u # s - 1 /\ u # s => down'[u] = down[u]
  BY <1>1, HandsOn
<1>4. Local(s - 1)' = Local(s - 1) /\ Local(s + 1)' = Local(s + 1)
  BY <1>1, LocalSame
<1>5. AgreeAt(s)'
  <2>1. ~Ahead(s)'
    BY DEF Ahead
  <2>2. Follows(Local(s)', down'[s - 1], Local(s - 1)')
    BY <1>2, <1>3, <1>4
  <2> QED BY <2>1, <2>2 DEF AgreeAt
<1>6. AgreeAt(s + 1)'
  <2>1. Line(down[s])
    BY <1>1 DEF TypeInv
  <2>2. Append(down[s], g) # <<>>
    BY <2>1, LineMore
  <2>3. ~Ahead(s + 1)'
    BY <1>1, <1>3, <2>2 DEF Ahead
  <2>4. Follows(Local(s + 1), down[s], Local(s))
    BY <1>1 DEF AgreeInv
  <2>5. After(Local(s), g).pc # "dead"
    BY <1>2
  <2>6. Follows(Local(s + 1), Append(down[s], g), After(Local(s), g))
    BY ONLY <2>1, <2>4, <2>5, FollowsMore
  <2>7. Follows(Local(s + 1)', down'[(s + 1) - 1], Local((s + 1) - 1)')
    BY <1>1, <1>3, <1>4, <2>6
  <2> QED BY <2>3, <2>7 DEF AgreeAt
<1>7. Answers' \subseteq Answers
  BY <1>1, FollowerAnswers
<1> QED BY <1>1, <1>3, <1>5, <1>6, <1>7, AgreeOthers

\* The last stage hands nothing on.
LEMMA AgreeLast ==
  ASSUME BaseInv, AgreeInv, down[LastStage - 1] # <<>>, NEW f, f = Head(down[LastStage - 1]),
         Others(LastStage), mode' = mode, down' = Rest(LastStage), ~Ahead(LastStage)',
         Local(LastStage)' = After(Local(LastStage), f)
  PROVE  AgreeInv'
<1>1. LastStage \in Followers /\ LastStage \in Stages /\ LastStage - 1 \in Stages /\ LastStage - 1 # LastStage /\ TypeInv
  BY StageFacts DEF BaseInv
<1>2. Follows(After(Local(LastStage), f), Tail(down[LastStage - 1]), Local(LastStage - 1))
  BY <1>1, Awaits
<1>3. /\ down'[LastStage - 1] = Tail(down[LastStage - 1]) /\ \A u \in Links : u # LastStage - 1 => down'[u] = down[u]
  BY <1>1, KeepsIt
<1>4. Local(LastStage - 1)' = Local(LastStage - 1)
  BY <1>1, LocalSame
<1>5. Follows(Local(LastStage)', down'[LastStage - 1], Local(LastStage - 1)')
  BY <1>2, <1>3, <1>4
<1>6. AgreeAt(LastStage)'
  BY <1>5 DEF AgreeAt
<1> QED BY <1>1, <1>3, <1>6, AgreeOthers

LEMMA AgreeCtl ==
  ASSUME BaseInv, AgreeInv, NEW s \in Followers, TakeCtl(s)
  PROVE  AgreeInv'
<1>1. PICK f : f = Head(down[s - 1])
  OBVIOUS
<1>2. /\ down[s - 1] # <<>> /\ pc[s] = "ctl" /\ Others(s) /\ UNCHANGED <<mode, ring>>
      /\ \/ f.tag # "ctl"
         \/ /\ f.tag = "ctl" /\ pc'[s] \in {"ctl", "hr"} /\ Local(s)' = After(Local(s), f)
            /\ down' = IF s = LastStage THEN Rest(s) ELSE [Rest(s) EXCEPT ![s] = Append(@, f)]
  BY <1>1, CtlEffect
<1>3. /\ f.tag = pc[s] /\ Follows(After(Local(s), f), Tail(down[s - 1]), Local(s - 1))
  BY <1>1, <1>2, Awaits
<1>4. /\ f.tag = "ctl" /\ pc'[s] \in {"ctl", "hr"} /\ Local(s)' = After(Local(s), f)
      /\ down' = IF s = LastStage THEN Rest(s) ELSE [Rest(s) EXCEPT ![s] = Append(@, f)]
  BY <1>2, <1>3
<1>5. s \in Stages /\ s - 1 \in Links /\ s - 1 \in Stages /\ s - 1 # s /\ TypeInv
  BY StageFacts DEF BaseInv
<1>6. CASE s # LastStage
  <2>1. ~Ahead(s + 1)
    <3>1. (s + 1) - 1 = s
      BY StageFacts
    <3> QED BY <1>2, <3>1 DEF Ahead
  <2> QED BY <1>1, <1>2, <1>4, <1>6, <2>1, AgreeOn
<1>7. CASE s = LastStage
  <2>1. down' = Rest(s)
    BY <1>4, <1>7
  <2>2. ~Ahead(s)'
    <3>1. SUFFICES ASSUME pc'[s - 1] = "tok", down'[s - 1] = <<>> PROVE FALSE
      BY DEF Ahead
    <3>2. Tail(down[s - 1]) = <<>>
      BY <1>5, <2>1, <3>1, KeepsIt
    <3>3. Local(s - 1) = After(Local(s), f)
      BY <1>3, <3>2, FollowsNothing
    <3>4. Local(s).pc' = pc'[s]
      BY <1>4, ViewFields DEF Local
    <3>5. Local(s - 1).pc = "tok"
      BY <1>2, <1>5, <3>1, ViewFields DEF Local, Others
    <3> QED BY <1>4, <3>3, <3>4, <3>5
  <2> QED BY <1>1, <1>2, <1>4, <1>7, <2>1, <2>2, AgreeLast
<1> QED BY <1>6, <1>7

LEMMA LocalIs ==
  ASSUME NEW s
  PROVE  /\ pc[s] # "loop" => Local(s) = View(pc[s], eng[s], waveOf[s], rows[s], weights[s])
         /\ pc[s] = "loop" => Local(s) = View("ctl", eng[s], waveOf[s], rows[s], weights[s])
  BY DEF Local

\* Hidden states bear the name of a wave if there are waves.
LEMMA HrWave ==
  ASSUME BaseInv, OrderInv, WaveInv, NEW s \in Followers, down[s - 1] # <<>>, NEW f, f = Head(down[s - 1]), f.tag = "hr"
  PROVE  mode = 0 <=> f.wave = NoWave
<1>1. s - 1 \in Links /\ s - 1 \in Stages /\ s - 1 # LastStage /\ Line(down[s - 1]) /\ mode \in Nat
  BY StageFacts, SpliceAssumption DEF BaseInv, TypeInv
<1>2. f = down[s - 1][1] /\ 1 \in DOMAIN down[s - 1]
  BY <1>1, LineLess
<1>3. CASE mode = 0
  BY <1>1, <1>2, <1>3 DEF OrderInv
<1>4. CASE mode > 0
  <2>1. Link(s - 1) = down[s - 1]
    BY <1>1 DEF Link
  <2>2. f.wave \in InMode
    BY <1>1, <1>2, <1>4, <2>1 DEF WaveInv
  <2> QED BY <1>1, <1>4, <2>2 DEF InMode, NoWave
<1> QED BY <1>1, <1>3, <1>4

\* In lockstep hidden states are all there is on their way.
LEMMA HrAlone ==
  ASSUME BaseInv, OrderInv, mode = 0, NEW s \in Followers, down[s - 1] # <<>>, NEW f, f = Head(down[s - 1]), f.tag = "hr"
  PROVE  /\ ring = <<>> /\ Tail(down[s - 1]) = <<>> /\ f.wave = NoWave
         /\ \A t \in Links : t <= s - 1 => pc[t] = "tok" /\ (t < s - 1 => down[t] = <<>>)
         /\ \A u \in Links : \A i \in DOMAIN down[u] : down[u][i].tag = "tok" => u > s - 1
<1>1. s - 1 \in Links /\ Line(down[s - 1]) /\ \A u \in Links : u \in Int
  BY StageFacts DEF BaseInv, TypeInv
<1>2. /\ f = down[s - 1][1] /\ 1 \in DOMAIN down[s - 1]
      /\ Line(Tail(down[s - 1])) /\ Len(Tail(down[s - 1])) = Len(down[s - 1]) - 1
  BY <1>1, LineLess
<1>3. /\ 1 = Len(down[s - 1]) /\ f.wave = NoWave
      /\ \A t \in Links : t <= s - 1 => pc[t] = "tok" /\ (t < s - 1 => down[t] = <<>>)
  <2>1. PICK u, i : u \in Links /\ i \in DOMAIN down[u] /\ u = s - 1 /\ i = 1
    BY <1>1, <1>2
  <2>2. /\ i = Len(down[u]) /\ down[u][i].wave = NoWave
        /\ \A t \in Links : t <= u => pc[t] = "tok" /\ (t < u => down[t] = <<>>)
    <3>1. /\ i = Len(down[u])
          /\ down[u][i].wave = NoWave /\ \A t \in Links : t <= u => pc[t] = "tok" /\ (t < u => down[t] = <<>>)
      <4>1. \A v \in Links : \A j \in DOMAIN down[v] : down[v][j].tag = "hr" =>
              /\ j = Len(down[v]) /\ down[v][j].wave = NoWave
              /\ \A t \in Links : t <= v => pc[t] = "tok" /\ (t < v => down[t] = <<>>)
        BY DEF OrderInv
      <4>2. down[u][i].tag = "hr"
        BY <1>2, <2>1
      <4> QED BY ONLY <2>1, <4>1, <4>2
    <3> QED BY <3>1
  <2> QED BY <1>2, <2>1, <2>2
<1>4. Tail(down[s - 1]) = <<>>
  <2>1. PICK q : q = Tail(down[s - 1])
    OBVIOUS
  <2>2. Line(q) /\ Len(q) = 0
    BY <1>2, <1>3, <2>1
  <2> QED BY <2>1, <2>2, LineFacts
<1>5. ring = <<>>
  BY <1>1 DEF OrderInv
<1>6. ASSUME NEW u \in Links, NEW i \in DOMAIN down[u], down[u][i].tag = "tok", ~(u > s - 1) PROVE FALSE
  <2>1. i = 1 /\ \A t \in Links : t > u => down[t] = <<>>
    BY <1>6 DEF OrderInv
  <2>2. u = s - 1
    BY <1>1, <1>6, <2>1
  <2> QED BY <1>2, <1>6, <2>1, <2>2
<1> QED BY <1>3, <1>4, <1>5, <1>6

LEMMA AgreeHr ==
  ASSUME BaseInv, AgreeInv, OrderInv, WaveInv, NEW s \in Followers, TakeHr(s)
  PROVE  AgreeInv'
<1>1. PICK f : f = Head(down[s - 1])
  OBVIOUS
<1>1a. HrDone(s, f)
  BY <1>1, HrEffect
<1>2. /\ down[s - 1] # <<>> /\ pc[s] = "hr" /\ Others(s) /\ ToSet(rows[s]) \subseteq ToSet(eng[s].running)
      /\ mode' = mode /\ rows'[s] = rows[s] /\ weights'[s] = weights[s] /\ waveOf'[s] = waveOf[s]
  BY <1>1a DEF HrDone
<1>3. f.tag = "hr" /\ f.rows = rows[s] /\ f.weights = weights[s] /\ ~Ahead(s)
  BY <1>1, <1>2, Awaits
<1>4. s \in Stages /\ EngineOK(eng[s]) /\ TypeInv /\ (s + 1) - 1 = s
  BY StageFacts DEF BaseInv, EngineInv
<1>5. mode = 0 <=> f.wave = NoWave
  BY <1>1, <1>2, <1>3, HrWave
<1>6. Local(s) = View("hr", eng[s], waveOf[s], rows[s], weights[s])
  BY <1>2, LocalIs
<1>7. ASSUME NEW g, g.tag = "hr", g.rows = rows[s], g.weights = weights[s], g.wave = f.wave
      PROVE  After(Local(s), g) = IF mode = 0 THEN View("tok", eng[s], waveOf[s], rows[s], weights[s])
                                  ELSE View("ctl", Book(eng[s], rows[s], {}), waveOf[s], rows[s], weights[s])
  <2>1. EngineOK(eng[s]) /\ ToSet(rows[s]) \subseteq ToSet(eng[s].running)
    BY <1>2, <1>4
  <2>2. After(View("hr", eng[s], waveOf[s], rows[s], weights[s]), g) =
          IF g.wave = NoWave THEN View("tok", eng[s], waveOf[s], rows[s], weights[s])
          ELSE View("ctl", Book(eng[s], rows[s], {}), waveOf[s], rows[s], weights[s])
    BY ONLY <1>7, <2>1, AfterOfHr
  <2> QED BY <1>5, <1>6, <1>7, <2>2
<1>8. CASE s # LastStage
  <2>1. /\ ring' = ring /\ down' = [Rest(s) EXCEPT ![s] = Append(@, Hr(f.wave, rows[s], weights[s]))]
        /\ IF mode = 0 THEN pc'[s] = "tok" /\ eng'[s] = eng[s]
           ELSE pc'[s] = "ctl" /\ eng'[s] = Book(eng[s], rows[s], {})
    BY <1>1a, <1>3, <1>8 DEF HrDone
  <2>2. PICK g : g = Hr(f.wave, rows[s], weights[s])
    OBVIOUS
  <2>3. g.tag = "hr" /\ g.rows = rows[s] /\ g.weights = weights[s] /\ g.wave = f.wave
    BY <2>2 DEF Hr
  <2>4. Local(s)' = IF mode = 0 THEN View("tok", eng[s], waveOf[s], rows[s], weights[s])
                    ELSE View("ctl", Book(eng[s], rows[s], {}), waveOf[s], rows[s], weights[s])
    BY <1>2, <2>1 DEF Local
  <2>5. Local(s)' = After(Local(s), f) /\ Local(s)' = After(Local(s), g)
    BY <1>3, <1>7, <2>3, <2>4
  <2>6. ~Ahead(s + 1)
    BY <1>2, <1>4 DEF Ahead
  <2>7. down' = [Rest(s) EXCEPT ![s] = Append(@, g)] /\ g.tag # "tok"
    BY <2>1, <2>2, <2>3
  <2> QED BY <1>1, <1>2, <1>8, <2>1, <2>5, <2>6, <2>7, AgreeOn
<1>9. CASE s = LastStage
  <2>1. PICK g : /\ pc'[s] = "ctl" /\ down' = Rest(s) /\ g.tag = "tok" /\ ring' = Append(ring, g)
                 /\ eng'[s] = Book(eng[s], rows[s], IF mode = 0 THEN Ended(g.toks) ELSE {})
    BY <1>1a, <1>3, <1>9 DEF HrDone
  <2>2. CASE mode # 0
    <3>1. Local(s)' = View("ctl", Book(eng[s], rows[s], {}), waveOf[s], rows[s], weights[s])
      BY <1>2, <2>1, <2>2 DEF Local
    <3>2. Local(s)' = After(Local(s), f)
      BY <1>3, <1>7, <2>2, <3>1
    <3>3. ~Ahead(s)'
      BY <1>2, <2>2 DEF Ahead
    <3> QED BY <1>1, <1>2, <1>9, <2>1, <3>2, <3>3, AgreeLast
  <2>3. CASE mode = 0
    <3>1. /\ ring = <<>> /\ Tail(down[s - 1]) = <<>> /\ s - 1 \in Links /\ s - 1 \in Stages /\ s - 1 # s
          /\ pc[s - 1] = "tok" /\ \A u \in Links : ~(u > s - 1)
          /\ \A u \in Links : \A i \in DOMAIN down[u] : down[u][i].tag = "tok" => u > s - 1
      <4>1. \A u \in Links : ~(u > s - 1)
        BY <1>9, StageFacts DEF Links
      <4>2. s - 1 \in Links /\ s - 1 \in Stages /\ s - 1 # s /\ s - 1 <= s - 1
        BY StageFacts
      <4>3. /\ ring = <<>> /\ Tail(down[s - 1]) = <<>>
            /\ \A t \in Links : t <= s - 1 => pc[t] = "tok" /\ (t < s - 1 => down[t] = <<>>)
            /\ \A u \in Links : \A i \in DOMAIN down[u] : down[u][i].tag = "tok" => u > s - 1
        BY <1>1, <1>2, <1>3, <2>3, HrAlone
      <4> QED BY <4>1, <4>2, <4>3
    <3>2. Answers' \subseteq {g}
      <4>1. ToSet(ring') = {g}
        <5>1. ToSet(Append(<<>>, g)) = ToSet(<<>>) \cup {g}
          BY ONLY EmptyFacts, LineMore
        <5> QED BY <2>1, <3>1, <5>1, EmptyFacts
      <4>2. down'[s - 1] = <<>> /\ \A u \in Links : u # s - 1 => down'[u] = down[u]
        BY <1>4, <2>1, <3>1, KeepsIt
      <4>3. ASSUME NEW u \in Links, NEW h \in ToSet(down'[u]), h.tag = "tok" PROVE FALSE
        <5>1. u # s - 1
          BY <4>2, <4>3, EmptyFacts
        <5>2. PICK i \in DOMAIN down[u] : h = down[u][i]
          BY <4>2, <4>3, <5>1 DEF ToSet
        <5> QED BY <3>1, <4>3, <5>2
      <4> QED BY <4>1, <4>3 DEF Answers
    <3>3. Local(s - 1) = View("tok", eng[s], waveOf[s], rows[s], weights[s])
      <4>1. Follows(After(Local(s), f), Tail(down[s - 1]), Local(s - 1))
        BY <1>1, <1>2, Awaits
      <4>2. Local(s - 1) = After(Local(s), f)
        <5>1. \A l, m : Follows(l, <<>>, m) => m = l
          BY FollowsNothing
        <5>2. Follows(After(Local(s), f), <<>>, Local(s - 1))
          BY <3>1, <4>1
        <5> QED BY ONLY <5>1, <5>2, Zenon
      <4> QED BY <1>3, <1>7, <2>3, <4>2
    <3>4. Local(s - 1)' = Local(s - 1)
      BY <1>2, <3>1, LocalSame
    <3>5. Local(s)' = View("ctl", Book(eng[s], rows[s], Ended(g.toks)), waveOf[s], rows[s], weights[s])
      BY <1>2, <2>1, <2>3 DEF Local
    <3>6. AfterTok(View("tok", eng[s], waveOf[s], rows[s], weights[s]), g)
          = View("ctl", Book(eng[s], rows[s], Ended(g.toks)), waveOf[s], rows[s], weights[s])
      <4>1. EngineOK(eng[s]) /\ ToSet(rows[s]) \subseteq ToSet(eng[s].running)
        BY <1>2, <1>4
      <4> QED BY ONLY <4>1, AfterOfTok
    <3>7. AgreeAt(s)'
      <4>1. \A h \in Answers' : Local(s)' = AfterTok(Local(s - 1)', h)
        BY <3>2, <3>3, <3>4, <3>5, <3>6
      <4>2. Ahead(s)'
        <5>1. pc'[s - 1] = "tok"
          BY <1>2, <3>1 DEF Others
        <5>2. down'[s - 1] = <<>>
          BY <1>4, <2>1, <3>1, KeepsIt
        <5> QED BY <1>2, <1>9, <2>3, <5>1, <5>2 DEF Ahead
      <4> QED BY <2>1, <4>1, <4>2 DEF AgreeAt
    <3>8. \A u \in Links : u # s - 1 /\ u # s => down'[u] = down[u]
      BY <1>4, <2>1, KeepsIt
    <3> QED BY <1>2, <1>4, <1>9, <3>7, <3>8, AgreeOthers
  <2> QED BY <2>2, <2>3
<1> QED BY <1>8, <1>9

\* In lockstep tokens are told while every stage below waits for them.
LEMMA TokAlone ==
  ASSUME BaseInv, OrderInv, mode = 0, NEW s \in Followers, down[s - 1] # <<>>, NEW f, f = Head(down[s - 1]), f.tag = "tok"
  PROVE  ring = <<>> /\ \A t \in Links : t > s - 1 => pc[t] = "tok" /\ down[t] = <<>>
<1>1. s - 1 \in Links /\ Line(down[s - 1])
  BY StageFacts DEF BaseInv, TypeInv
<1>2. f = down[s - 1][1] /\ 1 \in DOMAIN down[s - 1]
  BY <1>1, LineLess
<1>3. \A t \in Links : t > s - 1 => pc[t] = "tok" /\ down[t] = <<>>
  BY <1>1, <1>2 DEF OrderInv
<1>4. ring = <<>>
  BY <1>1 DEF OrderInv
<1> QED BY <1>3, <1>4

LEMMA AgreeTok ==
  ASSUME BaseInv, AgreeInv, OrderInv, NEW s \in Followers, s # LastStage, TakeTok(s)
  PROVE  AgreeInv'
<1>1. PICK f : f = Head(down[s - 1])
  OBVIOUS
<1>2. /\ down[s - 1] # <<>> /\ pc[s] = "tok" /\ Others(s) /\ ToSet(rows[s]) \subseteq ToSet(eng[s].running)
      /\ UNCHANGED <<mode, ring>>
      /\ rows'[s] = rows[s] /\ weights'[s] = weights[s] /\ waveOf'[s] = waveOf[s]
      /\ \/ f.tag # "tok"
         \/ /\ f.tag = "tok" /\ pc'[s] = "ctl"
            /\ eng'[s] = Book(eng[s], rows[s], Ended(f.toks))
            /\ down' = IF s + 1 = LastStage THEN Rest(s) ELSE [Rest(s) EXCEPT ![s] = Append(@, f)]
  <2>1. TokDone(s, f)
    BY <1>1, TokEffect
  <2> QED BY <2>1 DEF TokDone
<1>3. /\ f.tag = "tok" /\ After(Local(s), f).pc # "dead"
      /\ Follows(After(Local(s), f), Tail(down[s - 1]), Local(s - 1))
  BY <1>1, <1>2, Awaits
<1>4. /\ pc'[s] = "ctl" /\ eng'[s] = Book(eng[s], rows[s], Ended(f.toks))
      /\ down' = IF s + 1 = LastStage THEN Rest(s) ELSE [Rest(s) EXCEPT ![s] = Append(@, f)]
  BY <1>2, <1>3
<1>5. s \in Stages /\ s \in Links /\ EngineOK(eng[s]) /\ TypeInv /\ s - 1 \in Links /\ s - 1 \in Stages /\ s - 1 # s
  BY StageFacts DEF BaseInv, EngineInv
<1>6. s + 1 \in Followers /\ s + 1 \in Stages /\ (s + 1) - 1 = s /\ s + 1 # s /\ s > s - 1
  BY <1>5, StageFacts
<1>7. mode = 0
  <2>1. mode \in Nat /\ (mode > 0 => pc[s] # "tok")
    BY <1>5, SpliceAssumption DEF TypeInv
  <2> QED BY <1>2, <2>1
<1>8. ring = <<>> /\ down[s] = <<>>
  BY <1>1, <1>2, <1>3, <1>5, <1>6, <1>7, TokAlone
<1>9. Local(s) = View("tok", eng[s], waveOf[s], rows[s], weights[s])
  BY <1>2, LocalIs
<1>10. After(Local(s), f) = View("ctl", Book(eng[s], rows[s], Ended(f.toks)), waveOf[s], rows[s], weights[s])
       /\ AfterTok(Local(s), f) = After(Local(s), f)
  <2>1. EngineOK(eng[s]) /\ ToSet(rows[s]) \subseteq ToSet(eng[s].running)
    BY <1>2, <1>5
  <2>2. /\ AfterTok(View("tok", eng[s], waveOf[s], rows[s], weights[s]), f)
           = View("ctl", Book(eng[s], rows[s], Ended(f.toks)), waveOf[s], rows[s], weights[s])
        /\ After(View("tok", eng[s], waveOf[s], rows[s], weights[s]), f)
           = AfterTok(View("tok", eng[s], waveOf[s], rows[s], weights[s]), f)
    BY ONLY <1>3, <2>1, AfterOfTok
  <2> QED BY <1>9, <2>2
<1>11. Local(s)' = View("ctl", Book(eng[s], rows[s], Ended(f.toks)), waveOf[s], rows[s], weights[s])
  BY <1>2, <1>4 DEF Local
<1>12. CASE s + 1 # LastStage
  <2>1. ~Ahead(s + 1)
    BY <1>12 DEF Ahead
  <2>2. down' = [Rest(s) EXCEPT ![s] = Append(@, f)]
    BY <1>4, <1>12
  <2> QED BY <1>1, <1>2, <1>10, <1>11, <2>1, <2>2, AgreeOn
<1>13. CASE s + 1 = LastStage
  <2>1. down' = Rest(s)
    BY <1>4, <1>13
  <2>2. Ahead(s + 1)
    BY <1>2, <1>6, <1>7, <1>8, <1>13 DEF Ahead
  <2>3. f \in Answers
    <3>1. f \in ToSet(down[s - 1])
      BY <1>1, <1>2, <1>5, LineLess DEF TypeInv
    <3> QED BY <1>3, <1>5, <3>1 DEF Answers
  <2>4. Local(s + 1) = AfterTok(Local(s), f)
    BY <1>6, <2>2, <2>3 DEF AgreeInv
  <2>5. Local(s + 1)' = Local(s)' /\ Local(s - 1)' = Local(s - 1)
    <3>1. Local(s + 1)' = Local(s + 1) /\ Local(s - 1)' = Local(s - 1)
      BY <1>2, <1>5, <1>6, LocalSame
    <3> QED BY <1>10, <1>11, <2>4, <3>1
  <2>6. down'[s - 1] = Tail(down[s - 1]) /\ \A u \in Links : u # s - 1 => down'[u] = down[u]
    BY <1>5, <2>1, KeepsIt
  <2>7. AgreeAt(s + 1)'
    <3>1. ~Ahead(s + 1)'
      BY <1>4, <1>6 DEF Ahead
    <3>2. Local(s)'.pc # "dead"
      BY <1>11, ViewFields
    <3>3. Follows(Local(s + 1)', <<>>, Local(s)')
      BY <2>5, <3>2, FollowsNothing
    <3>4. down'[s] = <<>>
      BY <1>5, <1>8, <2>6
    <3> QED BY <1>6, <3>1, <3>3, <3>4 DEF AgreeAt
  <2>8. AgreeAt(s)'
    <3>1. ~Ahead(s)'
      BY DEF Ahead
    <3>2. Follows(Local(s)', down'[s - 1], Local(s - 1)')
      BY <1>3, <1>10, <1>11, <2>5, <2>6
    <3> QED BY <3>1, <3>2 DEF AgreeAt
  <2>9. Answers' \subseteq Answers
    <3>1. ring' = ring
      BY <1>2
    <3> QED BY <1>1, <1>2, <1>5, <2>1, <3>1, FollowerAnswers
  <2> QED BY <1>2, <1>5, <2>6, <2>7, <2>8, <2>9, AgreeOthers
<1> QED BY <1>12, <1>13

\* Stage 0 sends one frame, after which its follower agrees with what it has become.
LEMMA AgreeSent ==
  ASSUME BaseInv, AgreeInv, NEW f, Others(0), mode' = mode, down' = [down EXCEPT ![0] = Append(@, f)], ~Ahead(1),
         Local(0)' = After(Local(0), f), Local(0)'.pc # "dead", Answers' \subseteq Answers
  PROVE  AgreeInv'
<1>1. 0 \in Stages /\ 1 \in Followers /\ 1 \in Stages /\ 1 - 1 = 0 /\ 0 # LastStage /\ 0 + 1 = 1 /\ 0 \in Links /\ TypeInv
  BY StageFacts DEF BaseInv, Followers, Stages
<1>2. down'[0] = Append(down[0], f) /\ \A u \in Links : u # 0 => down'[u] = down[u]
  BY <1>1, OneMore
<1>3. Follows(Local(1), down[0], Local(0)) /\ Line(down[0])
  BY <1>1 DEF AgreeInv, TypeInv
<1>4. Follows(Local(1), Append(down[0], f), After(Local(0), f))
  <2>1. After(Local(0), f).pc # "dead"
    OBVIOUS
  <2> QED BY ONLY <1>3, <2>1, FollowsMore
<1>5. Local(1)' = Local(1)
  BY <1>1, LocalSame
<1>6. AgreeAt(1)'
  <2>1. down'[0] # <<>>
    BY <1>2, <1>3, LineMore
  <2>2. ~Ahead(1)'
    BY <1>1, <2>1 DEF Ahead
  <2>3. Follows(Local(1)', down'[1 - 1], Local(1 - 1)')
    BY <1>1, <1>2, <1>4, <1>5
  <2> QED BY <2>2, <2>3 DEF AgreeAt
<1> QED BY <1>1, <1>2, <1>6, AgreeOthers

\* Stage 0 sends two.
LEMMA AgreeSentTwo ==
  ASSUME BaseInv, AgreeInv, NEW f, NEW g, Others(0), mode' = mode,
         down' = [down EXCEPT ![0] = Append(Append(@, f), g)], ~Ahead(1),
         After(Local(0), f).pc # "dead", Local(0)' = After(After(Local(0), f), g), Local(0)'.pc # "dead",
         Answers' \subseteq Answers
  PROVE  AgreeInv'
<1>1. 0 \in Stages /\ 1 \in Followers /\ 1 \in Stages /\ 1 - 1 = 0 /\ 0 # LastStage /\ 0 + 1 = 1 /\ 0 \in Links /\ TypeInv
  BY StageFacts DEF BaseInv, Followers, Stages
<1>2. down'[0] = Append(Append(down[0], f), g) /\ \A u \in Links : u # 0 => down'[u] = down[u]
  BY <1>1 DEF TypeInv
<1>3. Follows(Local(1), down[0], Local(0)) /\ Line(down[0])
  BY <1>1 DEF AgreeInv, TypeInv
<1>4. Line(Append(down[0], f)) /\ Follows(Local(1), Append(down[0], f), After(Local(0), f))
  <2>1. After(Local(0), f).pc # "dead"
    OBVIOUS
  <2> QED BY ONLY <1>3, <2>1, FollowsMore, LineMore
<1>5. Follows(Local(1), Append(Append(down[0], f), g), After(After(Local(0), f), g))
  <2>1. After(After(Local(0), f), g).pc # "dead"
    OBVIOUS
  <2> QED BY ONLY <1>4, <2>1, FollowsMore
<1>6. Local(1)' = Local(1)
  BY <1>1, LocalSame
<1>7. AgreeAt(1)'
  <2>1. down'[0] # <<>>
    <3>1. PICK q : q = Append(down[0], f)
      OBVIOUS
    <3>2. Line(q) /\ down'[0] = Append(q, g)
      BY <1>2, <1>4, <3>1
    <3> QED BY ONLY <3>2, LineMore
  <2>2. ~Ahead(1)'
    BY <1>1, <2>1 DEF Ahead
  <2>3. Follows(Local(1)', down'[1 - 1], Local(1 - 1)')
    BY <1>1, <1>2, <1>5, <1>6
  <2> QED BY <2>2, <2>3 DEF AgreeAt
<1> QED BY <1>1, <1>2, <1>7, AgreeOthers

\* Stage 0 hands down no tokens but those of the ring.
LEMMA FirstAnswers ==
  ASSUME TypeInv, NEW f, NEW g, f.tag # "tok" \/ f \in ToSet(ring), g.tag # "tok",
         \/ down' = [down EXCEPT ![0] = Append(@, f)]
         \/ down' = [down EXCEPT ![0] = Append(Append(@, f), g)]
         \/ down' = down,
         ToSet(ring') \subseteq ToSet(ring)
  PROVE  Answers' \subseteq Answers
<1>1. \A u \in Links : \A h \in ToSet(down[u]) : h.tag = "tok" => h \in Answers
  BY DEF Answers
<1>2. f.tag = "tok" => f \in Answers
  BY DEF Answers
<1>3. ASSUME NEW u \in Links, NEW h \in ToSet(down'[u]), h.tag = "tok" PROVE h \in Answers
  <2>1. CASE down' = down
    BY <1>1, <1>3, <2>1
  <2>2. CASE down' # down
    <3>1. \A v \in Links : \A i \in DOMAIN down'[v] :
            \/ i \in DOMAIN down[v] /\ down'[v][i] = down[v][i]
            \/ v = 0 /\ i = Len(down[0]) + 1 /\ down'[v][i] = f
            \/ /\ v = 0 /\ i = Len(down[0]) + 2 /\ i = Len(down'[0]) /\ down'[v][i] = g
               /\ down' = [down EXCEPT ![0] = Append(Append(@, f), g)]
      BY <2>2, FirstLinks
    <3>2. PICK i \in DOMAIN down'[u] : h = down'[u][i]
      BY <1>3 DEF ToSet
    <3>3. h \in ToSet(down[u]) \/ h = f \/ h = g
      BY <3>1, <3>2 DEF ToSet
    <3> QED BY <1>1, <1>2, <1>3, <3>3
  <2> QED BY <2>1, <2>2
<1> QED BY <1>3, AnswersLess

\* What follows of a step of stage 0 that was announced by f and shipped g.
StepDone(f, g) ==
  /\ Others(0) /\ g.tag = "hr" /\ g.wave = f.wave /\ g.rows = rows'[0]
  /\ \A r \in Requests : Unseen(0, r) /\ r \notin ToSet(f.admits) => Unseen(0, r)'
  /\ down' = [down EXCEPT ![0] = IF rows'[0] # <<>> THEN Append(Append(@, f), g) ELSE Append(@, f)]
  /\ waveOf'[0] = Mapped(waveOf[0], f) /\ rows'[0] \in Seq(Requests) /\ ToSet(rows'[0]) \subseteq Mine(waveOf'[0], f.wave)
  /\ mode # 0 => \A r \in Requests :
       eng'[0].booked[r] = IF r \in ToSet(rows'[0]) THEN eng[0].booked[r] + 1 ELSE eng[0].booked[r]
  /\ rows'[0] = <<>> => After(Local(0), f) = Local(0)'
  /\ rows'[0] # <<>> => After(Local(0), f).pc = "hr" /\ After(After(Local(0), f), g) = Local(0)'

\* What is known of the frame f that announces a step.
StepFrame(f) ==
  /\ f.tag = "ctl" /\ f.step /\ f.admits \in Seq(Requests) /\ IsInjective(f.admits)
  /\ \A r \in ToSet(f.admits) : r \in ToSet(inbox) /\ Unseen(0, r)
  /\ mode = 0 <=> f.wave = NoWave
  /\ Emit(f, "stepped") /\ pc[0] = "loop" /\ pc' = [pc EXCEPT ![0] = IF mode = 0 /\ rows'[0] # <<>> THEN "tok" ELSE "loop"]
  /\ UNCHANGED <<mode, ring>>

LEMMA StepEffect ==
  ASSUME BaseInv, NEW f, StepFrame(f)
  PROVE  \E g : StepDone(f, g)
<1>1. /\ f.tag = "ctl" /\ f.step /\ f.admits \in Seq(Requests) /\ IsInjective(f.admits)
      /\ \A r \in ToSet(f.admits) : Unseen(0, r)
      /\ mode = 0 <=> f.wave = NoWave
      /\ Emit(f, "stepped") /\ pc[0] = "loop"
      /\ pc' = [pc EXCEPT ![0] = IF mode = 0 /\ rows'[0] # <<>> THEN "tok" ELSE "loop"]
  BY DEF StepFrame
<1>2. /\ pc' = [t \in Stages |-> pc'[t]] /\ \A t \in Stages : t # 0 => pc'[t] = pc[t]
      /\ pc'[0] = IF mode = 0 /\ rows'[0] # <<>> THEN "tok" ELSE "loop"
  BY <1>1, StageFacts DEF BaseInv, TypeInv
<1>3. PICK g : g = Hr(f.wave, rows'[0], weights'[0])
  OBVIOUS
<1>4. PICK l : l = View("ctl", eng[0], waveOf[0], rows[0], weights[0])
  OBVIOUS
<1>5. /\ Others(0) /\ rows'[0] \in Seq(Requests)
      /\ down' = [down EXCEPT ![0] = IF rows'[0] # <<>> THEN Append(Append(@, f), g) ELSE Append(@, f)]
      /\ \A r \in Requests : Unseen(0, r) /\ r \notin ToSet(f.admits) => Unseen(0, r)'
      /\ waveOf'[0] = Mapped(waveOf[0], f) /\ ToSet(rows'[0]) \subseteq Mine(waveOf'[0], f.wave)
      /\ mode # 0 => \A r \in Requests :
           eng'[0].booked[r] = IF r \in ToSet(rows'[0]) THEN eng[0].booked[r] + 1 ELSE eng[0].booked[r]
      /\ IF rows'[0] = <<>> THEN After(l, f) = View("ctl", eng'[0], waveOf'[0], rows'[0], weights'[0])
         ELSE /\ After(l, f).pc = "hr"
              /\ After(After(l, f), g) =
                   View(IF mode = 0 THEN "tok" ELSE "ctl", eng'[0], waveOf'[0], rows'[0], weights'[0])
  <2>1. PICK outcome : outcome = "stepped"
    OBVIOUS
  <2>2. EmitDone(f, outcome)
    BY <1>1, <1>2, <2>1, EmitEffect
  <2>3. outcome # "raised"
    BY <2>1
  <2> QED BY <1>1, <1>3, <1>4, <2>1, <2>2, <2>3 DEF EmitDone
<1>6. Local(0) = l
  BY <1>1, <1>4, LocalIs
<1>7. Local(0)' = View(IF mode = 0 /\ rows'[0] # <<>> THEN "tok" ELSE "ctl", eng'[0], waveOf'[0], rows'[0], weights'[0])
  BY <1>2 DEF Local
<1>8. g.tag = "hr" /\ g.wave = f.wave /\ g.rows = rows'[0]
  BY <1>3 DEF Hr
<1>9. StepDone(f, g)
  BY <1>5, <1>6, <1>7, <1>8 DEF StepDone
<1> QED BY <1>9

LEMMA AgreeStepped ==
  ASSUME BaseInv, AgreeInv, NEW f, StepFrame(f)
  PROVE  AgreeInv'
<1>1. PICK g : StepDone(f, g)
  BY StepEffect
<1>2. /\ Others(0) /\ g.tag = "hr"
      /\ down' = [down EXCEPT ![0] = IF rows'[0] # <<>> THEN Append(Append(@, f), g) ELSE Append(@, f)]
      /\ rows'[0] = <<>> => After(Local(0), f) = Local(0)'
      /\ rows'[0] # <<>> => After(Local(0), f).pc = "hr" /\ After(After(Local(0), f), g) = Local(0)'
  BY <1>1 DEF StepDone
<1>3. /\ f.tag = "ctl" /\ pc[0] = "loop" /\ UNCHANGED <<mode, ring>>
      /\ pc' = [pc EXCEPT ![0] = IF mode = 0 /\ rows'[0] # <<>> THEN "tok" ELSE "loop"]
  BY DEF StepFrame
<1>4. TypeInv /\ ~Ahead(1) /\ Answers' \subseteq Answers
  <2>1. TypeInv
    BY DEF BaseInv
  <2>2. 1 - 1 = 0
    OBVIOUS
  <2>3. ~Ahead(1)
    BY <1>3, <2>2 DEF Ahead
  <2> QED BY <1>2, <1>3, <2>1, <2>3, FirstAnswers
<1>5. Local(0)'.pc # "dead"
  <2>1. pc'[0] # "dead"
    BY <1>3, <1>4, StageFacts DEF TypeInv
  <2> QED BY <2>1, ViewFields DEF Local
<1>6. CASE rows'[0] = <<>>
  BY <1>2, <1>3, <1>4, <1>5, <1>6, AgreeSent
<1>7. CASE rows'[0] # <<>>
  BY <1>2, <1>3, <1>4, <1>5, <1>7, AgreeSentTwo
<1> QED BY <1>6, <1>7

\* Both kinds of steps announce themselves so.
LEMMA LockstepFrameIs ==
  ASSUME BaseInv, LockstepStep
  PROVE  \E f : StepFrame(f)
<1>1. PICK f : f = Frame(inbox, TRUE, aborts, NoWave)
  OBVIOUS
<1>2. f.tag = "ctl" /\ f.step /\ f.admits = inbox /\ f.wave = NoWave
  BY <1>1 DEF Frame
<1>3. /\ Emit(f, "stepped") /\ mode = 0 /\ pc[0] = "loop"
      /\ pc' = [pc EXCEPT ![0] = IF rows'[0] = <<>> THEN "loop" ELSE "tok"]
      /\ UNCHANGED <<mode, ring>>
  BY <1>1 DEF LockstepStep, LockstepFrame, MayStep
<1>4. f.admits \in Seq(Requests) /\ IsInjective(f.admits) /\ \A r \in ToSet(f.admits) : r \in ToSet(inbox) /\ Unseen(0, r)
  BY <1>2, InboxUnseen, AdmitsFacts
<1>5. pc' = [pc EXCEPT ![0] = IF mode = 0 /\ rows'[0] # <<>> THEN "tok" ELSE "loop"]
  BY <1>3
<1>6. StepFrame(f)
  BY <1>2, <1>3, <1>4, <1>5 DEF StepFrame
<1> QED BY <1>6

LEMMA WaveFrameIs ==
  ASSUME BaseInv, NEW w \in Waves, StepWave(w)
  PROVE  \E f : StepFrame(f) /\ f.wave = w /\ f.admits = Joining(w) /\ f.aborts = byWave[w]
<1>1. PICK f : f = Frame(Joining(w), TRUE, byWave[w], w)
  OBVIOUS
<1>2. f.tag = "ctl" /\ f.step /\ f.admits = Joining(w) /\ f.aborts = byWave[w] /\ f.wave = w
  BY <1>1 DEF Frame
<1>3. Emit(f, "stepped") /\ mode > 0 /\ pc[0] = "loop" /\ w \in InMode /\ UNCHANGED <<mode, pc, ring>>
  BY <1>1 DEF StepWave, WaveFrame, MayStepWave
<1>4. f.admits \in Seq(Requests) /\ IsInjective(f.admits) /\ \A r \in ToSet(f.admits) : r \in ToSet(inbox) /\ Unseen(0, r)
  BY <1>2, InboxUnseen, AdmitsFacts, JoiningIs
<1>5. mode # 0 /\ w # NoWave
  BY <1>3 DEF InMode, NoWave
<1>6. pc' = [pc EXCEPT ![0] = IF mode = 0 /\ rows'[0] # <<>> THEN "tok" ELSE "loop"]
  BY <1>3, <1>5, StageFacts DEF BaseInv, TypeInv
<1>7. StepFrame(f)
  BY <1>2, <1>3, <1>4, <1>5, <1>6 DEF StepFrame
<1> QED BY <1>2, <1>7

LEMMA AgreeToken ==
  ASSUME BaseInv, AgreeInv, OrderInv, LockstepToken
  PROVE  AgreeInv'
<1>1. PICK f : f = Head(ring)
  OBVIOUS
<1>1a. TokenDone(f)
  BY <1>1, TokenEffect
<1>2. /\ mode = 0 /\ pc[0] = "tok" /\ ring # <<>> /\ f \in ToSet(ring) /\ f.tag = "tok"
      /\ Others(0) /\ ToSet(rows[0]) \subseteq ToSet(eng[0].running) /\ ring' = Tail(ring) /\ mode' = mode
      /\ rows'[0] = rows[0] /\ weights'[0] = weights[0] /\ waveOf'[0] = waveOf[0] /\ pc'[0] = "loop"
      /\ eng'[0] = Book(eng[0], rows[0], Ended(f.toks))
      /\ down' = (IF LastStage = 1 THEN down ELSE [down EXCEPT ![0] = Append(@, f)])
  BY <1>1a DEF TokenDone
<1>3. 0 \in Stages /\ 0 \in Links /\ EngineOK(eng[0]) /\ TypeInv /\ Line(ring) /\ Line(down[0])
      /\ 1 \in Followers /\ 1 \in Stages /\ 1 - 1 = 0 /\ 0 # LastStage /\ 0 + 1 = 1
  <2>1. 0 \in Stages /\ 0 \in Links /\ EngineOK(eng[0]) /\ TypeInv
    BY StageFacts DEF BaseInv, EngineInv
  <2>2. Line(ring) /\ Line(down[0])
    BY <2>1 DEF TypeInv
  <2>3. 1 \in Followers /\ 1 \in Stages /\ 1 - 1 = 0 /\ 0 # LastStage /\ 0 + 1 = 1
    BY StageFacts DEF Followers, Stages
  <2> QED BY <2>1, <2>2, <2>3
<1>4. Local(0) = View("tok", eng[0], waveOf[0], rows[0], weights[0])
  BY <1>2, LocalIs
<1>5. /\ AfterTok(Local(0), f) = View("ctl", Book(eng[0], rows[0], Ended(f.toks)), waveOf[0], rows[0], weights[0])
      /\ After(Local(0), f) = AfterTok(Local(0), f)
  <2>1. EngineOK(eng[0]) /\ ToSet(rows[0]) \subseteq ToSet(eng[0].running) /\ f.tag = "tok"
    BY <1>2, <1>3
  <2>2. /\ AfterTok(View("tok", eng[0], waveOf[0], rows[0], weights[0]), f)
           = View("ctl", Book(eng[0], rows[0], Ended(f.toks)), waveOf[0], rows[0], weights[0])
        /\ After(View("tok", eng[0], waveOf[0], rows[0], weights[0]), f)
           = AfterTok(View("tok", eng[0], waveOf[0], rows[0], weights[0]), f)
    BY ONLY <2>1, AfterOfTok
  <2> QED BY <1>4, <2>2
<1>6. Local(0)' = View("ctl", Book(eng[0], rows[0], Ended(f.toks)), waveOf[0], rows[0], weights[0])
  BY <1>2 DEF Local
<1>7. Local(0)'.pc # "dead"
  BY <1>6, ViewFields
<1>8. Answers' \subseteq Answers
  <2>1. ToSet(ring') \subseteq ToSet(ring)
    BY <1>2, <1>3, LineLess
  <2>2. PICK g : g = [tag |-> "ctl"]
    OBVIOUS
  <2>3. g.tag # "tok"
    BY <2>2
  <2> QED BY <1>2, <1>3, <2>1, <2>3, FirstAnswers
<1>9. CASE LastStage = 1
  <2>1. down[0] = <<>> /\ down' = down
    BY <1>2, <1>3, <1>9 DEF OrderInv
  <2>2. Ahead(1)
    BY <1>2, <1>3, <1>9, <2>1 DEF Ahead
  <2>3. f \in Answers
    BY <1>2 DEF Answers
  <2>4. Local(1) = AfterTok(Local(0), f)
    BY <1>3, <2>2, <2>3 DEF AgreeInv
  <2>5. Local(1)' = Local(0)'
    <3>1. Local(1)' = Local(1)
      BY <1>2, <1>3, LocalSame
    <3> QED BY <1>5, <1>6, <2>4, <3>1
  <2>6. AgreeAt(1)'
    <3>1. ~Ahead(1)'
      BY <1>2, <1>3 DEF Ahead
    <3>2. Follows(Local(1)', <<>>, Local(0)')
      BY <1>7, <2>5, FollowsNothing
    <3> QED BY <1>3, <2>1, <3>1, <3>2 DEF AgreeAt
  <2> QED BY <1>2, <1>3, <1>8, <2>1, <2>6, AgreeOthers
<1>10. CASE LastStage # 1
  <2>1. ~Ahead(1)
    BY <1>10 DEF Ahead
  <2>2. down' = [down EXCEPT ![0] = Append(@, f)]
    BY <1>2, <1>10
  <2>3. Local(0)' = After(Local(0), f)
    BY <1>5, <1>6
  <2> QED BY <1>2, <1>7, <1>8, <2>1, <2>2, <2>3, AgreeSent
<1> QED BY <1>9, <1>10

LEMMA AgreeIdle ==
  ASSUME BaseInv, AgreeInv, NEW f, IdleDone(f)
  PROVE  AgreeInv'
<1>1. /\ pc[0] = "loop" /\ pc' = pc /\ Others(0) /\ UNCHANGED <<mode, ring>> /\ f.tag = "ctl"
      /\ down' = [down EXCEPT ![0] = Append(@, f)]
      /\ After(View("ctl", eng[0], waveOf[0], rows[0], weights[0]), f) =
           View("ctl", eng'[0], waveOf'[0], rows'[0], weights'[0])
  BY DEF IdleDone
<1>2. Local(0) = View("ctl", eng[0], waveOf[0], rows[0], weights[0])
  BY <1>1, LocalIs
<1>3. Local(0)' = View("ctl", eng'[0], waveOf'[0], rows'[0], weights'[0])
  BY <1>1 DEF Local
<1>4. Local(0)' = After(Local(0), f) /\ Local(0)'.pc # "dead"
  BY <1>1, <1>2, <1>3, ViewFields
<1>5. ~Ahead(1)
  <2>1. 1 - 1 = 0
    OBVIOUS
  <2> QED BY <1>1, <2>1 DEF Ahead
<1>6. Answers' \subseteq Answers
  <2>1. TypeInv
    BY DEF BaseInv
  <2> QED BY <1>1, <2>1, FirstAnswers
<1> QED BY <1>1, <1>4, <1>5, <1>6, AgreeSent

\* A request that leaves its wave at its length is in no engine of stage 0 any more.
LEMMA AgreeAbsorb ==
  ASSUME BaseInv, AgreeInv, ToldInv, NEW w \in Waves, AbsorbDone(w)
  PROVE  AgreeInv'
<1>1. /\ mode > 0 /\ pc[0] = "loop"
      /\ UNCHANGED <<mode, pc, eng, rows, weights, down>>
      /\ waveOf' = [t \in Stages |-> waveOf'[t]] /\ \A t \in Stages : t # 0 => waveOf'[t] = waveOf[t]
      /\ \/ waveOf' = waveOf
         \/ /\ rowQ[w] # <<>>
            /\ \A r \in Requests : waveOf'[0][r] # waveOf[0][r] =>
                 waveOf'[0][r] = NoWave /\ r \in ToSet(Head(rowQ[w])) /\ Len(told[r]) + 1 >= MaxTokens[r]
  BY DEF AbsorbDone
<1>2. TypeInv /\ EngineOK(eng[0]) /\ 0 \in Stages
  BY StageFacts DEF BaseInv, EngineInv
<1>3. \A r \in Requests : r \in Inside(eng[0]) => waveOf[0][r] = waveOf'[0][r]
  <2>1. SUFFICES ASSUME NEW r \in Requests, r \in Inside(eng[0]), waveOf'[0][r] # waveOf[0][r] PROVE FALSE
    OBVIOUS
  <2>2. rowQ[w] # <<>> /\ r \in ToSet(Head(rowQ[w])) /\ Len(told[r]) + 1 >= MaxTokens[r]
    BY <1>1, <2>1
  <2>3. Head(rowQ[w]) = rowQ[w][1] /\ Len(told[r]) \in Nat
    BY <1>2, <2>2, LineLess, LineFacts DEF TypeInv
  <2>4. Len(told[r]) < eng[0].booked[r]
    BY <1>1, <2>2, <2>3 DEF ToldInv
  <2>5. eng[0].booked[r] < MaxTokens[r] /\ eng[0].booked[r] \in Nat /\ MaxTokens[r] \in Nat
    BY <1>2, <2>1, SpliceAssumption DEF EngineOK
  <2> QED BY <2>2, <2>3, <2>4, <2>5
<1>4. Local(0)' = Local(0)
  <2>1. Local(0) = View("ctl", eng[0], waveOf[0], rows[0], weights[0])
    BY <1>1, LocalIs
  <2>2. Local(0)' = View("ctl", eng[0], waveOf'[0], rows[0], weights[0])
    BY <1>1 DEF Local
  <2>3. View("ctl", eng[0], waveOf[0], rows[0], weights[0]) = View("ctl", eng[0], waveOf'[0], rows[0], weights[0])
    BY <1>3, ViewSame
  <2> QED BY <2>1, <2>2, <2>3
<1>5. \A t \in Stages : Local(t)' = Local(t)
  <2>1. \A t \in Stages : t # 0 => Local(t)' = Local(t)
    BY <1>1 DEF Local
  <2> QED BY <1>4, <2>1
<1>6. ASSUME NEW s \in Followers PROVE AgreeAt(s)'
  <2>1. s \in Stages /\ s - 1 \in Stages
    BY StageFacts
  <2>2. ~Ahead(s) /\ ~Ahead(s)'
    BY <1>1 DEF Ahead
  <2>3. Follows(Local(s), down[s - 1], Local(s - 1))
    BY <2>2 DEF AgreeInv
  <2>4. Follows(Local(s)', down'[s - 1], Local(s - 1)')
    BY <1>1, <1>5, <2>1, <2>3
  <2> QED BY <2>2, <2>4 DEF AgreeAt
<1> QED BY <1>6 DEF AgreeInv, AgreeAt

-----------------------------------------------------------------------------
(* In lockstep one step is under way. *)

RingAlone == ring # <<>> => Len(ring) = 1 /\ \A s \in Links : pc[s] = "tok" /\ down[s] = <<>>
TokAt(s, i) ==
  down[s][i].tag = "tok" => i = 1 /\ \A t \in Links : t > s => pc[t] = "tok" /\ down[t] = <<>>
HrAt(s, i) ==
  down[s][i].tag = "hr" =>
    /\ i = Len(down[s]) /\ down[s][i].wave = NoWave
    /\ \A t \in Links : t <= s => pc[t] = "tok" /\ (t < s => down[t] = <<>>)

LEMMA OrderIs ==
  OrderInv <=> (mode = 0 => /\ \A w \in Waves : rowQ[w] = <<>>
                            /\ RingAlone /\ \A s \in Links : \A i \in DOMAIN down[s] : TokAt(s, i) /\ HrAt(s, i))
  BY DEF OrderInv, RingAlone, TokAt, HrAt

LEMMA OrderAfter ==
  ASSUME \A w \in Waves : rowQ'[w] = <<>>, RingAlone',
         \A s \in Links : \A i \in DOMAIN down'[s] : TokAt(s, i)' /\ HrAt(s, i)'
  PROVE  OrderInv'
  BY DEF OrderInv, RingAlone, TokAt, HrAt

LEMMA OrderCtl ==
  ASSUME BaseInv, AgreeInv, OrderInv, NEW s \in Followers, TakeCtl(s)
  PROVE  OrderInv'
<1>1. PICK f : f = Head(down[s - 1])
  OBVIOUS
<1>2. /\ down[s - 1] # <<>> /\ pc[s] = "ctl" /\ Others(s) /\ UNCHANGED <<mode, ring, rowQ>>
      /\ \/ f.tag # "ctl"
         \/ /\ f.tag = "ctl"
            /\ down' = IF s = LastStage THEN Rest(s) ELSE [Rest(s) EXCEPT ![s] = Append(@, f)]
  BY <1>1, CtlEffect
<1>3. f.tag = "ctl" /\ (down' = Rest(s) \/ (s # LastStage /\ down' = [Rest(s) EXCEPT ![s] = Append(@, f)]))
  <2>1. f.tag = pc[s]
    BY <1>1, <1>2, Awaits
  <2> QED BY <1>2, <2>1
<1>4. s - 1 \in Links /\ s - 1 # s /\ TypeInv /\ s \in Int /\ Line(down[s - 1]) /\ \A u \in Links : u \in Stages /\ u \in Int
  <2>1. TypeInv
    BY DEF BaseInv
  <2> QED BY <2>1, StageFacts DEF TypeInv
<1>5. SUFFICES ASSUME mode = 0 PROVE OrderInv'
  BY <1>2 DEF OrderInv
<1>6. /\ \A w \in Waves : rowQ[w] = <<>>
      /\ RingAlone /\ \A u \in Links : \A i \in DOMAIN down[u] : TokAt(u, i) /\ HrAt(u, i)
  BY <1>5, OrderIs
<1>7. /\ \A u \in Links : Line(down'[u])
      /\ down'[s - 1] = Tail(down[s - 1]) /\ \A u \in Links : u # s - 1 /\ u # s => down'[u] = down[u]
      /\ \A u \in Links : \A i \in DOMAIN down'[u] :
           \/ i + Shift(s, u) \in DOMAIN down[u] /\ down'[u][i] = down[u][i + Shift(s, u)]
           \/ u = s /\ i = Len(down[s]) + 1 /\ down'[u][i] = f
  BY <1>2, <1>3, <1>4, FollowerLinks
<1>8. /\ f = down[s - 1][1] /\ 1 \in DOMAIN down[s - 1] /\ Len(down'[s - 1]) = Len(down[s - 1]) - 1
      /\ Len(down[s - 1]) \in Nat
  BY <1>1, <1>2, <1>4, <1>7, LineLess
<1>9. ring = <<>>
  BY <1>2, <1>4, <1>6 DEF RingAlone
<1>10. \A u \in Links : u # s => pc'[u] = pc[u]
  BY <1>2, <1>4 DEF Others
<1>11. ASSUME NEW u \in Links, NEW i \in DOMAIN down'[u] PROVE TokAt(u, i)' /\ HrAt(u, i)'
  <2>1. CASE down'[u][i].tag \in {"tok", "hr"}
    <3>1. i + Shift(s, u) \in DOMAIN down[u] /\ down'[u][i] = down[u][i + Shift(s, u)]
      BY <1>3, <1>7, <2>1
    <3>2. TokAt(u, i + Shift(s, u)) /\ HrAt(u, i + Shift(s, u))
      BY <1>6, <3>1
    <3>3. i \in Nat \ {0} /\ u \in Int
      BY <1>4, <1>7, <1>11, LineFacts
    <3>4. CASE down'[u][i].tag = "tok"
      <4>1. i + Shift(s, u) = 1 /\ \A t \in Links : t > u => pc[t] = "tok" /\ down[t] = <<>>
        BY <3>1, <3>2, <3>4 DEF TokAt
      <4>2. u # s - 1
        BY <1>3, <1>8, <3>1, <3>4, <4>1
      <4>3. i = 1
        BY <3>3, <4>1, <4>2 DEF Shift
      <4>4. u > s - 1
        <5>1. ~(s - 1 > u)
          BY <1>2, <1>4, <4>1
        <5> QED BY <1>4, <3>3, <4>2, <5>1
      <4>5. \A t \in Links : t > u => t # s /\ t # s - 1
        BY <1>4, <3>3, <4>4
      <4>6. \A t \in Links : t > u => pc'[t] = "tok" /\ down'[t] = <<>>
        BY <1>7, <1>10, <4>1, <4>5
      <4> QED BY <3>4, <4>3, <4>6 DEF TokAt, HrAt
    <3>5. CASE down'[u][i].tag = "hr"
      <4>1. /\ i + Shift(s, u) = Len(down[u]) /\ down[u][i + Shift(s, u)].wave = NoWave
            /\ \A t \in Links : t <= u => pc[t] = "tok" /\ (t < u => down[t] = <<>>)
        BY <3>1, <3>2, <3>5 DEF HrAt
      <4>2. u <= s - 1
        BY <1>2, <1>4, <3>3, <4>1
      <4>3. u # s /\ \A t \in Links : t <= u => t # s /\ (t < u => t # s - 1)
        BY <1>4, <3>3, <4>2
      <4>4. i = Len(down'[u])
        <5>1. CASE u = s - 1
          BY <1>8, <3>3, <4>1, <5>1 DEF Shift
        <5>2. CASE u # s - 1
          BY <1>7, <3>3, <4>1, <4>3, <5>2 DEF Shift
        <5> QED BY <5>1, <5>2
      <4>5. \A t \in Links : t <= u => pc'[t] = "tok" /\ (t < u => down'[t] = <<>>)
        BY <1>7, <1>10, <4>1, <4>3
      <4>6. down'[u][i].wave = NoWave
        BY <3>1, <4>1
      <4> QED BY <3>5, <4>4, <4>5, <4>6 DEF TokAt, HrAt
    <3> QED BY <2>1, <3>4, <3>5
  <2>2. CASE down'[u][i].tag \notin {"tok", "hr"}
    BY <2>2 DEF TokAt, HrAt
  <2> QED BY <2>1, <2>2
<1>12. RingAlone' /\ \A w \in Waves : rowQ'[w] = <<>>
  BY <1>2, <1>6, <1>9 DEF RingAlone
<1> QED BY <1>11, <1>12, OrderAfter

LEMMA OrderHr ==
  ASSUME BaseInv, AgreeInv, OrderInv, NEW s \in Followers, TakeHr(s)
  PROVE  OrderInv'
<1>1. PICK f : f = Head(down[s - 1])
  OBVIOUS
<1>1a. HrDone(s, f)
  BY <1>1, HrEffect
<1>2. down[s - 1] # <<>> /\ pc[s] = "hr" /\ Others(s) /\ UNCHANGED <<mode, rowQ>>
  BY <1>1a DEF HrDone
<1>3. f.tag = "hr"
  BY <1>1, <1>2, Awaits
<1>4. SUFFICES ASSUME mode = 0 PROVE OrderInv'
  BY <1>2 DEF OrderInv
<1>5. s - 1 \in Links /\ s - 1 # s /\ TypeInv /\ s \in Int /\ \A u \in Links : u \in Stages /\ u \in Int
  BY StageFacts DEF BaseInv
<1>6. /\ \A w \in Waves : rowQ[w] = <<>>
      /\ RingAlone /\ \A u \in Links : \A i \in DOMAIN down[u] : TokAt(u, i) /\ HrAt(u, i)
  BY <1>4, OrderIs
<1>7. /\ ring = <<>> /\ Tail(down[s - 1]) = <<>> /\ f.wave = NoWave
      /\ \A t \in Links : t <= s - 1 => pc[t] = "tok" /\ (t < s - 1 => down[t] = <<>>)
  BY <1>1, <1>2, <1>3, <1>4, HrAlone
<1>8. PICK g : g = Hr(f.wave, rows[s], weights[s])
  OBVIOUS
<1>9. g.tag = "hr" /\ g.wave = NoWave
  BY <1>7, <1>8 DEF Hr
<1>10. \/ s = LastStage /\ down' = Rest(s) /\ \E h : ring' = Append(ring, h)
       \/ s # LastStage /\ ring' = ring /\ pc'[s] = "tok" /\ down' = [Rest(s) EXCEPT ![s] = Append(@, g)]
  BY <1>1a, <1>3, <1>4, <1>8 DEF HrDone
<1>11. /\ \A u \in Links : Line(down'[u])
       /\ down'[s - 1] = Tail(down[s - 1]) /\ \A u \in Links : u # s - 1 /\ u # s => down'[u] = down[u]
       /\ \A u \in Links : \A i \in DOMAIN down'[u] :
            \/ i + Shift(s, u) \in DOMAIN down[u] /\ down'[u][i] = down[u][i + Shift(s, u)]
            \/ u = s /\ i = Len(down[s]) + 1 /\ down'[u][i] = g
  BY <1>2, <1>5, <1>10, FollowerLinks
<1>12. \A u \in Links : u # s => pc'[u] = pc[u]
  BY <1>2, <1>5 DEF Others
<1>13. \A u \in Links : u <= s - 1 => down'[u] = <<>> /\ pc'[u] = "tok" /\ u # s
  <2>1. ASSUME NEW u \in Links, u <= s - 1 PROVE down'[u] = <<>> /\ pc'[u] = "tok" /\ u # s
    <3>1. pc'[u] = "tok" /\ u # s
      BY <1>5, <1>7, <1>12, <2>1
    <3>2. CASE u = s - 1
      BY <1>7, <1>11, <3>1, <3>2
    <3>3. CASE u # s - 1
      <4>1. u < s - 1
        BY <1>5, <2>1, <3>3
      <4> QED BY <1>7, <1>11, <2>1, <3>1, <3>3, <4>1
    <3> QED BY <3>2, <3>3
  <2> QED BY <2>1
<1>14. CASE s = LastStage
  <2>1. \A u \in Links : u <= s - 1
    BY <1>14, StageFacts DEF Links
  <2>2. \A u \in Links : down'[u] = <<>> /\ pc'[u] = "tok" /\ DOMAIN down'[u] = {}
    BY <1>13, <2>1
  <2>3. Len(ring') = 1
    <3>1. PICK h : ring' = Append(ring, h)
      BY <1>10, <1>14
    <3>2. Len(Append(<<>>, h)) = 1
      OBVIOUS
    <3> QED BY <1>7, <3>1, <3>2
  <2>4. RingAlone'
    BY <2>2, <2>3 DEF RingAlone
  <2> QED BY <1>2, <1>6, <2>2, <2>4, OrderAfter
<1>15. CASE s # LastStage
  <2>1. ring' = <<>> /\ pc'[s] = "tok" /\ s \in Links /\ down' = [Rest(s) EXCEPT ![s] = Append(@, g)]
    BY <1>7, <1>10, <1>15, StageFacts
  <2>2. down'[s] = Append(down[s], g) /\ Line(down[s]) /\ Len(down[s]) \in Nat /\ Len(down'[s]) = Len(down[s]) + 1
    <3>1. Line(down[s])
      BY <1>5, <2>1 DEF TypeInv
    <3>2. Len(down[s]) \in Nat /\ Len(Append(down[s], g)) = Len(down[s]) + 1
      BY <3>1, LineMore
    <3>3. down'[s] = Append(down[s], g)
      BY <1>5, <1>15, <2>1, HandsOn
    <3> QED BY <3>1, <3>2, <3>3
  <2>3. RingAlone'
    BY <2>1 DEF RingAlone
  <2>4. ASSUME NEW u \in Links, NEW i \in DOMAIN down'[u] PROVE TokAt(u, i)' /\ HrAt(u, i)'
    <3>1. u \in Int /\ ~(u <= s - 1)
      <4>1. DOMAIN <<>> = {}
        OBVIOUS
      <4> QED BY <1>5, <1>13, <2>4, <4>1
    <3>2. Shift(s, u) = 0 /\ i + 0 = i
      <4>1. i \in Nat
        BY <1>11, <2>4, LineFacts
      <4> QED BY <1>5, <3>1, <4>1 DEF Shift
    <3>3. CASE i \in DOMAIN down[u] /\ down'[u][i] = down[u][i]
      <4>1. TokAt(u, i) /\ HrAt(u, i)
        BY <1>6, <3>3
      <4>2. down[u][i].tag # "hr"
        <5>1. s <= u
          BY <1>5, <3>1
        <5> QED BY <1>2, <2>1, <4>1, <5>1 DEF HrAt
      <4>3. \A t \in Links : t > u => t # s /\ t # s - 1
        BY <1>5, <3>1
      <4>4. down[u][i].tag = "tok" => i = 1 /\ \A t \in Links : t > u => pc'[t] = "tok" /\ down'[t] = <<>>
        BY <1>11, <1>12, <4>1, <4>3 DEF TokAt
      <4> QED BY <3>3, <4>2, <4>4 DEF TokAt, HrAt
    <3>4. CASE u = s /\ i = Len(down[s]) + 1 /\ down'[u][i] = g
      <4>1. \A t \in Links : t <= u => pc'[t] = "tok" /\ (t < u => down'[t] = <<>>)
        <5>1. ASSUME NEW t \in Links, t <= u PROVE t = s \/ t <= s - 1
          BY <1>5, <3>4, <5>1
        <5> QED BY <1>5, <1>13, <2>1, <3>4, <5>1
      <4> QED BY <1>9, <2>2, <3>4, <4>1 DEF TokAt, HrAt
    <3> QED BY <1>11, <2>4, <3>2, <3>3, <3>4
  <2> QED BY <1>2, <1>6, <2>3, <2>4, OrderAfter
<1> QED BY <1>14, <1>15

LEMMA OrderTok ==
  ASSUME BaseInv, AgreeInv, OrderInv, NEW s \in Followers, s # LastStage, TakeTok(s)
  PROVE  OrderInv'
<1>1. PICK f : f = Head(down[s - 1])
  OBVIOUS
<1>1a. TokDone(s, f)
  BY <1>1, TokEffect
<1>2. /\ down[s - 1] # <<>> /\ pc[s] = "tok" /\ Others(s) /\ UNCHANGED <<mode, ring, rowQ>>
      /\ \/ f.tag # "tok"
         \/ down' = IF s + 1 = LastStage THEN Rest(s) ELSE [Rest(s) EXCEPT ![s] = Append(@, f)]
  BY <1>1a DEF TokDone
<1>3. f.tag = "tok" /\ (down' = Rest(s) \/ down' = [Rest(s) EXCEPT ![s] = Append(@, f)])
  <2>1. f.tag = pc[s]
    BY <1>1, <1>2, Awaits
  <2> QED BY <1>2, <2>1
<1>4. SUFFICES ASSUME mode = 0 PROVE OrderInv'
  BY <1>2 DEF OrderInv
<1>5. s - 1 \in Links /\ s \in Links /\ s - 1 # s /\ TypeInv /\ s \in Int /\ \A u \in Links : u \in Stages /\ u \in Int
  BY StageFacts DEF BaseInv
<1>6. /\ \A w \in Waves : rowQ[w] = <<>>
      /\ RingAlone /\ \A u \in Links : \A i \in DOMAIN down[u] : TokAt(u, i) /\ HrAt(u, i)
  BY <1>4, OrderIs
<1>7. ring = <<>> /\ \A t \in Links : t > s - 1 => pc[t] = "tok" /\ down[t] = <<>>
  BY <1>1, <1>2, <1>3, <1>4, TokAlone
<1>8. /\ \A u \in Links : Line(down'[u])
      /\ down'[s - 1] = Tail(down[s - 1]) /\ \A u \in Links : u # s - 1 /\ u # s => down'[u] = down[u]
      /\ \A u \in Links : \A i \in DOMAIN down'[u] :
           \/ i + Shift(s, u) \in DOMAIN down[u] /\ down'[u][i] = down[u][i + Shift(s, u)]
           \/ u = s /\ i = Len(down[s]) + 1 /\ down'[u][i] = f
  BY <1>2, <1>3, <1>5, FollowerLinks
<1>9. \A u \in Links : u # s => pc'[u] = pc[u]
  BY <1>2, <1>5 DEF Others
<1>10. /\ Len(down'[s - 1]) = Len(down[s - 1]) - 1 /\ Len(down[s - 1]) \in Nat
  BY <1>2, <1>5, <1>8, LineLess DEF TypeInv
<1>11. down[s] = <<>> /\ Len(down[s]) = 0
  BY <1>5, <1>7
<1>12. RingAlone'
  BY <1>2, <1>7 DEF RingAlone
<1>13. \A t \in Links : t > s => t # s /\ t # s - 1 /\ t > s - 1
  BY <1>5
<1>14. ASSUME NEW u \in Links, NEW i \in DOMAIN down'[u] PROVE TokAt(u, i)' /\ HrAt(u, i)'
  <2>1. CASE u = s /\ i = Len(down[s]) + 1 /\ down'[u][i] = f
    <3>1. i = 1 /\ \A t \in Links : t > u => pc'[t] = "tok" /\ down'[t] = <<>>
      BY <1>7, <1>8, <1>9, <1>11, <1>13, <2>1
    <3> QED BY <1>3, <2>1, <3>1 DEF TokAt, HrAt
  <2>2. CASE i + Shift(s, u) \in DOMAIN down[u] /\ down'[u][i] = down[u][i + Shift(s, u)]
    <3>1. i \in Nat \ {0} /\ u \in Int
      BY <1>5, <1>8, <1>14, LineFacts
    <3>2. TokAt(u, i + Shift(s, u)) /\ HrAt(u, i + Shift(s, u))
      BY <1>6, <2>2
    <3>3. u <= s - 1
      <4>1. DOMAIN <<>> = {}
        OBVIOUS
      <4> QED BY <1>5, <1>7, <2>2, <3>1, <4>1
    <3>4. down'[u][i].tag # "tok"
      <4>1. SUFFICES ASSUME down'[u][i].tag = "tok" PROVE FALSE
        OBVIOUS
      <4>2. i + Shift(s, u) = 1 /\ \A t \in Links : t > u => pc[t] = "tok" /\ down[t] = <<>>
        BY <2>2, <3>2, <4>1 DEF TokAt
      <4>3. u = s - 1
        BY <1>2, <1>5, <3>1, <3>3, <4>2
      <4> QED BY <3>1, <4>2, <4>3 DEF Shift
    <3>5. ASSUME down'[u][i].tag = "hr" PROVE HrAt(u, i)'
      <4>1. /\ i + Shift(s, u) = Len(down[u]) /\ down[u][i + Shift(s, u)].wave = NoWave
            /\ \A t \in Links : t <= u => pc[t] = "tok" /\ (t < u => down[t] = <<>>)
        BY <2>2, <3>2, <3>5 DEF HrAt
      <4>2. u # s /\ \A t \in Links : t <= u => t # s /\ (t < u => t # s - 1)
        BY <1>5, <3>1, <3>3
      <4>3. i = Len(down'[u])
        <5>1. CASE u = s - 1
          BY <1>10, <3>1, <4>1, <5>1 DEF Shift
        <5>2. CASE u # s - 1
          BY <1>8, <3>1, <4>1, <4>2, <5>2 DEF Shift
        <5> QED BY <5>1, <5>2
      <4>4. \A t \in Links : t <= u => pc'[t] = "tok" /\ (t < u => down'[t] = <<>>)
        BY <1>8, <1>9, <4>1, <4>2
      <4> QED BY <2>2, <4>1, <4>3, <4>4 DEF HrAt
    <3>6. HrAt(u, i)'
      BY <3>5 DEF HrAt
    <3> QED BY <3>4, <3>6 DEF TokAt
  <2> QED BY <1>8, <1>14, <2>1, <2>2
<1> QED BY <1>2, <1>6, <1>12, <1>14, OrderAfter

\* Stage 0 sends control frames, with the hidden states of their steps, when nothing is under way.
LEMMA OrderSent ==
  ASSUME BaseInv, OrderInv, pc[0] = "loop", Others(0), UNCHANGED <<mode, ring, rowQ>>,
         NEW f, f.tag = "ctl", NEW g,
         \/ down' = [down EXCEPT ![0] = Append(@, f)]
         \/ down' = [down EXCEPT ![0] = Append(Append(@, f), g)] /\ pc'[0] = "tok" /\ g.tag = "hr" /\ g.wave = NoWave
  PROVE  OrderInv'
<1>1. SUFFICES ASSUME mode = 0 PROVE OrderInv'
  BY DEF OrderInv
<1>2. 0 \in Links /\ TypeInv /\ (\A u \in Links : u \in Stages /\ u \in Int /\ 0 <= u) /\ \A u \in Links : u <= 0 => u = 0 /\ ~(u < 0)
  BY StageFacts DEF BaseInv, Links
<1>3. /\ \A w \in Waves : rowQ[w] = <<>>
      /\ RingAlone /\ \A u \in Links : \A i \in DOMAIN down[u] : TokAt(u, i) /\ HrAt(u, i)
  BY <1>1, OrderIs
<1>4. ring = <<>>
  <2>1. pc[0] # "tok"
    OBVIOUS
  <2> QED BY <1>2, <1>3, <2>1 DEF RingAlone
<1>5. /\ \A u \in Links : u # 0 => down'[u] = down[u]
      /\ \A u \in Links : \A i \in DOMAIN down'[u] :
           \/ i \in DOMAIN down[u] /\ down'[u][i] = down[u][i]
           \/ u = 0 /\ i = Len(down[0]) + 1 /\ down'[u][i] = f
           \/ /\ u = 0 /\ i = Len(down[0]) + 2 /\ i = Len(down'[0]) /\ down'[u][i] = g
              /\ down' = [down EXCEPT ![0] = Append(Append(@, f), g)]
  <2>1. down' = [down EXCEPT ![0] = Append(@, f)] \/ down' = [down EXCEPT ![0] = Append(Append(@, f), g)]
    OBVIOUS
  <2> QED BY ONLY <1>2, <2>1, FirstLinks
<1>6. \A u \in Links : u # 0 => pc'[u] = pc[u]
  BY <1>2 DEF Others
<1>7. ASSUME NEW u \in Links, NEW i \in DOMAIN down'[u] PROVE TokAt(u, i)' /\ HrAt(u, i)'
  <2>1. CASE i \in DOMAIN down[u] /\ down'[u][i] = down[u][i]
    <3>1. TokAt(u, i) /\ HrAt(u, i)
      BY <1>3, <2>1
    <3>2. down[u][i].tag # "hr"
      BY <1>2, <3>1 DEF HrAt
    <3>3. \A t \in Links : t > u => t # 0
      BY <1>2
    <3>4. down[u][i].tag = "tok" => i = 1 /\ \A t \in Links : t > u => pc'[t] = "tok" /\ down'[t] = <<>>
      BY <1>5, <1>6, <3>1, <3>3 DEF TokAt
    <3> QED BY <2>1, <3>2, <3>4 DEF TokAt, HrAt
  <2>2. CASE down'[u][i] = f
    BY <2>2 DEF TokAt, HrAt
  <2>3. CASE /\ u = 0 /\ i = Len(down'[0]) /\ down'[u][i] = g
             /\ down' = [down EXCEPT ![0] = Append(Append(@, f), g)]
    <3>1. CASE down' = [down EXCEPT ![0] = Append(@, f)]
      <4>1. Append(down[0], f) = Append(Append(down[0], f), g)
        BY <1>2, <2>3, <3>1 DEF TypeInv
      <4>2. Line(down[0]) /\ Line(Append(down[0], f)) /\ Len(Append(down[0], f)) \in Nat
        BY <1>2, LineMore DEF TypeInv
      <4>3. Len(Append(Append(down[0], f), g)) = Len(Append(down[0], f)) + 1
        BY ONLY <4>2, LineMore
      <4> QED BY <4>1, <4>2, <4>3
    <3>2. CASE pc'[0] = "tok" /\ g.tag = "hr" /\ g.wave = NoWave
      BY <1>2, <2>3, <3>2 DEF TokAt, HrAt
    <3> QED BY <3>1, <3>2
  <2> QED BY <1>5, <1>7, <2>1, <2>2, <2>3
<1>8. RingAlone' /\ \A w \in Waves : rowQ'[w] = <<>>
  BY <1>3, <1>4 DEF RingAlone
<1> QED BY <1>7, <1>8, OrderAfter

LEMMA OrderStepped ==
  ASSUME BaseInv, OrderInv, LockstepStep
  PROVE  OrderInv'
<1>1. PICK f : StepFrame(f)
  BY LockstepFrameIs
<1>2. PICK g : StepDone(f, g)
  BY <1>1, StepEffect
<1>3. /\ Others(0) /\ g.tag = "hr" /\ g.wave = f.wave
      /\ down' = [down EXCEPT ![0] = IF rows'[0] # <<>> THEN Append(Append(@, f), g) ELSE Append(@, f)]
  BY <1>2 DEF StepDone
<1>4. mode = 0 /\ rowQ' = rowQ
  BY DEF LockstepStep, MayStep, waves
<1>5. /\ f.tag = "ctl" /\ pc[0] = "loop" /\ UNCHANGED <<mode, ring>> /\ f.wave = NoWave
      /\ pc' = [pc EXCEPT ![0] = IF mode = 0 /\ rows'[0] # <<>> THEN "tok" ELSE "loop"]
  BY <1>1, <1>4 DEF StepFrame
<1>6. CASE rows'[0] = <<>>
  BY <1>3, <1>4, <1>5, <1>6, OrderSent
<1>7. CASE rows'[0] # <<>>
  <2>1. pc'[0] = "tok"
    BY <1>4, <1>5, <1>7, StageFacts DEF BaseInv, TypeInv
  <2> QED BY <1>3, <1>4, <1>5, <1>7, <2>1, OrderSent
<1> QED BY <1>6, <1>7

LEMMA OrderIdle ==
  ASSUME BaseInv, OrderInv, NEW f, IdleDone(f)
  PROVE  OrderInv'
<1>1. /\ pc[0] = "loop" /\ Others(0) /\ UNCHANGED <<mode, ring, rowQ>> /\ f.tag = "ctl"
      /\ down' = [down EXCEPT ![0] = Append(@, f)]
  BY DEF IdleDone
<1> QED BY <1>1, OrderSent

LEMMA OrderToken ==
  ASSUME BaseInv, OrderInv, LockstepToken
  PROVE  OrderInv'
<1>1. PICK f : f = Head(ring)
  OBVIOUS
<1>1a. TokenDone(f)
  BY <1>1, TokenEffect
<1>2. /\ mode = 0 /\ ring # <<>> /\ f.tag = "tok" /\ Others(0) /\ ring' = Tail(ring) /\ UNCHANGED <<mode, rowQ>>
      /\ down' = (IF LastStage = 1 THEN down ELSE [down EXCEPT ![0] = Append(@, f)])
  BY <1>1a DEF TokenDone
<1>3. 0 \in Links /\ TypeInv /\ Line(ring) /\ \A u \in Links : u \in Stages /\ u \in Int
  <2>1. TypeInv
    BY DEF BaseInv
  <2> QED BY <2>1, StageFacts DEF TypeInv
<1>4. /\ \A w \in Waves : rowQ[w] = <<>>
      /\ Len(ring) = 1 /\ \A s \in Links : pc[s] = "tok" /\ down[s] = <<>>
  BY <1>2 DEF OrderInv
<1>5. ring' = <<>>
  <2>1. PICK q : q = Tail(ring)
    OBVIOUS
  <2>2. Line(q) /\ Len(q) = 0
    BY <1>2, <1>3, <1>4, <2>1, LineLess
  <2> QED BY <1>2, <2>1, <2>2, LineFacts
<1>6. \A u \in Links : u # 0 => pc'[u] = "tok"
  BY <1>2, <1>3, <1>4 DEF Others
<1>7. down'[0] \in {<<>>, <<f>>} /\ \A u \in Links : u # 0 => down'[u] = <<>>
  <2>1. CASE down' = down
    BY <1>3, <1>4, <2>1
  <2>2. CASE down' = [down EXCEPT ![0] = Append(@, f)]
    <3>1. down'[0] = Append(<<>>, f) /\ \A u \in Links : u # 0 => down'[u] = down[u]
      BY <1>3, <1>4, <2>2, OneMore
    <3>2. Append(<<>>, f) = <<f>>
      OBVIOUS
    <3> QED BY <1>4, <3>1, <3>2
  <2> QED BY <1>2, <2>1, <2>2
<1>8. ASSUME NEW u \in Links, NEW i \in DOMAIN down'[u] PROVE TokAt(u, i)' /\ HrAt(u, i)'
  <2>1. DOMAIN <<>> = {} /\ DOMAIN <<f>> = {1} /\ <<f>>[1] = f
    OBVIOUS
  <2>2. u = 0 /\ i = 1 /\ down'[u][i] = f
    BY <1>7, <1>8, <2>1
  <2>3. \A t \in Links : t > 0 => t # 0
    BY <1>3
  <2> QED BY <1>2, <1>6, <1>7, <2>2, <2>3 DEF TokAt, HrAt
<1>9. RingAlone' /\ \A w \in Waves : rowQ'[w] = <<>>
  BY <1>2, <1>4, <1>5 DEF RingAlone
<1> QED BY <1>8, <1>9, OrderAfter

-----------------------------------------------------------------------------
(* In waves each wave has one step under way. *)

\* The frame at a place, and that it is the only one of its wave.
WaveAt(s, i) ==
  Link(s)[i].tag # "ctl" =>
    /\ Link(s)[i].wave \in InMode /\ outstanding[Link(s)[i].wave]
    /\ \A t \in Stages : \A j \in DOMAIN Link(t) : Carries(t, j, Link(s)[i].wave) => t = s /\ j = i

\* The frame at u, i was at a[u][i], b[u][i].
Moved(u, i, a, b) ==
  /\ a[u][i] \in Stages /\ b[u][i] \in DOMAIN Link(a[u][i])
  /\ Link(a[u][i])[b[u][i]].tag # "ctl" /\ Link(a[u][i])[b[u][i]].wave = (Link(u)')[i].wave
  /\ outstanding'[(Link(u)')[i].wave]

\* The frame at u, i is the first of its wave.
Fresh(u, i) ==
  /\ (Link(u)')[i].wave \in InMode /\ ~outstanding[(Link(u)')[i].wave]
  /\ outstanding'[(Link(u)')[i].wave]

\* All frames have moved, but for the one at x, y; and they moved apart.
AllMoved(a, b, x, y) ==
  \A u \in Stages : \A i \in DOMAIN Link(u)' : (Link(u)')[i].tag # "ctl" =>
    IF u = x /\ i = y THEN Fresh(u, i) ELSE Moved(u, i, a, b)
Apart(a, b) ==
  \A u, t \in Stages : \A i \in DOMAIN Link(u)' : \A j \in DOMAIN Link(t)' :
    a[u][i] = a[t][j] /\ b[u][i] = b[t][j] => u = t /\ i = j

\* Frames that move apart stay apart, and one may be new.
LEMMA WaveMoved ==
  ASSUME WaveInv, mode' = mode, NEW a, NEW b, NEW x, NEW y, AllMoved(a, b, x, y), Apart(a, b)
  PROVE  WaveInv'
<1>0. /\ \A u \in Stages : \A i \in DOMAIN Link(u)' : (Link(u)')[i].tag # "ctl" =>
           IF u = x /\ i = y THEN Fresh(u, i) ELSE Moved(u, i, a, b)
      /\ \A u, t \in Stages : \A i \in DOMAIN Link(u)' : \A j \in DOMAIN Link(t)' :
           a[u][i] = a[t][j] /\ b[u][i] = b[t][j] => u = t /\ i = j
  BY DEF AllMoved, Apart
<1>1. SUFFICES ASSUME mode > 0 PROVE WaveInv'
  BY DEF WaveInv
<1>2. ASSUME NEW u \in Stages, NEW i \in DOMAIN Link(u)', (Link(u)')[i].tag # "ctl", ~(u = x /\ i = y)
      PROVE  (Link(u)')[i].wave \in InMode /\ outstanding[(Link(u)')[i].wave]
  <2>1. Moved(u, i, a, b)
    BY <1>0, <1>2
  <2> QED BY <1>1, <2>1 DEF Moved, WaveInv
<1>3. ASSUME NEW u \in Stages, NEW i \in DOMAIN Link(u)', (Link(u)')[i].tag # "ctl",
             NEW t \in Stages, NEW j \in DOMAIN Link(t)', (Link(t)')[j].tag # "ctl",
             (Link(t)')[j].wave = (Link(u)')[i].wave
      PROVE  t = u /\ j = i
  <2>1. CASE u = x /\ i = y
    <3>1. Fresh(u, i)
      BY <1>0, <1>3, <2>1
    <3>2. ~outstanding[(Link(t)')[j].wave]
      BY <1>3, <3>1 DEF Fresh
    <3>3. t = x /\ j = y
      BY <1>2, <1>3, <3>2
    <3> QED BY <2>1, <3>3
  <2>2. CASE t = x /\ j = y
    <3>1. Fresh(t, j)
      BY <1>0, <1>3, <2>2
    <3>2. ~outstanding[(Link(u)')[i].wave]
      BY <1>3, <3>1 DEF Fresh
    <3>3. u = x /\ i = y
      BY <1>2, <1>3, <3>2
    <3> QED BY <2>2, <3>3
  <2>3. CASE ~(u = x /\ i = y) /\ ~(t = x /\ j = y)
    <3>1. Moved(u, i, a, b) /\ Moved(t, j, a, b)
      BY <1>0, <1>3, <2>3
    <3>2. PICK w : w = (Link(u)')[i].wave
      OBVIOUS
    <3>3. /\ a[u][i] \in Stages /\ b[u][i] \in DOMAIN Link(a[u][i]) /\ Carries(a[u][i], b[u][i], w)
          /\ a[t][j] \in Stages /\ b[t][j] \in DOMAIN Link(a[t][j]) /\ Carries(a[t][j], b[t][j], w)
          /\ Link(a[u][i])[b[u][i]].tag # "ctl" /\ Link(a[u][i])[b[u][i]].wave = w
      BY <1>3, <3>1, <3>2 DEF Moved, Carries
    <3>4. a[t][j] = a[u][i] /\ b[t][j] = b[u][i]
      BY <1>1, <3>3 DEF WaveInv
    <3> QED BY <1>0, <3>4
  <2> QED BY <2>1, <2>2, <2>3
<1>4. ASSUME NEW u \in Stages, NEW i \in DOMAIN Link(u)', (Link(u)')[i].tag # "ctl"
      PROVE  (Link(u)')[i].wave \in InMode' /\ outstanding'[(Link(u)')[i].wave]
  <2>1. InMode' = InMode
    BY DEF InMode
  <2>2. CASE u = x /\ i = y
    <3>1. Fresh(u, i)
      BY <1>0, <1>4, <2>2
    <3> QED BY <2>1, <3>1 DEF Fresh
  <2>3. CASE ~(u = x /\ i = y)
    <3>1. Moved(u, i, a, b)
      BY <1>0, <1>4, <2>3
    <3> QED BY <1>2, <1>4, <2>1, <2>3, <3>1 DEF Moved
  <2> QED BY <2>2, <2>3
<1>5. ASSUME NEW u \in Stages, NEW i \in DOMAIN Link(u)' PROVE WaveAt(u, i)'
  BY <1>3, <1>4 DEF WaveAt, Carries
<1> QED BY <1>5 DEF WaveInv, WaveAt

\* A follower passes on what it took, and nothing else.
LEMMA FollowerLink ==
  ASSUME TypeInv, NEW s \in Followers, down[s - 1] # <<>>, NEW g,
         \/ s # LastStage /\ ring' = ring /\ (down' = Rest(s) \/ down' = [Rest(s) EXCEPT ![s] = Append(@, g)])
         \/ s = LastStage /\ down' = Rest(s) /\ (ring' = ring \/ ring' = Append(ring, g))
  PROVE  \A u \in Stages : \A i \in DOMAIN Link(u)' :
           /\ i \in Nat \ {0} /\ Len(Link(s)) \in Nat
           /\ \/ i + Shift(s, u) \in DOMAIN Link(u) /\ (Link(u)')[i] = Link(u)[i + Shift(s, u)]
                 /\ (u = s => i # Len(Link(s)) + 1)
              \/ u = s /\ i = Len(Link(s)) + 1 /\ (Link(u)')[i] = g
<1>1. /\ s \in Int /\ s - 1 \in Links /\ s - 1 # s /\ s - 1 # LastStage /\ (s # LastStage => s \in Links)
      /\ \A u \in Stages : u # LastStage => u \in Links
  BY StageFacts
<1>2. /\ \A u \in Links : Line(down'[u])
      /\ \A u \in Links : \A i \in DOMAIN down'[u] :
           \/ i + Shift(s, u) \in DOMAIN down[u] /\ down'[u][i] = down[u][i + Shift(s, u)]
           \/ u = s /\ i = Len(down[s]) + 1 /\ down'[u][i] = g
  BY FollowerLinks
<1>3. Line(ring) /\ \A u \in Links : Line(down[u])
  BY DEF TypeInv
<1>4. Line(Link(s))
  BY <1>1, <1>3 DEF Link
<1>5. Len(Link(s)) \in Nat /\ DOMAIN Link(s) = 1..Len(Link(s)) /\ Len(Link(s)) + 1 \notin DOMAIN Link(s)
  BY <1>4, LineFacts
<1>6. Shift(s, s) = 0
  BY <1>1 DEF Shift
<1>7. ASSUME NEW u \in Stages, u # LastStage, NEW i \in DOMAIN Link(u)'
      PROVE  /\ i \in Nat \ {0}
             /\ \/ i + Shift(s, u) \in DOMAIN Link(u) /\ (Link(u)')[i] = Link(u)[i + Shift(s, u)]
                   /\ (u = s => i # Len(Link(s)) + 1)
                \/ u = s /\ i = Len(Link(s)) + 1 /\ (Link(u)')[i] = g
  <2>1. u \in Links /\ Link(u)' = down'[u] /\ Link(u) = down[u]
    BY <1>1, <1>7 DEF Link
  <2>2. DOMAIN down'[u] = 1..Len(down'[u]) /\ Len(down'[u]) \in Nat
    BY <1>2, <2>1, LineFacts
  <2>3. i \in DOMAIN down'[u] /\ i \in Nat \ {0}
    BY <1>7, <2>1, <2>2
  <2>4. \/ i + Shift(s, u) \in DOMAIN down[u] /\ down'[u][i] = down[u][i + Shift(s, u)]
        \/ u = s /\ i = Len(down[s]) + 1 /\ down'[u][i] = g
    BY <1>2, <2>1, <2>3
  <2>5. u = s => Link(s) = down[s] /\ i + Shift(s, u) = i
    BY <1>6, <2>1, <2>3
  <2> QED BY <1>5, <2>1, <2>3, <2>4, <2>5
<1>8. ASSUME NEW i \in DOMAIN Link(LastStage)'
      PROVE  /\ i \in Nat \ {0}
             /\ \/ i + Shift(s, LastStage) \in DOMAIN Link(LastStage)
                   /\ (Link(LastStage)')[i] = Link(LastStage)[i + Shift(s, LastStage)]
                   /\ (LastStage = s => i # Len(Link(s)) + 1)
                \/ LastStage = s /\ i = Len(Link(s)) + 1 /\ (Link(LastStage)')[i] = g
  <2>1. Link(LastStage)' = ring' /\ Link(LastStage) = ring
    BY DEF Link
  <2>2. Shift(s, LastStage) = 0
    BY <1>1 DEF Shift
  <2>3. CASE ring' = ring
    <3>1. i \in DOMAIN ring /\ i \in Nat \ {0} /\ i + 0 = i
      BY <1>3, <1>8, <2>1, <2>3, LineFacts
    <3> QED BY <1>5, <2>1, <2>2, <2>3, <3>1
  <2>4. CASE s = LastStage /\ ring' = Append(ring, g)
    <3>1. i \in 1..(Len(ring) + 1) /\ Len(ring) \in Nat /\ ring'[Len(ring) + 1] = g /\ DOMAIN ring = 1..Len(ring)
          /\ \A k \in 1..Len(ring) : ring'[k] = ring[k]
      BY <1>3, <1>8, <2>1, <2>4, LineMore
    <3>2. i \in Nat \ {0} /\ i + 0 = i /\ (i = Len(ring) + 1 \/ (i \in 1..Len(ring) /\ i # Len(ring) + 1))
      BY <3>1
    <3> QED BY <2>1, <2>2, <2>4, <3>1, <3>2
  <2> QED BY <2>3, <2>4
<1> QED BY <1>5, <1>7, <1>8

LEMMA FollowerWave ==
  ASSUME TypeInv, WaveInv, UNCHANGED <<mode, outstanding>>, NEW s \in Followers, down[s - 1] # <<>>,
         NEW f, f = Head(down[s - 1]), NEW g, g.tag # "ctl" => f.tag # "ctl" /\ g.wave = f.wave,
         \/ s # LastStage /\ ring' = ring /\ (down' = Rest(s) \/ down' = [Rest(s) EXCEPT ![s] = Append(@, g)])
         \/ s = LastStage /\ down' = Rest(s) /\ (ring' = ring \/ ring' = Append(ring, g))
  PROVE  WaveInv'
<1>0. SUFFICES ASSUME mode > 0 PROVE WaveInv'
  BY DEF WaveInv
<1>1. PICK n : n = Len(Link(s)) + 1
  OBVIOUS
<1>2. /\ s \in Int /\ s - 1 \in Stages /\ s - 1 \in Links /\ s - 1 # s /\ s - 1 # LastStage
      /\ \A u \in Stages : u # -1 /\ u \in Int
  BY StageFacts DEF Stages
<1>3. \A u \in Stages : \A i \in DOMAIN Link(u)' :
        /\ i \in Nat \ {0}
        /\ \/ i + Shift(s, u) \in DOMAIN Link(u) /\ (Link(u)')[i] = Link(u)[i + Shift(s, u)]
              /\ (u = s => i # n)
           \/ u = s /\ i = n /\ (Link(u)')[i] = g
  <2>1. \A u \in Stages : \A i \in DOMAIN Link(u)' :
           /\ i \in Nat \ {0} /\ Len(Link(s)) \in Nat
           /\ \/ i + Shift(s, u) \in DOMAIN Link(u) /\ (Link(u)')[i] = Link(u)[i + Shift(s, u)]
                 /\ (u = s => i # Len(Link(s)) + 1)
              \/ u = s /\ i = Len(Link(s)) + 1 /\ (Link(u)')[i] = g
    BY FollowerLink
  <2> QED BY ONLY <1>1, <2>1
<1>4. Link(s - 1) = down[s - 1] /\ 1 \in DOMAIN Link(s - 1) /\ Link(s - 1)[1] = f
  <2>1. Line(down[s - 1])
    BY <1>2 DEF TypeInv
  <2> QED BY <1>2, <2>1, LineLess DEF Link
<1>5. PICK a : a = [u \in Stages |-> [i \in Nat |-> IF u = s /\ i = n THEN s - 1 ELSE u]]
  OBVIOUS
<1>6. PICK b : b = [u \in Stages |-> [i \in Nat |-> IF u = s /\ i = n THEN 1 ELSE i + Shift(s, u)]]
  OBVIOUS
<1>7. \A u \in Stages : \A i \in Nat : /\ a[u][i] = (IF u = s /\ i = n THEN s - 1 ELSE u)
                                       /\ b[u][i] = (IF u = s /\ i = n THEN 1 ELSE i + Shift(s, u))
  BY <1>5, <1>6
<1>8. ASSUME NEW u \in Stages, NEW i \in DOMAIN Link(u)', (Link(u)')[i].tag # "ctl"
      PROVE  IF u = -1 /\ i = 0 THEN Fresh(u, i) ELSE Moved(u, i, a, b)
  <2>1. i \in Nat \ {0} /\ u # -1
    BY <1>2, <1>3
  <2>2. CASE u = s /\ i = n
    <3>1. a[u][i] = s - 1 /\ b[u][i] = 1
      BY <1>7, <2>1, <2>2
    <3>2. (Link(u)')[i] = g
      BY <1>3, <2>2
    <3>3. Link(s - 1)[1].tag # "ctl" /\ Link(s - 1)[1].wave = (Link(u)')[i].wave
      BY <1>4, <1>8, <3>2
    <3>4. outstanding[(Link(u)')[i].wave]
      BY <1>0, <1>2, <1>4, <3>3 DEF WaveInv
    <3> QED BY <1>2, <1>4, <2>1, <3>1, <3>3, <3>4 DEF Moved
  <2>3. CASE ~(u = s /\ i = n)
    <3>1. a[u][i] = u /\ b[u][i] = i + Shift(s, u)
      BY <1>7, <2>1, <2>3
    <3>2. i + Shift(s, u) \in DOMAIN Link(u) /\ (Link(u)')[i] = Link(u)[i + Shift(s, u)]
      BY <1>3, <2>3
    <3>3. outstanding[(Link(u)')[i].wave]
      BY <1>0, <1>8, <3>2 DEF WaveInv
    <3> QED BY <1>8, <2>1, <3>1, <3>2, <3>3 DEF Moved
  <2> QED BY <2>2, <2>3
<1>9. ASSUME NEW u \in Stages, NEW t \in Stages, NEW i \in DOMAIN Link(u)', NEW j \in DOMAIN Link(t)',
             a[u][i] = a[t][j], b[u][i] = b[t][j]
      PROVE  u = t /\ i = j
  <2>1. i \in Nat \ {0} /\ j \in Nat \ {0}
    BY <1>3
  <2>2. Shift(s, s - 1) = 1 /\ Shift(s, u) \in {0, 1} /\ Shift(s, t) \in {0, 1}
    BY DEF Shift
  <2>3. a[u][i] = (IF u = s /\ i = n THEN s - 1 ELSE u) /\ b[u][i] = (IF u = s /\ i = n THEN 1 ELSE i + Shift(s, u))
    BY <1>7, <2>1
  <2>4. a[t][j] = (IF t = s /\ j = n THEN s - 1 ELSE t) /\ b[t][j] = (IF t = s /\ j = n THEN 1 ELSE j + Shift(s, t))
    BY <1>7, <2>1
  <2>5. CASE u = s /\ i = n
    <3>1. ASSUME ~(t = s /\ j = n) PROVE FALSE
      <4>1. t = s - 1 /\ j + Shift(s, t) = 1
        BY <1>9, <2>3, <2>4, <2>5, <3>1
      <4> QED BY <2>1, <2>2, <4>1
    <3> QED BY <2>5, <3>1
  <2>6. CASE t = s /\ j = n
    <3>1. ASSUME ~(u = s /\ i = n) PROVE FALSE
      <4>1. u = s - 1 /\ i + Shift(s, u) = 1
        BY <1>9, <2>3, <2>4, <2>6, <3>1
      <4> QED BY <2>1, <2>2, <4>1
    <3> QED BY <2>6, <3>1
  <2>7. CASE ~(u = s /\ i = n) /\ ~(t = s /\ j = n)
    <3>1. u = t /\ i + Shift(s, u) = j + Shift(s, t)
      BY <1>9, <2>3, <2>4, <2>7
    <3>2. i + Shift(s, u) = j + Shift(s, u)
      BY <3>1
    <3> QED BY ONLY <2>1, <2>2, <3>1, <3>2
  <2> QED BY <2>5, <2>6, <2>7
<1>10. PICK x, y : x = -1 /\ y = 0
  OBVIOUS
<1>11. AllMoved(a, b, x, y)
  BY ONLY <1>8, <1>10 DEF AllMoved
<1>12. Apart(a, b)
  BY ONLY <1>9 DEF Apart
<1>13. WaveInv /\ mode' = mode
  OBVIOUS
<1> QED BY ONLY <1>11, <1>12, <1>13, WaveMoved

LEMMA WaveCtl ==
  ASSUME BaseInv, WaveInv, NEW s \in Followers, TakeCtl(s)
  PROVE  WaveInv'
<1>1. PICK f : f = Head(down[s - 1])
  OBVIOUS
<1>2. /\ down[s - 1] # <<>> /\ UNCHANGED <<mode, outstanding, ring>>
      /\ down' = Rest(s) \/ (s # LastStage /\ down' = [Rest(s) EXCEPT ![s] = Append(@, f)])
  BY <1>1, CtlEffect
<1>3. TypeInv
  BY DEF BaseInv
<1> QED BY <1>1, <1>2, <1>3, FollowerWave

LEMMA WaveHr ==
  ASSUME BaseInv, WaveInv, NEW s \in Followers, TakeHr(s)
  PROVE  WaveInv'
<1>1. PICK f : f = Head(down[s - 1])
  OBVIOUS
<1>2. HrDone(s, f)
  BY <1>1, HrEffect
<1>3. down[s - 1] # <<>> /\ UNCHANGED <<mode, outstanding>>
  BY <1>2 DEF HrDone
<1>4. TypeInv
  BY DEF BaseInv
<1>5. \/ down' = Rest(s) /\ ring' = ring
      \/ /\ f.tag = "hr" /\ s = LastStage /\ down' = Rest(s)
         /\ \E g : g.tag = "tok" /\ g.wave = f.wave /\ ring' = Append(ring, g)
      \/ /\ f.tag = "hr" /\ s # LastStage /\ ring' = ring
         /\ down' = [Rest(s) EXCEPT ![s] = Append(@, Hr(f.wave, rows[s], weights[s]))]
  BY <1>2 DEF HrDone
<1>6. CASE down' = Rest(s) /\ ring' = ring
  BY <1>1, <1>3, <1>4, <1>6, FollowerWave
<1>7. CASE /\ f.tag = "hr" /\ s = LastStage /\ down' = Rest(s)
           /\ \E g : g.tag = "tok" /\ g.wave = f.wave /\ ring' = Append(ring, g)
  <2>1. PICK g : g.tag = "tok" /\ g.wave = f.wave /\ ring' = Append(ring, g)
    BY <1>7
  <2> QED BY <1>1, <1>3, <1>4, <1>7, <2>1, FollowerWave
<1>8. CASE /\ f.tag = "hr" /\ s # LastStage /\ ring' = ring
           /\ down' = [Rest(s) EXCEPT ![s] = Append(@, Hr(f.wave, rows[s], weights[s]))]
  <2>1. PICK g : g = Hr(f.wave, rows[s], weights[s])
    OBVIOUS
  <2>2. g.tag = "hr" /\ g.wave = f.wave
    BY <2>1 DEF Hr
  <2>3. down' = [Rest(s) EXCEPT ![s] = Append(@, g)]
    BY <1>8, <2>1
  <2>4. UNCHANGED <<mode, outstanding>> /\ down[s - 1] # <<>> /\ (g.tag # "ctl" => f.tag # "ctl" /\ g.wave = f.wave)
    BY <1>3, <1>8, <2>2
  <2>5. \/ s # LastStage /\ ring' = ring /\ (down' = Rest(s) \/ down' = [Rest(s) EXCEPT ![s] = Append(@, g)])
        \/ s = LastStage /\ down' = Rest(s) /\ (ring' = ring \/ ring' = Append(ring, g))
    BY ONLY <1>8, <2>3
  <2>. HIDE <1>8
  <2> QED BY <1>1, <1>4, <2>4, <2>5, FollowerWave, ZenonT(60)
<1> QED BY <1>5, <1>6, <1>7, <1>8

LEMMA WaveTok ==
  ASSUME BaseInv, WaveInv, NEW s \in Followers, s # LastStage, TakeTok(s)
  PROVE  WaveInv'
<1>1. PICK f : f = Head(down[s - 1])
  OBVIOUS
<1>2. TokDone(s, f)
  BY <1>1, TokEffect
<1>3. pc[s] = "tok" /\ mode' = mode /\ s \in Stages
  BY <1>2, StageFacts DEF TokDone
<1>4. ~(mode > 0)
  BY <1>3 DEF BaseInv, TypeInv
<1> QED BY <1>3, <1>4 DEF WaveInv

\* Stage 0 sends a control frame f, and perhaps the first frame g of a wave.
LEMMA WaveSent ==
  ASSUME TypeInv, WaveInv, UNCHANGED <<mode, ring>>, NEW f, f.tag = "ctl", NEW g, g.tag # "ctl",
         \A w \in InMode : outstanding[w] => outstanding'[w],
         \/ down' = [down EXCEPT ![0] = Append(@, f)]
         \/ /\ down' = [down EXCEPT ![0] = Append(Append(@, f), g)]
            /\ g.wave \in InMode /\ ~outstanding[g.wave] /\ outstanding'[g.wave]
  PROVE  WaveInv'
<1>0. SUFFICES ASSUME mode > 0 PROVE WaveInv'
  BY DEF WaveInv
<1>1. /\ \A u \in Links : \A i \in DOMAIN down'[u] :
           \/ i \in DOMAIN down[u] /\ down'[u][i] = down[u][i]
           \/ u = 0 /\ i = Len(down[0]) + 1 /\ down'[u][i] = f
           \/ /\ u = 0 /\ i = Len(down[0]) + 2 /\ i = Len(down'[0]) /\ down'[u][i] = g
              /\ down' = [down EXCEPT ![0] = Append(Append(@, f), g)]
      /\ \A u \in Links : Line(down'[u])
  <2>1. down' = [down EXCEPT ![0] = Append(@, f)] \/ down' = [down EXCEPT ![0] = Append(Append(@, f), g)]
    OBVIOUS
  <2>2. TypeInv
    OBVIOUS
  <2> QED BY ONLY <2>1, <2>2, FirstLinks
<1>2. PICK x, y : x = 0 /\ y = Len(down[0]) + 2
  OBVIOUS
<1>3. PICK a : a = [u \in Stages |-> [i \in Nat |-> u]]
  OBVIOUS
<1>4. PICK b : b = [u \in Stages |-> [i \in Nat |-> i]]
  OBVIOUS
<1>5. \A u \in Stages : \A i \in Nat : a[u][i] = u /\ b[u][i] = i
  BY <1>3, <1>4
<1>6. 0 \in Links /\ 0 # LastStage /\ \A u \in Stages : u # LastStage => u \in Links
  BY StageFacts
<1>7. \A u \in Stages : \A i \in DOMAIN Link(u)' : i \in Nat
  <2>1. TAKE u \in Stages
  <2>2. Line(Link(u)')
    BY <1>1, <1>6 DEF Link, TypeInv
  <2> QED BY <2>2, LineFacts
<1>8. ASSUME NEW u \in Stages, NEW i \in DOMAIN Link(u)', i \in DOMAIN Link(u), (Link(u)')[i] = Link(u)[i],
             (Link(u)')[i].tag # "ctl"
      PROVE  Moved(u, i, a, b)
  <2>1. a[u][i] = u /\ b[u][i] = i
    BY <1>5, <1>7, <1>8
  <2>2. Link(u)[i].wave \in InMode /\ outstanding[Link(u)[i].wave]
    BY <1>0, <1>8 DEF WaveInv
  <2> QED BY <1>8, <2>1, <2>2 DEF Moved
<1>9. ASSUME NEW u \in Stages, NEW i \in DOMAIN Link(u)', (Link(u)')[i].tag # "ctl"
      PROVE  IF u = x /\ i = y THEN Fresh(u, i) ELSE Moved(u, i, a, b)
  <2>1. CASE u = LastStage
    <3>1. Link(u)' = Link(u) /\ u # x
      BY <1>2, <1>6, <2>1 DEF Link
    <3> QED BY <1>8, <1>9, <3>1
  <2>2. CASE u # LastStage
    <3>1. u \in Links /\ Link(u)' = down'[u] /\ Link(u) = down[u]
      BY <1>6, <2>2 DEF Link
    <3>2. CASE i \in DOMAIN down[u] /\ down'[u][i] = down[u][i]
      <4>1. Moved(u, i, a, b)
        BY <1>8, <1>9, <3>1, <3>2
      <4>2. ~(u = x /\ i = y)
        <5>1. Line(down[0])
          BY <1>6 DEF TypeInv
        <5>2. Len(down[0]) + 2 \notin DOMAIN down[0]
          BY <5>1, LineFacts
        <5> QED BY <1>2, <3>2, <5>2
      <4> QED BY <4>1, <4>2
    <3>3. CASE down'[u][i] = f
      BY <1>9, <3>1, <3>3
    <3>4. CASE /\ u = 0 /\ i = Len(down[0]) + 2 /\ down'[u][i] = g
               /\ down' = [down EXCEPT ![0] = Append(Append(@, f), g)]
      <4>1. CASE g.wave \in InMode /\ ~outstanding[g.wave] /\ outstanding'[g.wave]
        BY <1>2, <3>1, <3>4, <4>1 DEF Fresh
      <4>2. CASE down' = [down EXCEPT ![0] = Append(@, f)]
        <5>1. Append(down[0], f) = Append(Append(down[0], f), g)
          BY <1>6, <3>4, <4>2 DEF TypeInv
        <5>2. Line(down[0]) /\ Line(Append(down[0], f)) /\ Len(Append(down[0], f)) \in Nat
          BY <1>6, LineMore DEF TypeInv
        <5>3. Len(Append(Append(down[0], f), g)) = Len(Append(down[0], f)) + 1
          BY ONLY <5>2, LineMore
        <5> QED BY <5>1, <5>2, <5>3
      <4> QED BY <4>1, <4>2
    <3> QED BY <1>1, <1>9, <3>1, <3>2, <3>3, <3>4
  <2> QED BY <2>1, <2>2
<1>10. AllMoved(a, b, x, y)
  BY ONLY <1>9 DEF AllMoved
<1>11. Apart(a, b)
  BY ONLY <1>5, <1>7 DEF Apart
<1>12. WaveInv /\ mode' = mode
  OBVIOUS
<1> QED BY ONLY <1>10, <1>11, <1>12, WaveMoved

LEMMA WaveStepped ==
  ASSUME BaseInv, WaveInv, NEW w \in Waves, StepWave(w)
  PROVE  WaveInv'
<1>1. PICK f : StepFrame(f) /\ f.wave = w
  BY WaveFrameIs
<1>2. PICK g : StepDone(f, g)
  BY <1>1, StepEffect
<1>3. /\ g.tag = "hr" /\ g.wave = w
      /\ down' = [down EXCEPT ![0] = IF rows'[0] # <<>> THEN Append(Append(@, f), g) ELSE Append(@, f)]
  BY <1>1, <1>2 DEF StepDone
<1>4. f.tag = "ctl" /\ UNCHANGED <<mode, ring>>
  BY <1>1 DEF StepFrame
<1>5. w \in InMode /\ ~outstanding[w] /\ outstanding' = [outstanding EXCEPT ![w] = InFlight(rows'[0])]
  BY DEF StepWave, MayStepWave, Chosen, Eligible
<1>6. TypeInv /\ outstanding \in [Waves -> BOOLEAN]
  BY DEF BaseInv, TypeInv
<1>7. \A v \in InMode : outstanding[v] => outstanding'[v]
  <2>1. TAKE v \in InMode
  <2>2. v # w => outstanding'[v] = outstanding[v]
    BY <1>5, <1>6
  <2> QED BY <1>5, <2>2
<1>8. CASE rows'[0] = <<>>
  <2>1. down' = [down EXCEPT ![0] = Append(@, f)]
    BY <1>3, <1>8
  <2> QED BY <1>3, <1>4, <1>6, <1>7, <2>1, WaveSent
<1>9. CASE rows'[0] # <<>>
  <2>1. down' = [down EXCEPT ![0] = Append(Append(@, f), g)]
    BY <1>3, <1>9
  <2>2. outstanding'[w]
    BY <1>5, <1>6, <1>9 DEF InFlight
  <2>3. g.wave \in InMode /\ ~outstanding[g.wave] /\ outstanding'[g.wave] /\ g.tag # "ctl"
    BY <1>3, <1>5, <2>2
  <2> QED BY <1>4, <1>6, <1>7, <2>1, <2>3, WaveSent
<1> QED BY <1>8, <1>9

LEMMA WaveIdle ==
  ASSUME BaseInv, WaveInv, NEW f, IdleDone(f)
  PROVE  WaveInv'
<1>1. /\ UNCHANGED <<mode, ring, outstanding>> /\ f.tag = "ctl"
      /\ down' = [down EXCEPT ![0] = Append(@, f)]
  BY DEF IdleDone
<1>2. PICK g : g = [tag |-> "none"]
  OBVIOUS
<1>3. TypeInv /\ g.tag # "ctl"
  BY <1>2 DEF BaseInv
<1> QED BY <1>1, <1>3, WaveSent

LEMMA WaveAbsorb ==
  ASSUME BaseInv, WaveInv, NEW w \in Waves, AbsorbDone(w)
  PROVE  WaveInv'
<1>1. /\ mode > 0 /\ First(w) \in DOMAIN ring /\ ring[First(w)].wave = w
      /\ ring' = RemoveAt(ring, First(w))
      /\ outstanding' = [outstanding EXCEPT ![w] = FALSE] /\ UNCHANGED <<mode, down>>
  BY DEF AbsorbDone
<1>2. /\ TypeInv /\ outstanding \in [Waves -> BOOLEAN] /\ Line(ring) /\ \A u \in Links : Line(down[u])
      /\ \A i \in DOMAIN ring : ring[i].tag = "tok"
  BY DEF BaseInv, TypeInv
<1>3. PICK k : k = First(w)
  OBVIOUS
<1>4. Len(ring) \in Nat /\ DOMAIN ring = 1..Len(ring) /\ k \in 1..Len(ring)
  BY <1>1, <1>2, <1>3, LineFacts
<1>5. /\ DOMAIN ring' = 1..(Len(ring) - 1)
      /\ \A i \in 1..(Len(ring) - 1) : ring'[i] = IF i < k THEN ring[i] ELSE ring[i + 1]
  BY <1>1, <1>2, <1>3, <1>4, LineWithout
<1>6. LastStage \in Stages /\ \A u \in Stages : u # -1 /\ (u # LastStage => u \in Links)
  BY StageFacts DEF Stages
<1>7. PICK a : a = [u \in Stages |-> [i \in Nat |-> u]]
  OBVIOUS
<1>8. PICK b : b = [u \in Stages |-> [i \in Nat |-> IF u = LastStage /\ ~(i < k) THEN i + 1 ELSE i]]
  OBVIOUS
<1>9. \A u \in Stages : \A i \in Nat : a[u][i] = u /\ b[u][i] = (IF u = LastStage /\ ~(i < k) THEN i + 1 ELSE i)
  BY <1>7, <1>8
<1>10. PICK x, y : x = -1 /\ y = 0
  OBVIOUS
<1>11. ASSUME NEW u \in Stages, NEW i \in DOMAIN Link(u)'
       PROVE  /\ i \in Nat /\ b[u][i] \in DOMAIN Link(u) /\ (Link(u)')[i] = Link(u)[b[u][i]]
              /\ u = LastStage => b[u][i] # k
  <2>1. CASE u = LastStage
    <3>1. Link(u)' = ring' /\ Link(u) = ring
      BY <2>1 DEF Link
    <3>2. i \in 1..(Len(ring) - 1) /\ i \in Nat /\ i \in 1..Len(ring) /\ i + 1 \in 1..Len(ring)
      BY <1>4, <1>5, <1>11, <3>1
    <3>3. ring'[i] = IF i < k THEN ring[i] ELSE ring[i + 1]
      BY <1>5, <3>2
    <3>4. b[u][i] = (IF ~(i < k) THEN i + 1 ELSE i)
      BY <1>9, <2>1, <3>2
    <3>5. b[u][i] # k
      BY <1>4, <3>2, <3>4
    <3> QED BY <1>4, <3>1, <3>2, <3>3, <3>4, <3>5
  <2>2. CASE u # LastStage
    <3>1. u \in Links /\ Link(u)' = down[u] /\ Link(u) = down[u]
      BY <1>1, <1>6, <2>2 DEF Link
    <3>2. i \in Nat /\ i \in DOMAIN down[u]
      BY <1>2, <1>11, <3>1, LineFacts
    <3> QED BY <1>9, <2>2, <3>1, <3>2
  <2> QED BY <2>1, <2>2
<1>12. ASSUME NEW u \in Stages, NEW i \in DOMAIN Link(u)', (Link(u)')[i].tag # "ctl"
       PROVE  IF u = x /\ i = y THEN Fresh(u, i) ELSE Moved(u, i, a, b)
  <2>1. u # x /\ a[u][i] = u
    BY <1>6, <1>9, <1>10, <1>11
  <2>2. PICK n : n = b[u][i]
    OBVIOUS
  <2>3. n \in DOMAIN Link(u) /\ (Link(u)')[i] = Link(u)[n] /\ (u = LastStage => n # k)
    BY <1>11, <2>2
  <2>4. outstanding[Link(u)[n].wave]
    BY <1>1, <1>12, <2>3 DEF WaveInv
  <2>5. Link(u)[n].wave # w
    <3>1. SUFFICES ASSUME Link(u)[n].wave = w PROVE FALSE
      OBVIOUS
    <3>2. Link(LastStage) = ring
      BY DEF Link
    <3>3. Link(LastStage)[k].wave = w /\ k \in DOMAIN Link(LastStage) /\ Link(LastStage)[k].tag # "ctl"
      BY <1>1, <1>2, <1>3, <3>2
    <3>4. Carries(LastStage, k, Link(u)[n].wave)
      BY <3>1, <3>3 DEF Carries
    <3>5. u = LastStage /\ n = k
      BY <1>1, <1>6, <1>12, <2>3, <3>3, <3>4 DEF WaveInv
    <3> QED BY <2>3, <3>5
  <2>6. outstanding'[Link(u)[n].wave] = outstanding[Link(u)[n].wave]
    <3>1. Link(u)[n].wave \in InMode
      BY <1>1, <1>12, <2>3 DEF WaveInv
    <3>2. Link(u)[n].wave \in Waves
      BY <1>2, <3>1 DEF TypeInv, InMode, Waves
    <3> QED BY <1>1, <1>2, <2>5, <3>2
  <2>7. outstanding'[(Link(u)')[i].wave]
    BY <2>3, <2>4, <2>6
  <2>8. Moved(u, i, a, b)
    BY <1>12, <2>1, <2>2, <2>3, <2>7 DEF Moved
  <2> QED BY <2>1, <2>8
<1>13. AllMoved(a, b, x, y)
  BY ONLY <1>12 DEF AllMoved
<1>14. ASSUME NEW u \in Stages, NEW t \in Stages, NEW i \in DOMAIN Link(u)', NEW j \in DOMAIN Link(t)',
              a[u][i] = a[t][j], b[u][i] = b[t][j]
       PROVE  u = t /\ i = j
  <2>1. i \in Nat /\ j \in Nat
    BY <1>11
  <2>2. /\ a[u][i] = u /\ b[u][i] = (IF u = LastStage /\ ~(i < k) THEN i + 1 ELSE i)
        /\ a[t][j] = t /\ b[t][j] = (IF t = LastStage /\ ~(j < k) THEN j + 1 ELSE j)
    BY <1>9, <2>1
  <2>3. u = t /\ k \in Int
    <3>1. u = t
      BY ONLY <1>14, <2>2, Zenon
    <3>2. k \in Int
      BY ONLY <1>4
    <3> QED BY <3>1, <3>2
  <2>4. CASE u = LastStage
    <3>1. b[u][i] = (IF ~(i < k) THEN i + 1 ELSE i) /\ b[u][i] = (IF ~(j < k) THEN j + 1 ELSE j)
      BY <1>14, <2>2, <2>3, <2>4
    <3>2. (IF ~(i < k) THEN i + 1 ELSE i) = (IF ~(j < k) THEN j + 1 ELSE j)
      BY <3>1
    <3>3. i = j
      BY ONLY <2>1, <2>3, <3>2
    <3> QED BY <2>3, <3>3
  <2>5. CASE u # LastStage
    BY <1>14, <2>2, <2>3, <2>5
  <2> QED BY <2>4, <2>5
<1>15. Apart(a, b)
  BY ONLY <1>14 DEF Apart
<1>16. WaveInv /\ mode' = mode
  BY <1>1
<1> QED BY ONLY <1>13, <1>15, <1>16, WaveMoved

-----------------------------------------------------------------------------
(* In waves stage 0 books a token before it is told of it. *)

RowAt(w) ==
  rowQ[w] # <<>> =>
    /\ Len(rowQ[w]) = 1 /\ w \in InMode /\ outstanding[w] /\ Line(rowQ[w][1])
    /\ \A r \in ToSet(rowQ[w][1]) :
         /\ r \in Requests /\ Len(told[r]) < eng[0].booked[r] /\ waveOf[0][r] \in {w, NoWave}
         /\ \A v \in Waves \ {w} : rowQ[v] # <<>> => r \notin ToSet(rowQ[v][1])

LEMMA ToldIs ==
  ToldInv <=> (mode > 0 => (\A r \in Requests : Len(told[r]) <= eng[0].booked[r]) /\ \A w \in Waves : RowAt(w))
  BY DEF ToldInv, RowAt

LEMMA ToldAfter ==
  ASSUME \A r \in Requests : Len(told'[r]) <= eng'[0].booked[r], \A w \in Waves : RowAt(w)'
  PROVE  ToldInv'
  BY DEF ToldInv, RowAt

\* Nothing is booked, told or queued, and maps are only undone.
LEMMA ToldSame ==
  ASSUME ToldInv, UNCHANGED <<mode, told, rowQ, outstanding>>, eng'[0].booked = eng[0].booked,
         \A r \in Requests : waveOf'[0][r] \in {waveOf[0][r], NoWave}
  PROVE  ToldInv'
<1>1. SUFFICES ASSUME mode > 0 PROVE ToldInv'
  BY DEF ToldInv
<1>2. (\A r \in Requests : Len(told[r]) <= eng[0].booked[r]) /\ \A w \in Waves : RowAt(w)
  BY <1>1, ToldIs
<1>3. \A w \in Waves : RowAt(w)'
  <2>1. TAKE w \in Waves
  <2>2. SUFFICES ASSUME rowQ[w] # <<>> PROVE RowAt(w)'
    BY DEF RowAt
  <2>3. /\ Len(rowQ[w]) = 1 /\ w \in InMode /\ outstanding[w] /\ Line(rowQ[w][1])
        /\ \A r \in ToSet(rowQ[w][1]) :
             /\ r \in Requests /\ Len(told[r]) < eng[0].booked[r] /\ waveOf[0][r] \in {w, NoWave}
             /\ \A v \in Waves \ {w} : rowQ[v] # <<>> => r \notin ToSet(rowQ[v][1])
    BY <1>2, <2>2 DEF RowAt
  <2>4. \A r \in ToSet(rowQ[w][1]) : waveOf'[0][r] \in {w, NoWave}
    BY <2>3
  <2>5. InMode' = InMode
    BY DEF InMode
  <2> QED BY <2>3, <2>4, <2>5 DEF RowAt
<1>4. \A r \in Requests : Len(told'[r]) <= eng'[0].booked[r]
  BY <1>2
<1> QED BY <1>3, <1>4, ToldAfter

LEMMA ToldFollowed ==
  ASSUME ToldInv, NEW s \in Followers, Others(s), UNCHANGED <<mode, told, rowQ, outstanding>>
  PROVE  ToldInv'
<1>1. eng'[0] = eng[0] /\ waveOf'[0] = waveOf[0]
  BY StageFacts DEF Others
<1> QED BY <1>1, ToldSame

LEMMA ToldIdle ==
  ASSUME ToldInv, NEW f, IdleDone(f)
  PROVE  ToldInv'
<1>1. /\ UNCHANGED <<mode, told, rowQ, outstanding>> /\ eng'[0].booked = eng[0].booked
      /\ \A r \in Requests : waveOf'[0][r] \in {waveOf[0][r], NoWave}
  BY DEF IdleDone
<1> QED BY <1>1, ToldSame

LEMMA ToldStepped ==
  ASSUME BaseInv, ToldInv, NEW w \in Waves, StepWave(w)
  PROVE  ToldInv'
<1>1. PICK f : StepFrame(f) /\ f.wave = w
  BY WaveFrameIs
<1>2. PICK g : StepDone(f, g)
  BY <1>1, StepEffect
<1>3. mode' = mode /\ mode > 0 /\ told' = told /\ w \in InMode /\ w # NoWave /\ InMode' = InMode
  BY DEF StepWave, MayStepWave, InMode, NoWave
<1>4. /\ ~outstanding[w] /\ outstanding' = [outstanding EXCEPT ![w] = InFlight(rows'[0])]
      /\ rowQ' = [rowQ EXCEPT ![w] = Queued(w, rows'[0])]
  BY DEF StepWave, MayStepWave, Chosen, Eligible
<1>5. PICK sched : sched = rows'[0]
  OBVIOUS
<1>6. /\ waveOf'[0] = Mapped(waveOf[0], f) /\ sched \in Seq(Requests) /\ ToSet(sched) \subseteq Mine(waveOf'[0], w)
      /\ \A r \in Requests : eng'[0].booked[r] = IF r \in ToSet(sched) THEN eng[0].booked[r] + 1 ELSE eng[0].booked[r]
  BY <1>1, <1>2, <1>3, <1>5 DEF StepDone
<1>7. \A r \in ToSet(f.admits) : eng[0].booked[r] = 0
  BY <1>1 DEF StepFrame, Unseen
<1>8. /\ outstanding \in [Waves -> BOOLEAN] /\ rowQ = [v \in Waves |-> rowQ[v]] /\ \A r \in Requests : Line(told[r])
      /\ \A r \in Requests : eng[0].booked[r] \in Nat
  <2>1. TypeInv /\ EngineOK(eng[0])
    BY StageFacts DEF BaseInv, EngineInv
  <2> QED BY <2>1 DEF TypeInv, EngineOK
<1>9. \A r \in Requests : Len(told[r]) \in Nat
  BY <1>8, LineFacts
<1>10. (\A r \in Requests : Len(told[r]) <= eng[0].booked[r]) /\ \A v \in Waves : RowAt(v)
  BY <1>3, ToldIs
<1>11. rowQ[w] = <<>>
  BY <1>4, <1>10 DEF RowAt
<1>12. /\ rowQ'[w] = (IF sched = <<>> THEN <<>> ELSE <<sched>>) /\ (sched # <<>> => outstanding'[w])
       /\ \A v \in Waves : v # w => rowQ'[v] = rowQ[v] /\ outstanding'[v] = outstanding[v]
  <2>1. Append(<<>>, sched) = <<sched>>
    OBVIOUS
  <2>2. rowQ'[w] = (IF sched = <<>> THEN <<>> ELSE <<sched>>)
    BY <1>4, <1>5, <1>8, <1>11, <2>1 DEF Queued
  <2>3. sched # <<>> => outstanding'[w]
    BY <1>4, <1>5, <1>8 DEF InFlight
  <2> QED BY <1>4, <1>8, <2>2, <2>3
<1>13. \A r \in Requests : Len(told'[r]) <= eng'[0].booked[r] /\ (r \in ToSet(sched) => Len(told'[r]) < eng'[0].booked[r])
  BY <1>3, <1>6, <1>8, <1>9, <1>10
<1>14. ASSUME NEW v \in Waves, v # w, rowQ[v] # <<>>, NEW r \in ToSet(rowQ[v][1])
       PROVE  /\ r \in Requests /\ Len(told'[r]) < eng'[0].booked[r] /\ waveOf'[0][r] \in {v, NoWave}
              /\ r \notin ToSet(sched)
  <2>1. r \in Requests /\ Len(told[r]) < eng[0].booked[r] /\ waveOf[0][r] \in {v, NoWave}
    BY <1>10, <1>14 DEF RowAt
  <2>2. r \notin ToSet(f.admits)
    BY <1>7, <1>9, <2>1
  <2>3. waveOf'[0][r] \in {waveOf[0][r], NoWave}
    BY <1>6, <2>1, <2>2 DEF Mapped
  <2>4. waveOf'[0][r] \in {v, NoWave}
    BY <2>1, <2>3
  <2>5. r \notin ToSet(sched)
    <3>1. r \in Mine(waveOf'[0], w) => waveOf'[0][r] = w
      BY <1>3 DEF Mine
    <3> QED BY <1>3, <1>6, <1>14, <2>4, <3>1
  <2>6. Len(told'[r]) < eng'[0].booked[r]
    BY <1>3, <1>6, <2>1, <2>5
  <2> QED BY <2>1, <2>4, <2>5, <2>6
<1>15. ASSUME NEW v \in Waves, v # w PROVE RowAt(v)'
  <2>1. SUFFICES ASSUME rowQ[v] # <<>> PROVE RowAt(v)'
    BY <1>12, <1>15 DEF RowAt
  <2>2. Len(rowQ[v]) = 1 /\ v \in InMode /\ outstanding[v] /\ Line(rowQ[v][1])
    BY <1>10, <2>1 DEF RowAt
  <2>3. ASSUME NEW r \in ToSet(rowQ[v][1]), NEW u \in Waves \ {v}, rowQ'[u] # <<>> PROVE r \notin ToSet(rowQ'[u][1])
    <3>1. CASE u = w
      <4>1. rowQ'[u] = <<sched>> /\ <<sched>>[1] = sched
        BY <1>12, <2>3, <3>1
      <4>2. rowQ'[u][1] = sched
        BY <4>1
      <4> QED BY <1>14, <1>15, <2>1, <2>3, <4>2
    <3>2. CASE u # w
      BY <1>10, <1>12, <2>1, <2>3, <3>2 DEF RowAt
    <3> QED BY <3>1, <3>2
  <2>4. rowQ'[v] = rowQ[v] /\ outstanding'[v]
    BY <1>12, <1>15, <2>2
  <2> QED BY <1>3, <1>14, <1>15, <2>1, <2>2, <2>3, <2>4 DEF RowAt
<1>16. RowAt(w)'
  <2>1. SUFFICES ASSUME sched # <<>> PROVE RowAt(w)'
    BY <1>12 DEF RowAt
  <2>2. Len(<<sched>>) = 1 /\ <<sched>>[1] = sched
    OBVIOUS
  <2>3. Len(rowQ'[w]) = 1 /\ rowQ'[w][1] = sched /\ outstanding'[w]
    BY <1>12, <2>1, <2>2
  <2>4. Line(sched) /\ \A r \in ToSet(sched) : r \in Requests
    BY <1>6, SeqIsLine DEF Mine
  <2>5. ASSUME NEW r \in ToSet(sched) PROVE waveOf'[0][r] = w
    BY <1>3, <1>6, <2>5 DEF Mine
  <2>6. ASSUME NEW r \in ToSet(sched), NEW v \in Waves \ {w}, rowQ'[v] # <<>> PROVE r \notin ToSet(rowQ'[v][1])
    BY <1>12, <1>14, <2>6
  <2> QED BY <1>3, <1>13, <2>3, <2>4, <2>5, <2>6 DEF RowAt
<1> QED BY <1>13, <1>15, <1>16, ToldAfter

LEMMA ToldAbsorb ==
  ASSUME BaseInv, ToldInv, NEW w \in Waves, AbsorbDone(w)
  PROVE  ToldInv'
<1>1. mode > 0 /\ UNCHANGED <<mode, eng>> /\ outstanding' = [outstanding EXCEPT ![w] = FALSE]
  BY DEF AbsorbDone
<1>2. /\ TypeInv /\ outstanding \in [Waves -> BOOLEAN] /\ rowQ = [v \in Waves |-> rowQ[v]]
      /\ \A r \in Requests : Line(told[r]) /\ eng[0].booked[r] \in Nat
  <2>1. TypeInv /\ EngineOK(eng[0])
    BY StageFacts DEF BaseInv, EngineInv
  <2> QED BY <2>1 DEF TypeInv, EngineOK
<1>3. (\A r \in Requests : Len(told[r]) <= eng[0].booked[r]) /\ \A v \in Waves : RowAt(v)
  BY <1>1, ToldIs
<1>4. InMode' = InMode /\ \A v \in Waves : v # w => outstanding'[v] = outstanding[v]
  BY <1>1, <1>2 DEF InMode
<1>5. CASE rowQ[w] = <<>> /\ UNCHANGED <<told, rowQ, waveOf>>
  <2>1. ASSUME NEW v \in Waves PROVE RowAt(v)'
    <3>1. SUFFICES ASSUME rowQ[v] # <<>> PROVE RowAt(v)'
      BY <1>5 DEF RowAt
    <3>2. v # w /\ outstanding'[v] = outstanding[v]
      BY <1>4, <1>5, <3>1
    <3>3. RowAt(v)
      BY <1>3
    <3> QED BY <1>1, <1>4, <1>5, <3>2, <3>3 DEF RowAt
  <2> QED BY <1>1, <1>3, <1>5, <2>1, ToldAfter
<1>6. CASE /\ rowQ[w] # <<>> /\ rowQ' = [rowQ EXCEPT ![w] = Tail(@)]
           /\ \A r \in Requests : told'[r] # told[r] => r \in ToSet(Head(rowQ[w])) /\ \E t : told'[r] = Append(told[r], t)
           /\ \A r \in Requests : waveOf'[0][r] # waveOf[0][r] =>
                waveOf'[0][r] = NoWave /\ r \in ToSet(Head(rowQ[w])) /\ Len(told[r]) + 1 >= MaxTokens[r]
  <2>1. PICK q : q = rowQ[w]
    OBVIOUS
  <2>2. Line(q) /\ q # <<>> /\ Len(q) = 1
    BY <1>2, <1>3, <1>6, <2>1 DEF TypeInv, RowAt
  <2>3. Head(q) = q[1] /\ Len(Tail(q)) = 0 /\ Line(Tail(q))
    BY <2>2, LineLess
  <2>4. rowQ'[w] = <<>> /\ \A v \in Waves : v # w => rowQ'[v] = rowQ[v]
    <3>1. Tail(q) = <<>>
      BY <2>3, LineFacts
    <3> QED BY <1>2, <1>6, <2>1, <3>1
  <2>5. ASSUME NEW r \in Requests PROVE Len(told'[r]) <= eng'[0].booked[r]
    <3>1. CASE told'[r] = told[r]
      BY <1>1, <1>3, <3>1
    <3>2. ASSUME r \in ToSet(Head(rowQ[w])), NEW t, told'[r] = Append(told[r], t) PROVE Len(told'[r]) <= eng'[0].booked[r]
      <4>1. Len(told[r]) < eng[0].booked[r]
        BY <1>3, <1>6, <2>1, <2>3, <3>2 DEF RowAt
      <4>2. Len(told'[r]) = Len(told[r]) + 1 /\ Len(told[r]) \in Nat
        BY <1>2, <3>2, LineMore
      <4>3. eng[0].booked[r] \in Nat
        BY <1>2
      <4> QED BY <1>1, <4>1, <4>2, <4>3
    <3> QED BY <1>6, <3>1, <3>2
  <2>6. ASSUME NEW v \in Waves PROVE RowAt(v)'
    <3>1. SUFFICES ASSUME rowQ'[v] # <<>> PROVE RowAt(v)'
      BY DEF RowAt
    <3>2. v # w /\ rowQ'[v] = rowQ[v] /\ outstanding'[v] = outstanding[v] /\ rowQ[v] # <<>>
      BY <1>4, <2>4, <3>1
    <3>3. /\ Len(rowQ[v]) = 1 /\ v \in InMode /\ outstanding[v] /\ Line(rowQ[v][1])
          /\ \A r \in ToSet(rowQ[v][1]) :
               /\ r \in Requests /\ Len(told[r]) < eng[0].booked[r] /\ waveOf[0][r] \in {v, NoWave}
               /\ \A u \in Waves \ {v} : rowQ[u] # <<>> => r \notin ToSet(rowQ[u][1])
      BY <1>3, <3>2 DEF RowAt
    <3>4. \A r \in ToSet(rowQ[v][1]) : r \notin ToSet(Head(rowQ[w]))
      BY <1>6, <2>1, <2>3, <3>2, <3>3
    <3>5. ASSUME NEW r \in ToSet(rowQ[v][1]) PROVE told'[r] = told[r] /\ waveOf'[0][r] = waveOf[0][r]
      BY <1>6, <3>3, <3>4, <3>5
    <3>6. ASSUME NEW r \in ToSet(rowQ[v][1]), NEW u \in Waves \ {v}, rowQ'[u] # <<>> PROVE r \notin ToSet(rowQ'[u][1])
      BY <2>4, <3>3, <3>6
    <3> QED BY <1>1, <1>4, <3>2, <3>3, <3>5, <3>6 DEF RowAt
  <2> QED BY <2>5, <2>6, ToldAfter
<1> QED BY <1>5, <1>6 DEF AbsorbDone

-----------------------------------------------------------------------------
(* All together. *)

LEMMA AgreedQuiet ==
  ASSUME AgreedInv, Quiet
  PROVE  AgreedInv'
<1>1. UNCHANGED <<mode, pc, eng, waveOf, rows, weights, down, ring, told, rowQ, outstanding>>
  BY DEF Quiet
<1>2. AgreeInv'
  <2>1. \A s : Local(s)' = Local(s)
    BY <1>1 DEF Local
  <2>2. Answers' = Answers /\ \A s : Ahead(s)' <=> Ahead(s)
    BY <1>1 DEF Answers, Ahead
  <2>3. ASSUME NEW s \in Followers PROVE AgreeAt(s)'
    <3>1. AgreeAt(s)
      BY DEF AgreedInv, AgreeInv, AgreeAt
    <3>2. CASE Ahead(s)
      <4>1. Ahead(s)' /\ pc'[s] = "ctl" /\ \A f \in Answers' : Local(s)' = AfterTok(Local(s - 1)', f)
        BY <1>1, <2>1, <2>2, <3>1, <3>2 DEF AgreeAt
      <4> QED BY <4>1 DEF AgreeAt
    <3>3. CASE ~Ahead(s)
      <4>1. ~Ahead(s)' /\ Follows(Local(s)', down'[s - 1], Local(s - 1)')
        BY <1>1, <2>1, <2>2, <3>1, <3>3 DEF AgreeAt
      <4> QED BY <4>1 DEF AgreeAt
    <3> QED BY <3>2, <3>3
  <2> QED BY <2>3 DEF AgreeInv, AgreeAt
<1>3. OrderInv'
  BY <1>1 DEF AgreedInv, OrderInv
<1>4. WaveInv'
  <2>1. InMode' = InMode /\ \A s : Link(s)' = Link(s)
    BY <1>1 DEF InMode, Link
  <2>2. mode' = mode /\ outstanding' = outstanding /\ WaveInv
    BY <1>1 DEF AgreedInv
  <2> QED BY <2>1, <2>2 DEF WaveInv, Carries
<1>5. ToldInv'
  BY <1>1, ToldSame DEF AgreedInv
<1> QED BY <1>2, <1>3, <1>4, <1>5 DEF AgreedInv

\* In lockstep nothing is said of waves, and in waves nothing of lockstep.
LEMMA OneDriver ==
  ASSUME TypeInv, mode' = mode
  PROVE  /\ mode = 0 => WaveInv' /\ ToldInv'
         /\ mode > 0 => OrderInv'
<1>1. mode = 0 => ~(mode' > 0)
  BY SpliceAssumption DEF TypeInv
<1>2. mode > 0 => mode' # 0
  BY SpliceAssumption DEF TypeInv
<1> QED BY <1>1, <1>2 DEF WaveInv, ToldInv, OrderInv

\* A driver's step that raises is counted.
LEMMA AgreedMoves ==
  ASSUME BaseInv, AgreedInv, Moves, failed' = failed
  PROVE  AgreedInv'
<1>1. AgreeInv /\ OrderInv /\ WaveInv /\ ToldInv /\ TypeInv /\ failed # failed + 1
  BY DEF AgreedInv, BaseInv, TypeInv
<1>2. CASE LockstepStep
  <2>1. PICK f : StepFrame(f)
    BY <1>2, LockstepFrameIs
  <2>2. mode = 0 /\ mode' = mode
    BY <1>2 DEF LockstepStep, MayStep
  <2>3. AgreeInv' /\ OrderInv'
    BY <1>1, <1>2, <2>1, AgreeStepped, OrderStepped
  <2> QED BY <1>1, <2>2, <2>3, OneDriver DEF AgreedInv
<1>3. CASE LockstepToken
  <2>1. mode = 0 /\ mode' = mode
    BY <1>3 DEF LockstepToken
  <2>2. AgreeInv' /\ OrderInv'
    BY <1>1, <1>3, AgreeToken, OrderToken
  <2> QED BY <1>1, <2>1, <2>2, OneDriver DEF AgreedInv
<1>4. CASE LockstepFails
  BY <1>1, <1>4 DEF LockstepFails, Raises
<1>5. CASE Heartbeat
  <2>1. PICK f : IdleDone(f)
    BY <1>5, IdleEffect
  <2> QED BY <1>1, <2>1, AgreeIdle, OrderIdle, WaveIdle, ToldIdle DEF AgreedInv
<1>6. ASSUME NEW w \in Waves, StepWave(w) PROVE AgreedInv'
  <2>1. PICK f : StepFrame(f)
    BY <1>6, WaveFrameIs
  <2>2. mode > 0 /\ mode' = mode
    BY <1>6 DEF StepWave, MayStepWave
  <2>3. AgreeInv' /\ WaveInv' /\ ToldInv'
    BY <1>1, <1>6, <2>1, AgreeStepped, WaveStepped, ToldStepped
  <2> QED BY <1>1, <2>2, <2>3, OneDriver DEF AgreedInv
<1>7. ASSUME NEW w \in Waves, Absorb(w) PROVE AgreedInv'
  <2>1. AbsorbDone(w)
    BY <1>7, AbsorbEffect
  <2>2. mode > 0 /\ mode' = mode
    BY <2>1 DEF AbsorbDone
  <2>3. AgreeInv' /\ WaveInv' /\ ToldInv'
    BY <1>1, <2>1, AgreeAbsorb, WaveAbsorb, ToldAbsorb
  <2> QED BY <1>1, <2>2, <2>3, OneDriver DEF AgreedInv
<1>8. ASSUME NEW w \in Waves, StepWaveFails(w) PROVE AgreedInv'
  BY <1>1, <1>8 DEF StepWaveFails, Raises
<1>9. ASSUME NEW s \in Followers, TakeCtl(s) PROVE AgreedInv'
  <2>1. PICK f : f = Head(down[s - 1])
    OBVIOUS
  <2>2. Others(s) /\ UNCHANGED <<mode, told, rowQ, outstanding>>
    BY <1>9, <2>1, CtlEffect
  <2> QED BY <1>1, <1>9, <2>2, AgreeCtl, OrderCtl, WaveCtl, ToldFollowed DEF AgreedInv
<1>10. ASSUME NEW s \in Followers, TakeHr(s) PROVE AgreedInv'
  <2>1. PICK f : f = Head(down[s - 1])
    OBVIOUS
  <2>2. Others(s) /\ UNCHANGED <<mode, told, rowQ, outstanding>>
    BY <1>10, <2>1, HrEffect DEF HrDone
  <2> QED BY <1>1, <1>10, <2>2, AgreeHr, OrderHr, WaveHr, ToldFollowed DEF AgreedInv
<1>11. ASSUME NEW s \in Followers, s # LastStage, TakeTok(s) PROVE AgreedInv'
  <2>1. PICK f : f = Head(down[s - 1])
    OBVIOUS
  <2>2. Others(s) /\ UNCHANGED <<mode, told, rowQ, outstanding>>
    BY <1>11, <2>1, TokEffect DEF TokDone
  <2> QED BY <1>1, <1>11, <2>2, AgreeTok, OrderTok, WaveTok, ToldFollowed DEF AgreedInv
<1> QED BY <1>2, <1>3, <1>4, <1>5, <1>6, <1>7, <1>8, <1>9, <1>10, <1>11 DEF Moves

\* failed only counts up.
LEMMA FailedGrows ==
  ASSUME BaseInv, [Next]_vars, failed' = 0
  PROVE  failed = 0
<1>1. failed \in Nat
  BY DEF BaseInv, TypeInv
<1>2. CASE Aside
  BY <1>2, AsideQuiet DEF Quiet
<1>3. CASE Moves
  <2>1. failed' = failed \/ failed' = failed + 1
    <3>1. LockstepStep \/ LockstepToken \/ Heartbeat => failed' = failed
      BY DEF LockstepStep, LockstepToken, Heartbeat
    <3>2. \A w \in Waves : StepWave(w) \/ Absorb(w) => failed' = failed
      BY DEF StepWave, Absorb
    <3>3. (LockstepFails => failed' = failed + 1) /\ \A w \in Waves : StepWaveFails(w) => failed' = failed + 1
      BY DEF LockstepFails, StepWaveFails, Raises
    <3>4. \A s \in Followers : TakeCtl(s) \/ TakeHr(s) \/ TakeTok(s) => failed' = failed
      BY DEF TakeCtl, TakeHr, TakeTok
    <3> QED BY <1>3, <3>1, <3>2, <3>3, <3>4 DEF Moves
  <2> QED BY <1>1, <2>1
<1> QED BY <1>2, <1>3, NextIs

LEMMA AgreedStep ==
  ASSUME IInv, [Next]_vars
  PROVE  IInv'
<1>1. BaseInv'
  BY BaseStep DEF IInv
<1>2. ASSUME failed' = 0 PROVE AgreedInv'
  <2>1. failed = 0 /\ AgreedInv /\ BaseInv
    BY <1>2, FailedGrows DEF IInv
  <2>2. CASE Aside
    BY <2>1, <2>2, AsideQuiet, AgreedQuiet
  <2>3. CASE Moves
    BY <1>2, <2>1, <2>3, AgreedMoves
  <2> QED BY <2>2, <2>3, NextIs
<1> QED BY <1>1, <1>2 DEF IInv

LEMMA AgreedInit ==
  ASSUME Init
  PROVE  IInv
<1>1. /\ ring = <<>> /\ pc = [s \in Stages |-> IF s = 0 THEN "loop" ELSE "ctl"]
      /\ eng = [s \in Stages |-> [running |-> <<>>, waiting |-> <<>>, booked |-> [r \in Requests |-> 0]]]
      /\ waveOf = [s \in Stages |-> [r \in Requests |-> NoWave]]
      /\ rows = [s \in Stages |-> <<>>] /\ weights = [s \in Stages |-> 0]
      /\ down = [s \in Links |-> <<>>] /\ told = [r \in Requests |-> <<>>]
      /\ rowQ = [w \in Waves |-> <<>>]
  BY DEF Init, Links
<1>2. \A i : i \notin DOMAIN <<>>
  OBVIOUS
<1>3. 0 \in Stages /\ \A s \in Followers : s \in Stages /\ s # 0 /\ s - 1 \in Links /\ s - 1 \in Stages
  BY StageFacts
<1>4. AgreeInv
  <2>1. PICK e, o : e = [running |-> <<>>, waiting |-> <<>>, booked |-> [r \in Requests |-> 0]] /\ o = [r \in Requests |-> NoWave]
    OBVIOUS
  <2>2. ASSUME NEW s \in Stages PROVE Local(s) = View("ctl", e, o, <<>>, 0)
    <3>1. /\ pc[s] \in {"loop", "ctl"} /\ eng[s] = e /\ waveOf[s] = o /\ rows[s] = <<>> /\ weights[s] = 0
      BY <1>1, <2>1
    <3> QED BY <3>1, LocalIs
  <2>3. ASSUME NEW s \in Followers PROVE AgreeAt(s)
    <3>1. pc[s - 1] # "tok" /\ down[s - 1] = <<>>
      BY <1>1, <1>3
    <3>2. Local(s - 1) = Local(s) /\ Local(s).pc # "dead"
      BY <1>3, <2>2, ViewFields
    <3>3. Follows(Local(s), <<>>, Local(s - 1))
      BY <3>2, FollowsNothing
    <3> QED BY <3>1, <3>3 DEF AgreeAt, Ahead
  <2> QED BY <2>3 DEF AgreeInv, AgreeAt
<1>5. OrderInv
  BY <1>1, <1>2 DEF OrderInv
<1>6. WaveInv
  <2>1. \A s \in Stages : Link(s) = <<>>
    BY <1>1, StageFacts DEF Link
  <2> QED BY <1>2, <2>1 DEF WaveInv
<1>7. ToldInv
  <2>1. \A r \in Requests : told[r] = <<>> /\ eng[0].booked[r] = 0
    BY <1>1, <1>3
  <2>2. Len(<<>>) = 0
    OBVIOUS
  <2>3. \A r \in Requests : Len(told[r]) <= eng[0].booked[r]
    BY <2>1, <2>2
  <2> QED BY <1>1, <2>3 DEF ToldInv
<1> QED BY <1>4, <1>5, <1>6, <1>7, BaseInit DEF AgreedInv, IInv

\* As many steps come back at once as there are waves, at most.
LEMMA RingShort ==
  ASSUME TypeInv, WaveInv, mode > 0
  PROVE  Len(ring) <= mode
<1>1. Len(ring) \in Nat /\ DOMAIN ring = 1..Len(ring) /\ mode \in Nat /\ \A i \in DOMAIN ring : ring[i].tag = "tok"
  BY LineFacts, SpliceAssumption DEF TypeInv
<1>2. SUFFICES ASSUME Len(ring) > mode PROVE FALSE
  BY <1>1
<1>. DEFINE S == 1..Len(ring)
            T == 0..(mode - 1)
            h == [i \in S |-> ring[i].wave]
<1>3. IsFiniteSet(S) /\ Cardinality(S) = Len(ring) /\ IsFiniteSet(T) /\ Cardinality(T) = mode
  <2>1. IsFiniteSet(1..Len(ring)) /\ Cardinality(1..Len(ring)) = IF 1 > Len(ring) THEN 0 ELSE Len(ring) - 1 + 1
    BY <1>1, FS_Interval
  <2>2. IsFiniteSet(0..(mode - 1)) /\ Cardinality(0..(mode - 1)) = IF 0 > mode - 1 THEN 0 ELSE mode - 1 - 0 + 1
    BY <1>1, FS_Interval
  <2> QED BY <1>1, <1>2, <2>1, <2>2
<1>4. LastStage \in Stages /\ Link(LastStage) = ring
  BY StageFacts DEF Link
<1>5. ASSUME NEW i \in S PROVE ring[i].wave \in T
  <2>1. Link(LastStage)[i].tag # "ctl" /\ i \in DOMAIN Link(LastStage)
    BY <1>1, <1>4, <1>5
  <2>2. Link(LastStage)[i].wave \in InMode
    BY <1>4, <2>1 DEF WaveInv
  <2> QED BY <1>4, <2>2 DEF InMode
<1>6. ASSUME NEW i \in S, NEW j \in S, ring[i].wave = ring[j].wave PROVE i = j
  <2>1. Link(LastStage)[i].tag # "ctl" /\ i \in DOMAIN Link(LastStage) /\ j \in DOMAIN Link(LastStage)
    BY <1>1, <1>4, <1>6
  <2>2. Carries(LastStage, j, Link(LastStage)[i].wave)
    BY <1>1, <1>4, <1>6 DEF Carries
  <2> QED BY <1>4, <2>1, <2>2 DEF WaveInv
<1>7. h \in [S -> T]
  BY <1>5
<1>8. Cardinality(T) < Cardinality(S)
  BY <1>1, <1>2, <1>3
<1>9. \E x, y \in S : x # y /\ h[x] = h[y]
  <2>. HIDE DEF S, T, h
  <2> QED BY <1>3, <1>7, <1>8, FS_PigeonHole
<1>10. PICK x \in S, y \in S : x # y /\ h[x] = h[y]
  BY <1>9
<1>11. ring[x].wave = ring[y].wave
  BY <1>10
<1> QED BY <1>6, <1>10, <1>11

LEMMA AgreedMeans ==
  ASSUME IInv
  PROVE  StepsAgree
<1>1. BaseInv /\ TypeInv /\ EngineInv /\ (failed = 0 => AgreeInv /\ OrderInv /\ WaveInv /\ ToldInv)
  BY DEF IInv, BaseInv, AgreedInv
<1>2. \A s \in Stages : s = 0 \/ s \in Followers
  BY StageFacts
<1>3. TypeOK
  <2>1. client \in [Requests -> {"new", "open", "gone", "done"}]
    BY <1>1 DEF TypeInv
  <2>2. \A s \in Stages : pc[s] \in (IF s = 0 THEN {"loop", "tok"} ELSE {"ctl", "hr", "tok", "dead"})
    BY <1>1, <1>2 DEF TypeInv
  <2>3. \A s \in Stages : EngineOK(eng[s])
    BY <1>1 DEF EngineInv
  <2>4. \A s \in Stages : IsInjective(eng[s].running \o eng[s].waiting)
    BY <2>3 DEF EngineOK
  <2>5. \A s \in Stages : \A r \in Requests : eng[s].booked[r] \in 0..MaxTokens[r]
    <3>1. \A s \in Stages : \A r \in Requests : eng[s].booked[r] \in Nat /\ eng[s].booked[r] <= MaxTokens[r]
      BY <2>3 DEF EngineOK
    <3>2. \A r \in Requests : MaxTokens[r] \in Nat
      BY SpliceAssumption
    <3> QED BY <3>1, <3>2
  <2>6. ASSUME failed = 0
        PROVE  (Len(ring) <= IF mode = 0 THEN 1 ELSE mode) /\ \A w \in Waves : Len(rowQ[w]) <= 1
    <3>1. AgreeInv /\ OrderInv /\ WaveInv /\ ToldInv /\ Len(<<>>) = 0
      BY <1>1, <2>6
    <3>2. mode \in Nat
      BY <1>1, SpliceAssumption DEF TypeInv
    <3>3. CASE mode = 0
      <4>1. Len(ring) <= 1
        <5>1. ring # <<>> => Len(ring) = 1
          BY <3>1, <3>3 DEF OrderInv
        <5>2. Len(ring) = 0 \/ Len(ring) = 1
          BY <3>1, <5>1
        <5>3. 0 <= 1 /\ 1 <= 1
          OBVIOUS
        <5> QED BY ONLY <5>2, <5>3, Zenon
      <4>2. \A w \in Waves : Len(rowQ[w]) <= 1
        BY <3>1, <3>3 DEF OrderInv
      <4> QED BY <3>3, <4>1, <4>2
    <3>4. CASE mode > 0
      <4>1. Len(ring) <= mode
        BY <1>1, <3>1, <3>4, RingShort
      <4>2. \A w \in Waves : Len(rowQ[w]) <= 1
        <5>1. TAKE w \in Waves
        <5>2. rowQ[w] # <<>> => Len(rowQ[w]) = 1
          BY <3>1, <3>4 DEF ToldInv
        <5>3. Len(rowQ[w]) = 0 \/ Len(rowQ[w]) = 1
          BY <3>1, <5>2
        <5>4. 0 <= 1 /\ 1 <= 1
          OBVIOUS
        <5> QED BY ONLY <5>3, <5>4, Zenon
      <4> QED BY <3>4, <4>1, <4>2
    <3> QED BY <3>2, <3>3, <3>4
  <2> QED BY <2>1, <2>2, <2>4, <2>5, <2>6 DEF TypeOK
<1>4. ASSUME failed = 0, NEW s \in Stages PROVE pc[s] # "dead"
  <2>1. CASE s = 0
    BY <1>1, <2>1 DEF TypeInv
  <2>2. CASE s \in Followers /\ Ahead(s)
    BY <1>1, <1>4, <2>2 DEF AgreeInv
  <2>3. CASE s \in Followers /\ ~Ahead(s)
    <3>1. PICK q : q = down[s - 1]
      OBVIOUS
    <3>2. Follows(Local(s), q, Local(s - 1))
      BY <1>1, <1>4, <2>3, <3>1 DEF AgreeInv
    <3>3. Len(q) \in Nat /\ 0 \in 0..Len(q)
      <4>1. Line(q)
        BY <1>1, <2>3, <3>1, StageFacts DEF TypeInv
      <4> QED BY <4>1, LineFacts
    <3>4. Path(Local(s), q)[0] = Local(s)
      BY <3>3, PathIs
    <3>5. Local(s).pc # "dead"
      BY <3>2, <3>3, <3>4 DEF Follows
    <3> QED BY <3>5, LocalIs, ViewFields
  <2> QED BY <1>2, <2>1, <2>2, <2>3
<1>5. ASSUME failed = 0, NEW s \in Stages \ {0}, pc[s] = "hr", Upstream(s) # <<>>
      PROVE  Head(Upstream(s)).rows = rows[s] /\ Head(Upstream(s)).weights = weights[s]
  <2>1. s \in Followers /\ down[s - 1] # <<>> /\ AgreeInv
    BY <1>1, <1>2, <1>5 DEF Upstream
  <2>2. PICK f : f = Head(down[s - 1])
    OBVIOUS
  <2>3. f.tag = pc[s] /\ (f.tag = "hr" => f.rows = rows[s] /\ f.weights = weights[s])
    BY <1>1, <2>1, <2>2, Awaits
  <2> QED BY <1>5, <2>2, <2>3 DEF Upstream
<1>6. InLockstep /\ SameStep
  BY <1>4, <1>5 DEF InLockstep, SameStep
<1> QED BY <1>3, <1>6 DEF StepsAgree

(***************************************************************************)
(* run_first, run_first_waves and the followers' loops (pipeline.py): for  *)
(* any number of stages, waves and requests, every frame a stage takes is  *)
(* of the kind its driver waits for, and the hidden states it injects are  *)
(* those of the requests its own scheduler chose and of its own weights,   *)
(* unless a step of stage 0 raised.                                        *)
(***************************************************************************)
THEOREM StepsAlwaysAgree == Spec => []StepsAgree
<1>1. Init => IInv
  BY AgreedInit
<1>2. IInv /\ [Next]_vars => IInv'
  BY AgreedStep
<1>3. IInv => StepsAgree
  BY AgreedMeans
<1> QED BY <1>1, <1>2, <1>3, PTL DEF Spec

-----------------------------------------------------------------------------
(***************************************************************************)
(* What becomes of the tokens.                                             *)
(***************************************************************************)
\* The last stage names its tokens by its own rows, and numbers them by its own books.
LEMMA HrToks ==
  ASSUME TakeHr(LastStage), NEW f, f = Head(down[LastStage - 1]), f.tag = "hr", rows[LastStage] \in Seq(Requests)
  PROVE  \E g : /\ g.tag = "tok" /\ g.wave = f.wave /\ ring' = Append(ring, g)
                /\ DOMAIN g.toks = DOMAIN rows[LastStage]
                /\ \A i \in DOMAIN rows[LastStage] :
                     /\ g.toks[i].of = rows[LastStage][i]
                     /\ g.toks[i].nr = eng[LastStage].booked[rows[LastStage][i]] + 1
<1>1. PICK ended \in SUBSET ToSet(rows[LastStage]) :
        ring' = Append(ring, Tok(f.wave, Sampled(LastStage, rows[LastStage], ended)))
  BY DEF TakeHr, Upstream
<1>2. PICK q : q = rows[LastStage]
  OBVIOUS
<1>3. PICK toks : toks = Sampled(LastStage, q, ended)
  OBVIOUS
<1>4. toks = [i \in 1..Len(q) |-> [of |-> q[i], nr |-> eng[LastStage].booked[q[i]] + 1, eos |-> q[i] \in ended]]
  BY <1>3 DEF Sampled
<1>5. DOMAIN q = 1..Len(q)
  BY <1>2
<1>6. DOMAIN toks = DOMAIN q
  BY <1>4, <1>5
<1>7. ASSUME NEW i \in DOMAIN q
      PROVE  toks[i].of = q[i] /\ toks[i].nr = eng[LastStage].booked[q[i]] + 1
  <2>1. toks[i] = [of |-> q[i], nr |-> eng[LastStage].booked[q[i]] + 1, eos |-> q[i] \in ended]
    BY <1>4, <1>5, <1>7
  <2> QED BY <2>1
<1>8. PICK g : g = Tok(f.wave, toks)
  OBVIOUS
<1>9. g.tag = "tok" /\ g.wave = f.wave /\ g.toks = toks
  BY <1>8 DEF Tok
<1> QED BY <1>1, <1>2, <1>3, <1>6, <1>7, <1>8, <1>9

\* A control frame books nothing.
LEMMA CtlBooked ==
  ASSUME BaseInv, NEW s \in Followers, TakeCtl(s)
  PROVE  eng'[s].booked = eng[s].booked
<1>1. s \in Stages /\ eng = [t \in Stages |-> eng[t]]
  BY StageFacts DEF BaseInv, TypeInv
<1>2. PICK f : f = Head(Upstream(s))
  OBVIOUS
<1>3. CASE f.tag # "ctl"
  BY <1>2, <1>3 DEF TakeCtl, Dies
<1>4. CASE f.tag = "ctl"
  <2>1. PICK e : e = Applied(eng[s], f)
    OBVIOUS
  <2>2. e.booked = eng[s].booked
    BY <2>1 DEF Applied
  <2>3. \A own, sched : AfterStep(e, own, sched).booked = e.booked
    BY DEF AfterStep
  <2>4. \/ \E own, sched : eng' = [eng EXCEPT ![s] = AfterStep(e, own, sched)]
        \/ eng' = [eng EXCEPT ![s] = e]
    BY <1>2, <1>4, <2>1 DEF TakeCtl
  <2> QED BY <1>1, <2>2, <2>3, <2>4
<1> QED BY <1>3, <1>4

\* In lockstep a step books nothing before its tokens are back.
LEMMA StepBooked ==
  ASSUME BaseInv, mode = 0, NEW f, NEW outcome, outcome = "stepped", Emit(f, outcome)
  PROVE  eng'[0].booked = eng[0].booked
<1>1. 0 \in Stages /\ eng = [t \in Stages |-> eng[t]]
  BY StageFacts DEF BaseInv, TypeInv
<1>. DEFINE e == Applied(eng[0], f)
            own == Mine(Mapped(waveOf[0], f), f.wave)
            sched == Schedule(e, own)
            after == AfterStep(e, own, sched)
<1>2. eng' = [eng EXCEPT ![0] = IF outcome # "stepped" THEN e ELSE IF mode = 0 THEN after ELSE Book(after, sched, {})]
  BY DEF Emit
<1>3. e.booked = eng[0].booked
  BY DEF Applied
<1>4. after.booked = e.booked
  BY DEF AfterStep
<1>. HIDE DEF e, own, sched, after
<1>5. eng' = [eng EXCEPT ![0] = after]
  BY <1>2
<1> QED BY <1>1, <1>3, <1>4, <1>5

\* Who is told, and what.
LEMMA TellMore ==
  ASSUME NEW toks, NEW done, Tell(toks, done)
  PROVE  \A r \in Requests : IF \E t \in toks : t.of = r
                             THEN \E t \in toks : t.of = r /\ told'[r] = Append(told[r], t) ELSE told'[r] = told[r]
<1>1. TAKE r \in Requests
<1>2. told'[r] = IF \E t \in toks : t.of = r THEN Append(told[r], CHOOSE t \in toks : t.of = r) ELSE told[r]
  BY DEF Tell
<1> QED BY <1>2

\* One more token, of the next number.
LEMMA RightMore ==
  ASSUME TypeInv, RightTokens, mode' = mode,
         \A r \in Requests : \/ told'[r] = told[r]
                             \/ \E t : told'[r] = Append(told[r], t) /\ t.nr = Len(told[r]) + 1 /\ (mode > 0 => t.by = r)
  PROVE  RightTokens'
<1>1. ASSUME NEW r \in Requests, NEW i \in 1..Len(told'[r])
      PROVE  told'[r][i].nr = i /\ (mode > 0 => told'[r][i].by = r)
  <2>1. Line(told[r]) /\ Len(told[r]) \in Nat
    BY LineFacts DEF TypeInv
  <2>2. \A j \in 1..Len(told[r]) : told[r][j].nr = j /\ (mode > 0 => told[r][j].by = r)
    BY DEF RightTokens
  <2>3. CASE told'[r] = told[r]
    BY <1>1, <2>2, <2>3
  <2>4. ASSUME NEW t, told'[r] = Append(told[r], t), t.nr = Len(told[r]) + 1, mode > 0 => t.by = r
        PROVE  told'[r][i].nr = i /\ (mode > 0 => told'[r][i].by = r)
    <3>1. /\ Len(told'[r]) = Len(told[r]) + 1 /\ told'[r][Len(told[r]) + 1] = t
          /\ \A j \in 1..Len(told[r]) : told'[r][j] = told[r][j]
      BY <2>1, <2>4, LineMore
    <3>2. i = Len(told[r]) + 1 \/ i \in 1..Len(told[r])
      BY <1>1, <2>1, <3>1
    <3> QED BY <2>2, <2>4, <3>1, <3>2
  <2> QED BY <2>3, <2>4
<1> QED BY <1>1 DEF RightTokens

\* No token is taken.
LEMMA RightSame ==
  ASSUME RightTokens, UNCHANGED <<mode, told>>
  PROVE  RightTokens'
  BY DEF RightTokens

-----------------------------------------------------------------------------
(* In lockstep: stage 0 books what it is told. *)

\* When the last stage is to sample, all stages are at the same step.
LEMMA AllAlike ==
  ASSUME BaseInv, AgreeInv, OrderInv, mode = 0, down[LastStage - 1] # <<>>,
         NEW f, f = Head(down[LastStage - 1]), f.tag = "hr"
  PROVE  eng[LastStage] = eng[0] /\ rows[LastStage] = rows[0]
<1>1. LastStage \in Followers /\ LastStage \in Nat /\ LastStage \in Stages /\ LastStage - 1 \in Nat
  BY StageFacts
<1>2. /\ Tail(down[LastStage - 1]) = <<>> /\ f.wave = NoWave
      /\ \A t \in Links : t <= LastStage - 1 => pc[t] = "tok" /\ (t < LastStage - 1 => down[t] = <<>>)
  BY <1>1, HrAlone
<1>3. ASSUME NEW t \in Links
      PROVE  pc[t] = "tok" /\ Local(t).eng = eng[t] /\ Local(t).rows = rows[t]
  <2>1. t <= LastStage - 1
    BY <1>1, <1>3 DEF Links
  <2>2. pc[t] = "tok"
    BY <1>2, <2>1
  <2>3. Local(t) = View(pc[t], eng[t], waveOf[t], rows[t], weights[t])
    BY <2>2, LocalIs
  <2> QED BY <2>2, <2>3, ViewFields
<1>4. ASSUME NEW t \in Links, t # 0
      PROVE  eng[t] = eng[t - 1] /\ rows[t] = rows[t - 1]
  <2>1. t \in Followers /\ t # LastStage /\ t - 1 \in Links /\ t - 1 < LastStage - 1
    BY <1>1, <1>4, StageFacts DEF Links, Followers
  <2>2. down[t - 1] = <<>> /\ ~Ahead(t)
    <3>1. t - 1 <= LastStage - 1
      BY <1>1, <1>4, <2>1 DEF Links
    <3> QED BY <1>2, <2>1, <3>1 DEF Ahead
  <2>3. Follows(Local(t), <<>>, Local(t - 1))
    BY <2>1, <2>2 DEF AgreeInv
  <2>4. Local(t - 1) = Local(t)
    BY <2>3, FollowsNothing
  <2> QED BY <1>3, <1>4, <2>1, <2>4
<1>5. eng[LastStage] = eng[LastStage - 1] /\ rows[LastStage] = rows[LastStage - 1]
  <2>1. /\ f.tag = pc[LastStage] /\ f.rows = rows[LastStage] /\ f.weights = weights[LastStage]
        /\ Follows(After(Local(LastStage), f), <<>>, Local(LastStage - 1))
    BY <1>1, <1>2, Awaits
  <2>2. Local(LastStage - 1) = After(Local(LastStage), f)
    BY <2>1, FollowsNothing
  <2>3. Local(LastStage) = View("hr", eng[LastStage], waveOf[LastStage], rows[LastStage], weights[LastStage])
    BY <2>1, LocalIs
  <2>4. EngineOK(eng[LastStage]) /\ ToSet(rows[LastStage]) \subseteq ToSet(eng[LastStage].running)
    BY <1>1, <2>1 DEF BaseInv, EngineInv
  <2>5. After(Local(LastStage), f) = View("tok", eng[LastStage], waveOf[LastStage], rows[LastStage], weights[LastStage])
    <3>1. PICK e, of, q, n : e = eng[LastStage] /\ of = waveOf[LastStage] /\ q = rows[LastStage] /\ n = weights[LastStage]
      OBVIOUS
    <3>2. EngineOK(e) /\ ToSet(q) \subseteq ToSet(e.running) /\ f.rows = q /\ f.weights = n
      BY <2>1, <2>4, <3>1
    <3>3. After(View("hr", e, of, q, n), f) = View("tok", e, of, q, n)
      BY ONLY <1>2, <3>2, f.tag = "hr", AfterOfHr
    <3> QED BY <2>3, <3>1, <3>3
  <2>6. LastStage - 1 \in Links
    BY <1>1, StageFacts
  <2> QED BY <1>3, <2>2, <2>5, <2>6, ViewFields
<1>6. \A n \in Nat : n < LastStage => eng[n] = eng[0] /\ rows[n] = rows[0]
  <2>1. PICK S : S = {n \in Nat : n < LastStage => eng[n] = eng[0] /\ rows[n] = rows[0]}
    OBVIOUS
  <2>2. 0 \in S
    BY <2>1
  <2>3. ASSUME NEW n \in Nat, n \in S PROVE n + 1 \in S
    <3>1. SUFFICES ASSUME n + 1 < LastStage PROVE eng[n + 1] = eng[0] /\ rows[n + 1] = rows[0]
      BY <2>1
    <3>2. n + 1 \in Links /\ n + 1 # 0 /\ (n + 1) - 1 = n /\ n < LastStage
      BY <1>1, <3>1 DEF Links
    <3> QED BY <1>4, <2>1, <2>3, <3>2
  <2>4. \A n \in Nat : n \in S
    BY <2>2, <2>3, SetInduction
  <2> QED BY <2>1, <2>4
<1>7. LastStage - 1 < LastStage
  BY <1>1
<1> QED BY <1>1, <1>5, <1>6, <1>7

\* Nothing is sampled, booked or told.
LEMMA SoloSame ==
  ASSUME SoloInv, UNCHANGED <<mode, told, ring>>, eng'[0].booked = eng[0].booked, ring # <<>> => rows'[0] = rows[0]
  PROVE  SoloInv'
<1>1. SUFFICES ASSUME mode = 0 PROVE SoloInv'
  BY DEF SoloInv
<1>2. \A r \in Requests : Len(told'[r]) = eng'[0].booked[r]
  BY <1>1 DEF SoloInv
<1>3. ASSUME NEW j \in DOMAIN ring' PROVE Stamped(ring[j].toks, rows[0], 1)'
  <2>1. ring # <<>> /\ j \in DOMAIN ring
    BY <1>3
  <2>2. Stamped(ring[j].toks, rows[0], 1)
    BY <1>1, <2>1 DEF SoloInv
  <2> QED BY <2>1, <2>2 DEF Stamped
<1> QED BY <1>2, <1>3 DEF SoloInv

\* The last stage samples for the rows of stage 0.
LEMMA SoloHr ==
  ASSUME BaseInv, AgreeInv, OrderInv, SoloInv, NEW s \in Followers, TakeHr(s)
  PROVE  SoloInv'
<1>1. PICK f : f = Head(down[s - 1])
  OBVIOUS
<1>2. HrDone(s, f)
  BY <1>1, HrEffect
<1>3. /\ down[s - 1] # <<>> /\ pc[s] = "hr" /\ Others(s) /\ UNCHANGED <<mode, told>>
  BY <1>2 DEF HrDone
<1>4. f.tag = "hr"
  BY <1>1, <1>3, Awaits
<1>5. eng'[0] = eng[0] /\ rows'[0] = rows[0]
  BY <1>3, StageFacts DEF Others
<1>6. CASE s # LastStage
  <2>1. ring' = ring
    BY <1>2, <1>4, <1>6 DEF HrDone
  <2> QED BY <1>3, <1>5, <2>1, SoloSame
<1>7. CASE s = LastStage /\ mode = 0
  <2>1. TypeInv /\ rows[LastStage] \in Seq(Requests)
    BY StageFacts DEF BaseInv, TypeInv
  <2>2. PICK g : /\ ring' = Append(ring, g)
                 /\ DOMAIN g.toks = DOMAIN rows[LastStage]
                 /\ \A i \in DOMAIN rows[LastStage] :
                      /\ g.toks[i].of = rows[LastStage][i]
                      /\ g.toks[i].nr = eng[LastStage].booked[rows[LastStage][i]] + 1
    BY <1>1, <1>4, <1>7, <2>1, HrToks
  <2>3. eng[LastStage] = eng[0] /\ rows[LastStage] = rows[0]
    BY <1>1, <1>3, <1>4, <1>7, AllAlike
  <2>4. ring = <<>>
    BY <1>1, <1>3, <1>4, <1>7, HrAlone
  <2>5. /\ DOMAIN g.toks = DOMAIN rows'[0]
        /\ \A i \in DOMAIN rows'[0] : g.toks[i].of = rows'[0][i] /\ g.toks[i].nr = eng'[0].booked[rows'[0][i]] + 1
    BY <1>5, <2>2, <2>3
  <2>6. \A j \in DOMAIN ring' : ring'[j] = g
    <3>1. ring' = <<g>>
      BY <2>2, <2>4
    <3> QED BY <3>1
  <2>7. ASSUME NEW j \in DOMAIN ring' PROVE Stamped(ring[j].toks, rows[0], 1)'
    BY <2>5, <2>6 DEF Stamped
  <2>8. \A r \in Requests : Len(told'[r]) = eng'[0].booked[r]
    BY <1>3, <1>5, <1>7 DEF SoloInv
  <2> QED BY <2>7, <2>8 DEF SoloInv
<1>8. CASE mode # 0
  BY <1>3, <1>8 DEF SoloInv
<1> QED BY <1>6, <1>7, <1>8

\* A lockstep step finds the ring empty, and books nothing yet.
LEMMA SoloStepped ==
  ASSUME BaseInv, OrderInv, SoloInv, LockstepStep
  PROVE  SoloInv'
<1>1. /\ mode = 0 /\ pc[0] = "loop" /\ UNCHANGED <<mode, told, ring>>
      /\ \E f : Emit(f, "stepped")
  BY DEF LockstepStep, MayStep
<1>2. PICK outcome : outcome = "stepped"
  OBVIOUS
<1>3. PICK f : Emit(f, outcome)
  BY <1>1, <1>2
<1>4. eng'[0].booked = eng[0].booked
  BY <1>1, <1>2, <1>3, StepBooked
<1>5. ring = <<>>
  BY <1>1, StageFacts DEF OrderInv
<1> QED BY <1>1, <1>4, <1>5, SoloSame

\* Each of the tokens is the next of its request.
LEMMA SoloToken ==
  ASSUME BaseInv, OrderInv, SoloInv, RightTokens, LockstepToken
  PROVE  SoloInv' /\ RightTokens'
<1>1. PICK f : f = Head(ring)
  OBVIOUS
<1>2. TokenDone(f)
  BY <1>1, TokenEffect
<1>3. /\ mode = 0 /\ mode' = mode /\ ring # <<>> /\ ring' = Tail(ring) /\ rows'[0] = rows[0]
      /\ eng'[0] = Book(eng[0], rows[0], Ended(f.toks)) /\ ToSet(rows[0]) \subseteq ToSet(eng[0].running)
  BY <1>2 DEF TokenDone
<1>4. TypeInv /\ EngineOK(eng[0]) /\ Line(ring) /\ rows[0] \in Seq(Requests)
  BY StageFacts DEF BaseInv, TypeInv, EngineInv
<1>5. f = ring[1] /\ 1 \in DOMAIN ring
  BY <1>1, <1>3, <1>4, LineLess
<1>6. PICK q, toks : q = rows[0] /\ toks = f.toks
  OBVIOUS
<1>7. DOMAIN toks = DOMAIN q /\ \A i \in DOMAIN q : toks[i].of = q[i] /\ toks[i].nr = eng[0].booked[q[i]] + 1
  BY <1>3, <1>5, <1>6 DEF SoloInv, Stamped
<1>8. \A r \in Requests : Len(told[r]) = eng[0].booked[r]
  BY <1>3 DEF SoloInv
<1>9. \A r \in Requests : IF \E t \in ToSet(toks) : t.of = r
                          THEN \E t \in ToSet(toks) : t.of = r /\ told'[r] = Append(told[r], t)
                          ELSE told'[r] = told[r]
  <2>1. \E done : Tell(ToSet(toks), done)
    BY <1>1, <1>6 DEF LockstepToken
  <2> QED BY <2>1, TellMore
<1>10. \A r \in Requests : (\E t \in ToSet(toks) : t.of = r) <=> r \in ToSet(q)
  BY <1>7 DEF ToSet
<1>11. \A t \in ToSet(toks) : t.nr = eng[0].booked[t.of] + 1
  BY <1>7 DEF ToSet
<1>12. \A r \in Requests : eng'[0].booked[r] = IF r \in ToSet(q) THEN eng[0].booked[r] + 1 ELSE eng[0].booked[r]
  BY <1>3, <1>4, <1>6, BookFacts
<1>13. RightTokens'
  <2>1. ASSUME NEW r \in Requests
        PROVE  \/ told'[r] = told[r]
               \/ \E t : told'[r] = Append(told[r], t) /\ t.nr = Len(told[r]) + 1 /\ (mode > 0 => t.by = r)
    BY <1>3, <1>8, <1>9, <1>11
  <2> QED BY <1>3, <1>4, <2>1, RightMore
<1>14. ASSUME NEW r \in Requests PROVE Len(told'[r]) = eng'[0].booked[r]
  <2>1. CASE r \in ToSet(q)
    <3>1. PICK t : told'[r] = Append(told[r], t)
      BY <1>9, <1>10, <2>1
    <3>2. Len(told'[r]) = Len(told[r]) + 1
      BY <1>4, <3>1, LineMore DEF TypeInv
    <3> QED BY <1>8, <1>12, <2>1, <3>2
  <2>2. CASE r \notin ToSet(q)
    BY <1>8, <1>9, <1>10, <1>12, <2>2
  <2> QED BY <2>1, <2>2
<1>15. ring' = <<>>
  <2>1. Len(ring) = 1
    BY <1>3 DEF OrderInv
  <2>2. PICK p : p = Tail(ring)
    OBVIOUS
  <2>3. Line(p) /\ Len(p) = 0
    BY <1>3, <1>4, <2>1, <2>2, LineLess
  <2> QED BY <1>3, <2>2, <2>3, LineFacts
<1>16. SoloInv'
  BY <1>14, <1>15 DEF SoloInv
<1> QED BY <1>13, <1>16

-----------------------------------------------------------------------------
(* In waves: the frames of the steps under way. *)

Has(q, r) == \E i \in DOMAIN q : q[i].tag = "hr" /\ r \in ToSet(q[i].rows)

LEMMA ComingIs ==
  \A t, r : Coming(t, r) <=> \E u \in Links : u < t /\ Has(down[u], r)
  BY DEF Coming, Has

\* What a link brings, with one frame more ...
LEMMA HasMore ==
  ASSUME NEW q, Line(q), NEW f, NEW r
  PROVE  Has(Append(q, f), r) <=> Has(q, r) \/ (f.tag = "hr" /\ r \in ToSet(f.rows))
<1>1. PICK c : c = Append(q, f)
  OBVIOUS
<1>2. /\ Len(q) \in Nat /\ DOMAIN q = 1..Len(q) /\ DOMAIN c = 1..(Len(q) + 1)
      /\ c[Len(q) + 1] = f /\ \A i \in 1..Len(q) : c[i] = q[i]
  BY <1>1, LineMore
<1>3. DOMAIN c = DOMAIN q \cup {Len(q) + 1} /\ \A i \in DOMAIN q : c[i] = q[i]
  BY <1>2
<1>4. Has(c, r) <=> Has(q, r) \/ (f.tag = "hr" /\ r \in ToSet(f.rows))
  BY <1>2, <1>3 DEF Has
<1> QED BY <1>1, <1>4

\* ... and without its first.
LEMMA HasLess ==
  ASSUME NEW q, Line(q), q # <<>>, NEW r
  PROVE  /\ Has(q, r) <=> Has(Tail(q), r) \/ (Head(q).tag = "hr" /\ r \in ToSet(Head(q).rows))
         /\ Has(Tail(q), r) => \E i \in DOMAIN q : i # 1 /\ q[i].tag = "hr" /\ r \in ToSet(q[i].rows)
<1>1. PICK c, f : c = Tail(q) /\ f = Head(q)
  OBVIOUS
<1>2. /\ Len(q) \in Nat \ {0} /\ DOMAIN q = 1..Len(q) /\ DOMAIN c = 1..(Len(q) - 1)
      /\ f = q[1] /\ \A i \in 1..(Len(q) - 1) : i + 1 \in 1..Len(q) /\ c[i] = q[i + 1]
  BY <1>1, LineLess
<1>3. Has(c, r) => \E i \in DOMAIN q : i # 1 /\ q[i].tag = "hr" /\ r \in ToSet(q[i].rows)
  <2>1. SUFFICES ASSUME NEW i \in DOMAIN c, c[i].tag = "hr", r \in ToSet(c[i].rows)
                 PROVE  \E j \in DOMAIN q : j # 1 /\ q[j].tag = "hr" /\ r \in ToSet(q[j].rows)
    BY DEF Has
  <2>2. i + 1 \in DOMAIN q /\ i + 1 # 1 /\ q[i + 1] = c[i]
    BY <1>2
  <2> QED BY <2>1, <2>2
<1>4. ASSUME NEW i \in DOMAIN q, q[i].tag = "hr", r \in ToSet(q[i].rows), i # 1 PROVE Has(c, r)
  <2>1. i - 1 \in DOMAIN c /\ c[i - 1] = q[i]
    BY <1>2, <1>4
  <2> QED BY <1>4, <2>1 DEF Has
<1>5. 1 \in DOMAIN q
  BY <1>2
<1>6. Has(q, r) <=> Has(c, r) \/ (f.tag = "hr" /\ r \in ToSet(f.rows))
  BY <1>2, <1>3, <1>4, <1>5 DEF Has
<1> QED BY <1>1, <1>3, <1>6

\* A request is in one step under way at most.
LEMMA HrOnce ==
  ASSUME TypeInv, WaveInv, ToldInv, NamesInv, mode > 0, NEW r,
         NEW u \in Links, NEW i \in DOMAIN down[u], down[u][i].tag = "hr", r \in ToSet(down[u][i].rows),
         NEW t \in Links, NEW j \in DOMAIN down[t], down[t][j].tag = "hr", r \in ToSet(down[t][j].rows)
  PROVE  t = u /\ j = i
<1>1. \A v \in Links : v \in Stages /\ Link(v) = down[v]
  BY StageFacts DEF Link
<1>2. InMode \subseteq Waves
  BY DEF TypeInv, InMode, Waves
<1>3. PICK v, w : v = down[u][i].wave /\ w = down[t][j].wave
  OBVIOUS
<1>4. /\ v \in Waves /\ w \in Waves
      /\ \A x \in Stages : \A n \in DOMAIN Link(x) : Carries(x, n, v) => x = u /\ n = i
  <2>1. down[u][i].tag # "ctl" /\ down[t][j].tag # "ctl"
    OBVIOUS
  <2> QED BY <1>1, <1>2, <1>3, <2>1 DEF WaveInv
<1>5. /\ rowQ[v] # <<>> /\ down[u][i].rows = rowQ[v][1]
      /\ rowQ[w] # <<>> /\ down[t][j].rows = rowQ[w][1]
  BY <1>3 DEF NamesInv
<1>6. v = w
  BY <1>4, <1>5 DEF ToldInv
<1>7. Carries(t, j, v)
  BY <1>1, <1>3, <1>6 DEF Carries
<1> QED BY <1>1, <1>4, <1>7

NamedAt(u, i) ==
  down[u][i].tag = "hr" => rowQ[down[u][i].wave] # <<>> /\ down[u][i].rows = rowQ[down[u][i].wave][1]
ReadAt(j) == rowQ[ring[j].wave] # <<>> /\ Stamped(ring[j].toks, rowQ[ring[j].wave][1], 0)

LEMMA NamesAre ==
  NamesInv <=> (mode > 0 => (\A u \in Links : \A i \in DOMAIN down[u] : NamedAt(u, i)) /\ \A j \in DOMAIN ring : ReadAt(j))
  BY DEF NamesInv, NamedAt, ReadAt

LEMMA NamesAfter ==
  ASSUME \A u \in Links : \A i \in DOMAIN down'[u] : NamedAt(u, i)', \A j \in DOMAIN ring' : ReadAt(j)'
  PROVE  NamesInv'
  BY DEF NamesInv, NamedAt, ReadAt

\* A follower hands on what it has got, and the last one adds to the ring.
LEMMA NamesFollowed ==
  ASSUME TypeInv, NamesInv, mode > 0, UNCHANGED rowQ, eng'[0].booked = eng[0].booked,
         NEW s \in Followers, down[s - 1] # <<>>, NEW g,
         down' = Rest(s) \/ (s # LastStage /\ down' = [Rest(s) EXCEPT ![s] = Append(@, g)]),
         g.tag = "hr" => rowQ[g.wave] # <<>> /\ g.rows = rowQ[g.wave][1],
         NEW h, ring' = ring \/ (ring' = Append(ring, h) /\ rowQ[h.wave] # <<>> /\ Stamped(h.toks, rowQ[h.wave][1], 0))
  PROVE  NamesInv'
<1>1. (\A u \in Links : \A i \in DOMAIN down[u] : NamedAt(u, i)) /\ \A j \in DOMAIN ring : ReadAt(j)
  BY NamesAre
<1>2. ASSUME NEW u \in Links, NEW i \in DOMAIN down'[u] PROVE NamedAt(u, i)'
  <2>1. \/ i + Shift(s, u) \in DOMAIN down[u] /\ down'[u][i] = down[u][i + Shift(s, u)]
        \/ down'[u][i] = g
    <3>1. \A x \in Links : \A n \in DOMAIN down'[x] :
            \/ n + Shift(s, x) \in DOMAIN down[x] /\ down'[x][n] = down[x][n + Shift(s, x)]
            \/ x = s /\ n = Len(down[s]) + 1 /\ down'[x][n] = g
      BY FollowerLinks
    <3> QED BY <1>2, <3>1
  <2>2. ASSUME NEW n \in DOMAIN down[u], down'[u][i] = down[u][n] PROVE NamedAt(u, i)'
    BY <1>1, <2>2 DEF NamedAt
  <2>3. ASSUME down'[u][i] = g PROVE NamedAt(u, i)'
    BY <2>3 DEF NamedAt
  <2> QED BY <2>1, <2>2, <2>3
<1>3. ASSUME NEW j \in DOMAIN ring' PROVE ReadAt(j)'
  <2>1. ASSUME NEW n \in DOMAIN ring, ring'[j] = ring[n] PROVE ReadAt(j)'
    <3>1. PICK f : f = ring[n]
      OBVIOUS
    <3>2. rowQ[f.wave] # <<>> /\ Stamped(f.toks, rowQ[f.wave][1], 0)
      BY <1>1, <2>1, <3>1 DEF ReadAt
    <3>3. ring'[j] = f
      BY <2>1, <3>1
    <3> QED BY ONLY <3>2, <3>3, UNCHANGED rowQ, eng'[0].booked = eng[0].booked DEF ReadAt, Stamped
  <2>2. ASSUME ring'[j] = h, rowQ[h.wave] # <<>>, Stamped(h.toks, rowQ[h.wave][1], 0) PROVE ReadAt(j)'
    BY ONLY <2>2, UNCHANGED rowQ, eng'[0].booked = eng[0].booked DEF ReadAt, Stamped
  <2>3. CASE ring' = ring
    BY <1>3, <2>1, <2>3
  <2>4. CASE ring' = Append(ring, h) /\ rowQ[h.wave] # <<>> /\ Stamped(h.toks, rowQ[h.wave][1], 0)
    <3>1. Line(ring)
      BY DEF TypeInv
    <3>2. (j \in DOMAIN ring /\ ring'[j] = ring[j]) \/ ring'[j] = h
      <4>1. PICK c : c = Append(ring, h)
        OBVIOUS
      <4>2. /\ Len(ring) \in Nat /\ DOMAIN ring = 1..Len(ring) /\ DOMAIN c = 1..(Len(ring) + 1)
            /\ c[Len(ring) + 1] = h /\ \A i \in 1..Len(ring) : c[i] = ring[i]
        BY <3>1, <4>1, LineMore
      <4>3. ring' = c
        BY <2>4, <4>1
      <4> QED BY <1>3, <4>2, <4>3
    <3> QED BY <2>1, <2>2, <2>4, <3>2
  <2> QED BY <2>3, <2>4
<1> QED BY <1>2, <1>3, NamesAfter

\* What a follower has got it hands on; a step is on its way until it is booked.
LEMMA HasFollowed ==
  ASSUME TypeInv, NEW s \in Followers, down[s - 1] # <<>>, NEW f, f = Head(down[s - 1]), NEW g, NEW r,
         down' = Rest(s) \/ (s # LastStage /\ down' = [Rest(s) EXCEPT ![s] = Append(@, g)])
  PROVE  /\ \A u \in Links : u # s - 1 /\ u # s => (Has(down'[u], r) <=> Has(down[u], r))
         /\ Has(down[s - 1], r) <=> Has(down'[s - 1], r) \/ (f.tag = "hr" /\ r \in ToSet(f.rows))
         /\ s \in Links => (Has(down'[s], r) <=>
              Has(down[s], r) \/ (down' # Rest(s) /\ g.tag = "hr" /\ r \in ToSet(g.rows)))
<1>1. /\ down'[s - 1] = Tail(down[s - 1]) /\ \A u \in Links : u # s - 1 /\ u # s => down'[u] = down[u]
      /\ s \in Links => down'[s] = IF down' = Rest(s) THEN down[s] ELSE Append(down[s], g)
  BY FollowerLinks
<1>2. s - 1 \in Links /\ Line(down[s - 1]) /\ (s \in Links => Line(down[s]))
  BY StageFacts DEF TypeInv
<1>3. Has(down[s - 1], r) <=> Has(down'[s - 1], r) \/ (f.tag = "hr" /\ r \in ToSet(f.rows))
  BY <1>1, <1>2, HasLess
<1>4. s \in Links => (Has(Append(down[s], g), r) <=> Has(down[s], r) \/ (g.tag = "hr" /\ r \in ToSet(g.rows)))
  BY <1>2, HasMore
<1> QED BY <1>1, <1>3, <1>4

\* A control frame is no step on its way.
LEMMA CtlComing ==
  ASSUME TypeInv, NEW s \in Followers, down[s - 1] # <<>>, NEW f, f = Head(down[s - 1]), f.tag = "ctl",
         down' = Rest(s) \/ (s # LastStage /\ down' = [Rest(s) EXCEPT ![s] = Append(@, f)])
  PROVE  \A t \in Followers : \A r : Coming(t, r)' <=> Coming(t, r)
<1>1. TAKE t \in Followers
<1>2. TAKE r
<1>3. f.tag # "hr"
  OBVIOUS
<1>4. ASSUME NEW u \in Links PROVE Has(down'[u], r) <=> Has(down[u], r)
  <2>1. /\ u # s - 1 /\ u # s => (Has(down'[u], r) <=> Has(down[u], r))
        /\ Has(down[s - 1], r) <=> Has(down'[s - 1], r)
        /\ s \in Links => (Has(down'[s], r) <=> Has(down[s], r))
    BY <1>3, HasFollowed
  <2> QED BY <2>1
<1>5. Coming(t, r) <=> \E u \in Links : u < t /\ Has(down[u], r)
  BY ComingIs
<1>6. Coming(t, r)' <=> \E u \in Links : u < t /\ Has(down'[u], r)
  BY DEF Coming, Has
<1> QED BY <1>4, <1>5, <1>6

CountAt(t, r) == eng[0].booked[r] = IF Coming(t, r) THEN eng[t].booked[r] + 1 ELSE eng[t].booked[r]

LEMMA CountIs ==
  CountInv <=> (mode > 0 => \A t \in Followers : \A r \in Requests : CountAt(t, r))
  BY DEF CountInv, CountAt

LEMMA CountAfter ==
  ASSUME \A t \in Followers : \A r \in Requests : CountAt(t, r)'
  PROVE  CountInv'
  BY DEF CountInv, CountAt

\* Nothing is booked, and what was on its way still is.
LEMMA CountSame ==
  ASSUME CountInv, mode > 0, \A t \in Stages : eng'[t].booked = eng[t].booked,
         \A t \in Followers : \A r : Coming(t, r)' <=> Coming(t, r)
  PROVE  CountInv'
<1>1. ASSUME NEW t \in Followers, NEW r \in Requests PROVE CountAt(t, r)'
  <2>1. CountAt(t, r)
    BY CountIs
  <2>2. t \in Stages /\ 0 \in Stages
    BY StageFacts
  <2>3. eng'[t].booked = eng[t].booked /\ eng'[0].booked = eng[0].booked /\ (Coming(t, r)' <=> Coming(t, r))
    BY <2>2
  <2> QED BY <2>1, <2>3 DEF CountAt
<1> QED BY <1>1, CountAfter

\* A control frame books nothing.
LEMMA CtlToken ==
  ASSUME BaseInv, AgreeInv, NamesInv, CountInv, mode > 0, NEW s \in Followers, TakeCtl(s)
  PROVE  NamesInv' /\ CountInv'
<1>1. PICK f : f = Head(down[s - 1])
  OBVIOUS
<1>2. /\ down[s - 1] # <<>> /\ pc[s] = "ctl" /\ Others(s) /\ UNCHANGED <<ring, rowQ>>
      /\ \/ f.tag # "ctl"
         \/ down' = IF s = LastStage THEN Rest(s) ELSE [Rest(s) EXCEPT ![s] = Append(@, f)]
  BY <1>1, CtlEffect
<1>3. f.tag = "ctl" /\ TypeInv
  BY <1>1, <1>2, Awaits DEF BaseInv
<1>4. down' = Rest(s) \/ (s # LastStage /\ down' = [Rest(s) EXCEPT ![s] = Append(@, f)])
  BY <1>2, <1>3
<1>5. \A t \in Stages : eng'[t].booked = eng[t].booked
  BY <1>2, CtlBooked DEF Others
<1>6. NamesInv'
  <2>1. eng'[0].booked = eng[0].booked /\ f.tag # "hr"
    BY <1>3, <1>5, StageFacts
  <2> QED BY <1>2, <1>3, <1>4, <2>1, NamesFollowed
<1>7. CountInv'
  BY <1>1, <1>2, <1>3, <1>4, <1>5, CtlComing, CountSame
<1> QED BY <1>6, <1>7

\* A stage that takes the hidden states of a step has it no more before it.
LEMMA HrComing ==
  ASSUME TypeInv, WaveInv, ToldInv, NamesInv, mode > 0, NEW s \in Followers, down[s - 1] # <<>>,
         NEW f, f = Head(down[s - 1]), f.tag = "hr", NEW g, g.tag = "hr", g.rows = f.rows,
         down' = IF s = LastStage THEN Rest(s) ELSE [Rest(s) EXCEPT ![s] = Append(@, g)]
  PROVE  \A t \in Followers : \A r :
           IF t = s /\ r \in ToSet(f.rows) THEN Coming(t, r) /\ ~Coming(t, r)' ELSE Coming(t, r)' <=> Coming(t, r)
<1>1. /\ s - 1 \in Links /\ s \in Int /\ s - 1 # s /\ Line(down[s - 1]) /\ (s # LastStage => s \in Links /\ Line(down[s]))
      /\ (\A u \in Links : u \in Int) /\ \A t \in Followers : t \in Int /\ t <= LastStage
  <2>1. s - 1 \in Links /\ s \in Int /\ s - 1 # s /\ (s # LastStage => s \in Links) /\ \A u \in Links : u \in Int
    BY StageFacts
  <2>2. \A t \in Followers : t \in Int /\ t <= LastStage
    BY DEF Followers
  <2>3. \A u \in Links : Line(down[u])
    BY DEF TypeInv
  <2> QED BY <2>1, <2>2, <2>3
<1>2. f = down[s - 1][1] /\ 1 \in DOMAIN down[s - 1]
  BY <1>1, LineLess
<1>3. TAKE t \in Followers
<1>4. TAKE r
<1>5. /\ \A u \in Links : u # s - 1 /\ u # s => (Has(down'[u], r) <=> Has(down[u], r))
      /\ Has(down[s - 1], r) <=> Has(down'[s - 1], r) \/ r \in ToSet(f.rows)
  <2>1. down' = Rest(s) \/ (s # LastStage /\ down' = [Rest(s) EXCEPT ![s] = Append(@, g)])
    OBVIOUS
  <2> QED BY <2>1, HasFollowed
<1>6. s # LastStage => (Has(down'[s], r) <=> Has(down[s], r) \/ r \in ToSet(f.rows))
  <2>1. SUFFICES ASSUME s # LastStage PROVE Has(down'[s], r) <=> Has(down[s], r) \/ r \in ToSet(f.rows)
    OBVIOUS
  <2>2. down'[s] = Append(down[s], g)
    BY <2>1, HandsOn
  <2>3. Line(down[s]) /\ g.tag = "hr" /\ ToSet(g.rows) = ToSet(f.rows)
    BY <1>1, <2>1
  <2>4. Has(Append(down[s], g), r) <=> Has(down[s], r) \/ (g.tag = "hr" /\ r \in ToSet(g.rows))
    BY ONLY <2>3, HasMore
  <2> QED BY ONLY <2>2, <2>3, <2>4
<1>7. /\ Coming(t, r) <=> \E u \in Links : u < t /\ Has(down[u], r)
      /\ Coming(t, r)' <=> \E u \in Links : u < t /\ Has(down'[u], r)
  BY DEF Coming, Has
<1>8. CASE t = s /\ r \in ToSet(f.rows)
  <2>1. Coming(t, r)
    <3>1. Has(down[s - 1], r) /\ s - 1 < t
      BY <1>1, <1>5, <1>8
    <3> QED BY <1>1, <1>7, <3>1
  <2>2. ASSUME NEW u \in Links, u < t, Has(down'[u], r) PROVE FALSE
    <3>1. u # s
      BY <1>1, <1>8, <2>2
    <3>2. \E i \in DOMAIN down[u] : ~(u = s - 1 /\ i = 1) /\ down[u][i].tag = "hr" /\ r \in ToSet(down[u][i].rows)
      <4>1. CASE u = s - 1
        <5>1. down'[u] = Tail(down[u])
          BY <1>1, <4>1, HandsOn, KeepsIt
        <5> QED BY <1>1, <2>2, <4>1, <5>1, HasLess
      <4>2. CASE u # s - 1
        BY <1>5, <2>2, <3>1, <4>2 DEF Has
      <4> QED BY <4>1, <4>2
    <3>3. PICK i \in DOMAIN down[u] : ~(u = s - 1 /\ i = 1) /\ down[u][i].tag = "hr" /\ r \in ToSet(down[u][i].rows)
      BY <3>2
    <3>4. down[s - 1][1].tag = "hr" /\ r \in ToSet(down[s - 1][1].rows)
      BY <1>2, <1>8
    <3>5. TypeInv /\ WaveInv /\ ToldInv /\ NamesInv /\ mode > 0
      OBVIOUS
    <3> QED BY ONLY <1>1, <1>2, <2>2, <3>3, <3>4, <3>5, HrOnce
  <2> QED BY <1>7, <1>8, <2>1, <2>2
<1>9. CASE t = s /\ r \notin ToSet(f.rows)
  <2>1. ASSUME NEW u \in Links, u < t PROVE Has(down'[u], r) <=> Has(down[u], r)
    <3>1. u # s
      BY <1>1, <1>9, <2>1
    <3> QED BY <1>5, <1>9, <3>1
  <2> QED BY <1>7, <1>9, <2>1
<1>10. CASE t < s
  <2>1. ASSUME NEW u \in Links, u < t PROVE Has(down'[u], r) <=> Has(down[u], r)
    <3>1. u # s /\ u # s - 1
      BY <1>1, <1>10, <2>1
    <3> QED BY <1>5, <3>1
  <2> QED BY <1>1, <1>7, <1>10, <2>1
<1>11. CASE t > s
  <2>1. s # LastStage /\ s < t /\ s - 1 < t /\ s \in Links
    <3>1. s \in Int /\ t \in Int /\ t <= LastStage
      BY <1>1
    <3>2. s # LastStage /\ s < t /\ s - 1 < t
      BY ONLY <1>11, <3>1
    <3> QED BY <1>1, <3>2
  <2>2. Has(down'[s - 1], r) \/ Has(down'[s], r) <=> Has(down[s - 1], r) \/ Has(down[s], r)
    BY <1>5, <1>6, <2>1
  <2> QED BY <1>1, <1>5, <1>7, <1>11, <2>1, <2>2
<1>12. t = s \/ t < s \/ t > s
  BY <1>1
<1> QED BY <1>8, <1>9, <1>10, <1>11, <1>12

\* A forward pass books at the stage what was on its way to it, and the last stage stamps the tokens.
LEMMA HrToken ==
  ASSUME BaseInv, AgreeInv, WaveInv, ToldInv, NamesInv, CountInv, mode > 0, NEW s \in Followers, TakeHr(s)
  PROVE  NamesInv' /\ CountInv'
<1>1. PICK f : f = Head(down[s - 1])
  OBVIOUS
<1>2. HrDone(s, f)
  BY <1>1, HrEffect
<1>3. /\ down[s - 1] # <<>> /\ pc[s] = "hr" /\ Others(s) /\ UNCHANGED <<mode, rowQ>>
      /\ ToSet(rows[s]) \subseteq ToSet(eng[s].running)
  BY <1>2 DEF HrDone
<1>4. f.tag = "hr" /\ f.rows = rows[s]
  BY <1>1, <1>3, Awaits
<1>5. /\ TypeInv /\ s \in Stages /\ 0 \in Stages /\ s # 0 /\ s - 1 \in Links /\ Line(down[s - 1]) /\ EngineOK(eng[s])
      /\ rows[s] \in Seq(Requests) /\ mode # 0
  <2>1. s \in Stages /\ 0 \in Stages /\ s # 0 /\ s - 1 \in Links
    BY StageFacts
  <2>2. TypeInv /\ EngineInv
    BY DEF BaseInv
  <2>3. Line(down[s - 1]) /\ rows[s] \in Seq(Requests)
    BY <2>1, <2>2 DEF TypeInv
  <2> QED BY <2>1, <2>2, <2>3 DEF EngineInv
<1>6. f = down[s - 1][1] /\ 1 \in DOMAIN down[s - 1]
  BY <1>1, <1>3, <1>5, LineLess
<1>7. rowQ[f.wave] # <<>> /\ f.rows = rowQ[f.wave][1]
  BY <1>4, <1>5, <1>6 DEF NamesInv
<1>8. eng'[s] = Book(eng[s], rows[s], {})
  BY <1>2, <1>4, <1>5 DEF HrDone
<1>9. \A r \in Requests : eng'[s].booked[r] = IF r \in ToSet(f.rows) THEN eng[s].booked[r] + 1 ELSE eng[s].booked[r]
  BY <1>3, <1>4, <1>5, <1>8, BookFacts
<1>10. eng'[0] = eng[0] /\ \A t \in Stages : t # s => eng'[t] = eng[t]
  BY <1>3, <1>5 DEF Others
<1>11. PICK g : g = Hr(f.wave, rows[s], weights[s])
  OBVIOUS
<1>12. g.tag = "hr" /\ g.rows = f.rows /\ g.wave = f.wave
  BY <1>4, <1>11 DEF Hr
<1>13. down' = IF s = LastStage THEN Rest(s) ELSE [Rest(s) EXCEPT ![s] = Append(@, g)]
  BY <1>2, <1>4, <1>11 DEF HrDone
<1>14. CountInv'
  <2>1. ASSUME NEW t \in Followers, NEW r \in Requests PROVE CountAt(t, r)'
    <3>1. IF t = s /\ r \in ToSet(f.rows) THEN Coming(t, r) /\ ~Coming(t, r)' ELSE Coming(t, r)' <=> Coming(t, r)
      BY <1>1, <1>3, <1>4, <1>5, <1>12, <1>13, HrComing
    <3>2. CountAt(t, r) /\ t \in Stages
      BY CountIs, StageFacts
    <3>3. CASE t = s /\ r \in ToSet(f.rows)
      BY <1>9, <1>10, <3>1, <3>2, <3>3 DEF CountAt
    <3>4. CASE t = s /\ r \notin ToSet(f.rows)
      BY <1>9, <1>10, <3>1, <3>2, <3>4 DEF CountAt
    <3>5. CASE t # s
      BY <1>10, <3>1, <3>2, <3>5 DEF CountAt
    <3> QED BY <3>3, <3>4, <3>5
  <2> QED BY <2>1, CountAfter
<1>15. \E h : ring' = ring \/ (ring' = Append(ring, h) /\ rowQ[h.wave] # <<>> /\ Stamped(h.toks, rowQ[h.wave][1], 0))
  <2>1. CASE s # LastStage
    BY <1>2, <1>4, <2>1 DEF HrDone
  <2>2. CASE s = LastStage
    <3>1. PICK h : /\ ring' = Append(ring, h) /\ h.wave = f.wave /\ DOMAIN h.toks = DOMAIN f.rows
                   /\ \A i \in DOMAIN f.rows : h.toks[i].of = f.rows[i] /\ h.toks[i].nr = eng[s].booked[f.rows[i]] + 1
      BY <1>1, <1>4, <1>5, <2>2, HrToks
    <3>2. ASSUME NEW i \in DOMAIN f.rows PROVE eng[s].booked[f.rows[i]] + 1 = eng[0].booked[f.rows[i]] + 0
      <4>1. PICK r : r = f.rows[i]
        OBVIOUS
      <4>2. r \in Requests /\ r \in ToSet(f.rows)
        BY <1>4, <1>5, <3>2, <4>1 DEF ToSet
      <4>3. Has(down[s - 1], r)
        BY <1>4, <1>6, <4>2 DEF Has
      <4>4. Coming(s, r)
        <5>1. s - 1 < s
          BY StageFacts
        <5> QED BY <1>5, <4>3, <5>1, ComingIs
      <4>5. CountAt(s, r)
        BY <4>2, CountIs
      <4>6. eng[s].booked[r] \in Nat
        BY <1>5, <4>2 DEF EngineOK
      <4> QED BY <4>1, <4>4, <4>5, <4>6 DEF CountAt
    <3>3. Stamped(h.toks, f.rows, 0)
      BY <3>1, <3>2 DEF Stamped
    <3> QED BY <1>7, <3>1, <3>3
  <2> QED BY <2>1, <2>2
<1>16. NamesInv'
  <2>1. PICK h : ring' = ring \/ (ring' = Append(ring, h) /\ rowQ[h.wave] # <<>> /\ Stamped(h.toks, rowQ[h.wave][1], 0))
    BY <1>15
  <2>2. down' = Rest(s) \/ (s # LastStage /\ down' = [Rest(s) EXCEPT ![s] = Append(@, g)])
    BY <1>13
  <2>3. rowQ[g.wave] # <<>> /\ g.rows = rowQ[g.wave][1] /\ eng'[0].booked = eng[0].booked /\ UNCHANGED rowQ
    BY <1>3, <1>7, <1>10, <1>12
  <2> QED BY <1>3, <1>5, <2>1, <2>2, <2>3, NamesFollowed
<1> QED BY <1>14, <1>16

\* What the step of wave w does, that chose the rows sched.
WaveStep(w, sched) ==
  /\ mode > 0 /\ mode' = mode /\ w \in InMode /\ w # NoWave /\ ~outstanding[w]
  /\ UNCHANGED <<told, ring>> /\ sched = rows'[0] /\ sched \in Seq(Requests) /\ Others(0)
  /\ ToSet(sched) \subseteq Mine(waveOf'[0], w)
  /\ \A r \in Requests : eng'[0].booked[r] = IF r \in ToSet(sched) THEN eng[0].booked[r] + 1 ELSE eng[0].booked[r]
  /\ rowQ[w] = <<>> /\ rowQ'[w] = IF sched = <<>> THEN <<>> ELSE <<sched>>
  /\ \A v \in Waves : v # w => rowQ'[v] = rowQ[v] /\ (rowQ[v] # <<>> => ToSet(rowQ[v][1]) \cap ToSet(sched) = {})
  /\ \E f, g : /\ f.tag = "ctl" /\ g.tag = "hr" /\ g.wave = w /\ g.rows = sched
               /\ down' = [down EXCEPT ![0] = IF sched # <<>> THEN Append(Append(@, f), g) ELSE Append(@, f)]

\* What a step of a wave does to rows, books and links.
LEMMA WaveStepIs ==
  ASSUME BaseInv, ToldInv, NEW w \in Waves, StepWave(w)
  PROVE  \E sched : WaveStep(w, sched)
<1>1. PICK f : StepFrame(f) /\ f.wave = w
  BY WaveFrameIs
<1>2. PICK g : StepDone(f, g)
  BY <1>1, StepEffect
<1>3. PICK sched : sched = rows'[0]
  OBVIOUS
<1>4. /\ mode > 0 /\ mode' = mode /\ w \in InMode /\ ~outstanding[w] /\ UNCHANGED <<told, ring>>
      /\ rowQ' = [rowQ EXCEPT ![w] = Queued(w, sched)]
  BY <1>3 DEF StepWave, MayStepWave, Chosen, Eligible
<1>5. w # NoWave /\ mode # 0
  BY <1>4 DEF InMode, NoWave
<1>6. /\ sched \in Seq(Requests) /\ Others(0) /\ ToSet(sched) \subseteq Mine(waveOf'[0], w)
      /\ \A r \in Requests : eng'[0].booked[r] = IF r \in ToSet(sched) THEN eng[0].booked[r] + 1 ELSE eng[0].booked[r]
      /\ g.tag = "hr" /\ g.wave = w /\ g.rows = sched
      /\ down' = [down EXCEPT ![0] = IF sched # <<>> THEN Append(Append(@, f), g) ELSE Append(@, f)]
  BY <1>1, <1>2, <1>3, <1>5 DEF StepDone
<1>7. rowQ = [v \in Waves |-> rowQ[v]]
  BY DEF BaseInv, TypeInv
<1>8. rowQ[w] = <<>>
  BY <1>4 DEF ToldInv
<1>9. rowQ'[w] = (IF sched = <<>> THEN <<>> ELSE <<sched>>) /\ \A v \in Waves : v # w => rowQ'[v] = rowQ[v]
  <2>1. Append(<<>>, sched) = <<sched>>
    OBVIOUS
  <2> QED BY <1>4, <1>7, <1>8, <2>1 DEF Queued
<1>10. ASSUME NEW v \in Waves, v # w, rowQ[v] # <<>> PROVE ToSet(rowQ[v][1]) \cap ToSet(sched) = {}
  <2>1. CASE sched = <<>>
    BY <2>1, EmptyFacts
  <2>2. CASE sched # <<>>
    <3>1. ToldInv' /\ mode' > 0
      BY <1>4, ToldStepped
    <3>2. rowQ'[w] # <<>> /\ rowQ'[w][1] = sched /\ rowQ'[v] = rowQ[v]
      <4>1. <<sched>> # <<>> /\ <<sched>>[1] = sched
        OBVIOUS
      <4> QED BY <1>9, <1>10, <2>2, <4>1
    <3>3. \A r \in ToSet(rowQ'[v][1]) : r \notin ToSet(rowQ'[w][1])
      BY <1>10, <3>1, <3>2 DEF ToldInv
    <3> QED BY <3>2, <3>3
  <2> QED BY <2>1, <2>2
<1>11. f.tag = "ctl"
  BY <1>1 DEF StepFrame
<1>12. WaveStep(w, sched)
  BY <1>3, <1>4, <1>5, <1>6, <1>8, <1>9, <1>10, <1>11 DEF WaveStep
<1> QED BY <1>12

\* Stage 0 sends the names it queues.
LEMMA NamesStepped ==
  ASSUME TypeInv, WaveInv, ToldInv, NamesInv, NEW w \in Waves, NEW sched, WaveStep(w, sched)
  PROVE  NamesInv'
<1>1. /\ mode > 0 /\ ~outstanding[w] /\ UNCHANGED ring /\ sched \in Seq(Requests)
      /\ \A r \in Requests : eng'[0].booked[r] = IF r \in ToSet(sched) THEN eng[0].booked[r] + 1 ELSE eng[0].booked[r]
      /\ rowQ'[w] = IF sched = <<>> THEN <<>> ELSE <<sched>>
      /\ \A v \in Waves : v # w => rowQ'[v] = rowQ[v] /\ (rowQ[v] # <<>> => ToSet(rowQ[v][1]) \cap ToSet(sched) = {})
  BY DEF WaveStep
<1>2. PICK f, g : /\ f.tag = "ctl" /\ g.tag = "hr" /\ g.wave = w /\ g.rows = sched
                  /\ down' = [down EXCEPT ![0] = IF sched # <<>> THEN Append(Append(@, f), g) ELSE Append(@, f)]
  BY DEF WaveStep
<1>3. (\A u \in Links : \A i \in DOMAIN down[u] : NamedAt(u, i)) /\ \A j \in DOMAIN ring : ReadAt(j)
  BY <1>1, NamesAre
<1>4. InMode \subseteq Waves /\ \A u \in Links : u \in Stages /\ Link(u) = down[u]
  BY StageFacts DEF TypeInv, InMode, Waves, Link
<1>5. LastStage \in Stages /\ Link(LastStage) = ring /\ \A j \in DOMAIN ring : ring[j].tag = "tok"
  BY StageFacts DEF TypeInv, Link
<1>6. \/ sched = <<>> /\ down' = [down EXCEPT ![0] = Append(@, f)]
      \/ sched # <<>> /\ down' = [down EXCEPT ![0] = Append(Append(@, f), g)]
  BY <1>2
<1>7. ASSUME NEW u \in Links, NEW i \in DOMAIN down'[u] PROVE NamedAt(u, i)'
  <2>1. \/ i \in DOMAIN down[u] /\ down'[u][i] = down[u][i]
        \/ down'[u][i] = f
        \/ down'[u][i] = g /\ sched # <<>>
    <3>1. CASE sched = <<>>
      <4>1. down' = [down EXCEPT ![0] = Append(@, f)]
        BY <1>6, <3>1
      <4> QED BY <1>7, <4>1, OneMore
    <3>2. CASE sched # <<>>
      <4>1. down' = [down EXCEPT ![0] = Append(Append(@, f), g)]
        BY <1>6, <3>2
      <4>2. \A x \in Links : \A n \in DOMAIN down'[x] :
              \/ n \in DOMAIN down[x] /\ down'[x][n] = down[x][n]
              \/ down'[x][n] = f
              \/ down'[x][n] = g
        BY <4>1, FirstLinks
      <4> QED BY <1>7, <3>2, <4>2
    <3> QED BY <3>1, <3>2
  <2>2. ASSUME i \in DOMAIN down[u], down'[u][i] = down[u][i], down[u][i].tag = "hr" PROVE NamedAt(u, i)'
    <3>1. PICK v : v = down[u][i].wave
      OBVIOUS
    <3>2. v \in InMode /\ outstanding[v]
      BY <1>1, <1>4, <2>2, <3>1 DEF WaveInv
    <3>3. rowQ'[v] = rowQ[v]
      BY <1>1, <1>4, <3>2
    <3>4. rowQ[v] # <<>> /\ down[u][i].rows = rowQ[v][1]
      BY <1>3, <2>2, <3>1 DEF NamedAt
    <3> QED BY <2>2, <3>1, <3>3, <3>4 DEF NamedAt
  <2>3. ASSUME down'[u][i] = g, sched # <<>> PROVE NamedAt(u, i)'
    <3>1. rowQ'[w] # <<>> /\ rowQ'[w][1] = sched
      <4>1. <<sched>> # <<>> /\ <<sched>>[1] = sched
        OBVIOUS
      <4> QED BY <1>1, <2>3, <4>1
    <3> QED BY <1>2, <2>3, <3>1 DEF NamedAt
  <2>4. CASE down'[u][i].tag # "hr"
    BY <2>4 DEF NamedAt
  <2> QED BY <1>2, <2>1, <2>2, <2>3, <2>4
<1>8. ASSUME NEW j \in DOMAIN ring' PROVE ReadAt(j)'
  <2>1. PICK h, v : h = ring[j] /\ v = h.wave
    OBVIOUS
  <2>2. v \in InMode /\ outstanding[v]
    BY <1>1, <1>5, <1>8, <2>1 DEF WaveInv
  <2>3. rowQ'[v] = rowQ[v] /\ (rowQ[v] # <<>> => ToSet(rowQ[v][1]) \cap ToSet(sched) = {})
    BY <1>1, <1>4, <2>2
  <2>4. PICK names : names = rowQ[v][1]
    OBVIOUS
  <2>5. rowQ[v] # <<>> /\ Stamped(h.toks, names, 0)
    BY <1>1, <1>3, <1>8, <2>1, <2>4 DEF ReadAt
  <2>6. \A i \in DOMAIN names : eng'[0].booked[names[i]] = eng[0].booked[names[i]]
    <3>1. TAKE i \in DOMAIN names
    <3>2. names[i] \in ToSet(names)
      BY DEF ToSet
    <3>3. names[i] \notin ToSet(sched)
      BY <2>3, <2>4, <2>5, <3>2
    <3>4. names[i] \in Requests
      BY <1>1, <2>2, <1>4, <2>4, <2>5, <3>2 DEF ToldInv
    <3> QED BY <1>1, <3>3, <3>4
  <2>7. Stamped(h.toks, names, 0)'
    BY <2>5, <2>6 DEF Stamped
  <2>8. ring'[j] = h /\ rowQ'[v] # <<>> /\ rowQ'[v][1] = names
    BY <1>1, <2>1, <2>3, <2>4, <2>5
  <2> QED BY <2>1, <2>7, <2>8 DEF ReadAt, Stamped
<1> QED BY <1>7, <1>8, NamesAfter

\* And each stage is to book it.
LEMMA CountStepped ==
  ASSUME TypeInv, WaveInv, NamesInv, CountInv, NEW w \in Waves, NEW sched, WaveStep(w, sched)
  PROVE  CountInv'
<1>1. /\ mode > 0 /\ ~outstanding[w] /\ sched \in Seq(Requests) /\ Others(0)
      /\ \A r \in Requests : eng'[0].booked[r] = IF r \in ToSet(sched) THEN eng[0].booked[r] + 1 ELSE eng[0].booked[r]
      /\ \A v \in Waves : v # w => (rowQ[v] # <<>> => ToSet(rowQ[v][1]) \cap ToSet(sched) = {})
  BY DEF WaveStep
<1>2. PICK f, g : /\ f.tag = "ctl" /\ g.tag = "hr" /\ g.rows = sched
                  /\ down' = [down EXCEPT ![0] = IF sched # <<>> THEN Append(Append(@, f), g) ELSE Append(@, f)]
  BY DEF WaveStep
<1>3. InMode \subseteq Waves /\ \A u \in Links : u \in Stages /\ Link(u) = down[u] /\ Line(down[u])
  BY StageFacts DEF TypeInv, InMode, Waves, Link
<1>4. 0 \in Links /\ down = [u \in Links |-> down[u]] /\ \A t \in Followers : 0 < t
  BY StageFacts DEF TypeInv, Followers
<1>5. ASSUME NEW r PROVE Has(down'[0], r) <=> Has(down[0], r) \/ r \in ToSet(sched)
  <2>1. Line(Append(down[0], f)) /\ (Has(Append(down[0], f), r) <=> Has(down[0], r))
    BY <1>2, <1>3, <1>4, HasMore, LineMore
  <2>2. CASE sched = <<>>
    <3>1. down'[0] = Append(down[0], f) /\ r \notin ToSet(sched)
      BY <1>2, <1>4, <2>2, EmptyFacts
    <3> QED BY <2>1, <3>1
  <2>3. CASE sched # <<>>
    <3>1. down'[0] = Append(Append(down[0], f), g)
      BY <1>2, <1>4, <2>3
    <3>2. Has(Append(Append(down[0], f), g), r) <=> Has(Append(down[0], f), r) \/ r \in ToSet(sched)
      BY <1>2, <2>1, HasMore
    <3> QED BY <2>1, <3>1, <3>2
  <2> QED BY <2>2, <2>3
<1>6. \A u \in Links : u # 0 => down'[u] = down[u]
  BY <1>2, <1>4
<1>7. ASSUME NEW u \in Links, NEW r, Has(down[u], r) PROVE r \notin ToSet(sched)
  <2>1. PICK i \in DOMAIN down[u] : down[u][i].tag = "hr" /\ r \in ToSet(down[u][i].rows)
    BY <1>7 DEF Has
  <2>2. PICK v : v = down[u][i].wave
    OBVIOUS
  <2>3. v \in InMode /\ outstanding[v]
    BY <1>1, <1>3, <2>1, <2>2 DEF WaveInv
  <2>4. rowQ[v] # <<>> /\ down[u][i].rows = rowQ[v][1]
    BY <1>1, <2>1, <2>2 DEF NamesInv
  <2> QED BY <1>1, <1>3, <2>1, <2>3, <2>4
<1>8. ASSUME NEW t \in Followers, NEW r \in Requests PROVE CountAt(t, r)'
  <2>1. Coming(t, r) <=> \E u \in Links : u < t /\ Has(down[u], r)
    BY ComingIs
  <2>2. Coming(t, r)' <=> \E u \in Links : u < t /\ Has(down'[u], r)
    BY DEF Coming, Has
  <2>3. CountAt(t, r)
    BY <1>1, CountIs
  <2>4. eng'[t] = eng[t]
    BY <1>1, StageFacts DEF Others
  <2>5. CASE r \in ToSet(sched)
    <3>1. ~Coming(t, r) /\ Coming(t, r)'
      BY <1>4, <1>5, <1>7, <2>1, <2>2, <2>5
    <3> QED BY <1>1, <2>3, <2>4, <2>5, <3>1 DEF CountAt
  <2>6. CASE r \notin ToSet(sched)
    <3>1. Coming(t, r)' <=> Coming(t, r)
      BY <1>5, <1>6, <2>1, <2>2, <2>6
    <3> QED BY <1>1, <2>3, <2>4, <2>6, <3>1 DEF CountAt
  <2> QED BY <2>5, <2>6
<1> QED BY <1>8, CountAfter

\* The tokens taken off the ring are the last of their wave.
LEMMA AbsorbToken ==
  ASSUME BaseInv, WaveInv, ToldInv, NamesInv, CountInv, NEW w \in Waves, AbsorbDone(w)
  PROVE  NamesInv' /\ CountInv'
<1>1. /\ mode > 0 /\ First(w) \in DOMAIN ring /\ ring[First(w)].wave = w
      /\ ring' = RemoveAt(ring, First(w)) /\ UNCHANGED <<mode, down, eng>>
      /\ rowQ' = rowQ \/ rowQ' = [rowQ EXCEPT ![w] = Tail(@)]
  BY DEF AbsorbDone
<1>2. /\ TypeInv /\ Line(ring) /\ (\A i \in DOMAIN ring : ring[i].tag = "tok") /\ rowQ = [v \in Waves |-> rowQ[v]]
  BY DEF BaseInv, TypeInv
<1>3. PICK k : k = First(w)
  OBVIOUS
<1>4. /\ Len(ring) \in Nat /\ DOMAIN ring = 1..Len(ring) /\ k \in 1..Len(ring)
      /\ DOMAIN ring' = 1..(Len(ring) - 1)
      /\ \A i \in 1..(Len(ring) - 1) : ring'[i] = IF i < k THEN ring[i] ELSE ring[i + 1]
  BY <1>1, <1>2, <1>3, LineFacts, LineWithout
<1>5. InMode \subseteq Waves /\ \A u \in Links : u \in Stages /\ u # LastStage /\ Link(u) = down[u]
  BY <1>2, StageFacts DEF TypeInv, InMode, Waves, Link
<1>6. LastStage \in Stages /\ Link(LastStage) = ring
  BY StageFacts DEF Link
<1>7. \A t \in Stages : \A j \in DOMAIN Link(t) : Carries(t, j, w) => t = LastStage /\ j = k
  <2>1. Link(LastStage)[k].tag # "ctl" /\ Link(LastStage)[k].wave = w /\ k \in DOMAIN Link(LastStage)
    BY <1>1, <1>2, <1>3, <1>6
  <2> QED BY <1>1, <1>6, <2>1 DEF WaveInv
<1>8. \A v \in Waves : v # w => rowQ'[v] = rowQ[v]
  BY <1>1, <1>2
<1>9. (\A u \in Links : \A i \in DOMAIN down[u] : NamedAt(u, i)) /\ \A j \in DOMAIN ring : ReadAt(j)
  BY <1>1, NamesAre
<1>10. ASSUME NEW u \in Links, NEW i \in DOMAIN down'[u] PROVE NamedAt(u, i)'
  <2>1. down'[u] = down[u]
    BY <1>1
  <2>2. CASE down[u][i].tag # "hr"
    BY <2>1, <2>2 DEF NamedAt
  <2>3. CASE down[u][i].tag = "hr"
    <3>1. PICK v : v = down[u][i].wave
      OBVIOUS
    <3>2. v # w
      <4>1. i \in DOMAIN Link(u) /\ Link(u)[i].tag # "ctl" /\ Link(u)[i].wave = v
        BY <1>5, <1>10, <2>1, <2>3, <3>1
      <4>2. v = w => Carries(u, i, w)
        BY <4>1 DEF Carries
      <4> QED BY <1>5, <1>7, <4>1, <4>2
    <3>3. v \in Waves
      <4>1. i \in DOMAIN Link(u) /\ Link(u)[i].tag # "ctl" /\ Link(u)[i].wave = v
        BY <1>5, <1>10, <2>1, <2>3, <3>1
      <4> QED BY <1>1, <1>5, <4>1 DEF WaveInv
    <3>4. rowQ[v] # <<>> /\ down[u][i].rows = rowQ[v][1]
      BY <1>9, <1>10, <2>1, <2>3, <3>1 DEF NamedAt
    <3> QED BY <1>8, <2>1, <3>1, <3>2, <3>3, <3>4 DEF NamedAt
  <2> QED BY <2>2, <2>3
<1>11. ASSUME NEW j \in DOMAIN ring' PROVE ReadAt(j)'
  <2>1. PICK n \in 1..Len(ring) : n # k /\ ring'[j] = ring[n]
    <3>1. j \in 1..(Len(ring) - 1) /\ ring'[j] = IF j < k THEN ring[j] ELSE ring[j + 1]
      BY <1>4, <1>11
    <3>2. CASE j < k
      BY <1>4, <3>1, <3>2
    <3>3. CASE ~(j < k)
      <4>1. j + 1 \in 1..Len(ring) /\ j + 1 # k
        BY <1>4, <3>1, <3>3
      <4> QED BY <3>1, <3>3, <4>1
    <3> QED BY <3>2, <3>3
  <2>2. PICK h, v : h = ring[n] /\ v = h.wave
    OBVIOUS
  <2>3. n \in DOMAIN Link(LastStage) /\ Link(LastStage)[n] = h /\ h.tag # "ctl"
    BY <1>2, <1>4, <1>6, <2>2
  <2>4. v # w
    <3>1. v = w => Carries(LastStage, n, w)
      BY <2>2, <2>3 DEF Carries
    <3> QED BY <1>6, <1>7, <2>1, <2>3, <3>1
  <2>5. v \in Waves
    BY <1>1, <1>5, <1>6, <2>2, <2>3 DEF WaveInv
  <2>6. rowQ[v] # <<>> /\ Stamped(h.toks, rowQ[v][1], 0)
    BY <1>4, <1>9, <2>2 DEF ReadAt
  <2>7. rowQ'[v] = rowQ[v] /\ eng' = eng /\ ring'[j] = h
    BY <1>1, <1>8, <2>1, <2>2, <2>4, <2>5
  <2> QED BY ONLY <2>2, <2>6, <2>7, SMTT(30) DEF ReadAt, Stamped
<1>12. NamesInv'
  BY <1>10, <1>11, NamesAfter
<1>13. CountInv'
  BY <1>1 DEF CountInv, Coming
<1> QED BY <1>12, <1>13

\* An idle frame brings no step.
LEMMA IdleToken ==
  ASSUME BaseInv, NamesInv, CountInv, mode > 0, NEW f, IdleDone(f)
  PROVE  NamesInv' /\ CountInv'
<1>1. /\ Others(0) /\ UNCHANGED <<mode, ring, rowQ>> /\ f.tag = "ctl"
      /\ down' = [down EXCEPT ![0] = Append(@, f)] /\ eng'[0].booked = eng[0].booked
  BY DEF IdleDone
<1>2. /\ TypeInv /\ 0 \in Links /\ down = [u \in Links |-> down[u]] /\ Line(down[0])
  BY StageFacts DEF BaseInv, TypeInv
<1>3. \A u \in Links : \A i \in DOMAIN down'[u] : (i \in DOMAIN down[u] /\ down'[u][i] = down[u][i]) \/ down'[u][i] = f
  BY <1>1, <1>2, OneMore
<1>4. (\A u \in Links : \A i \in DOMAIN down[u] : NamedAt(u, i)) /\ \A j \in DOMAIN ring : ReadAt(j)
  BY NamesAre
<1>5. NamesInv'
  <2>1. ASSUME NEW u \in Links, NEW i \in DOMAIN down'[u] PROVE NamedAt(u, i)'
    <3>1. CASE i \in DOMAIN down[u] /\ down'[u][i] = down[u][i]
      BY <1>1, <1>4, <3>1 DEF NamedAt
    <3>2. CASE down'[u][i] = f
      BY <1>1, <3>2 DEF NamedAt
    <3> QED BY <1>3, <2>1, <3>1, <3>2
  <2>2. ASSUME NEW j \in DOMAIN ring' PROVE ReadAt(j)'
    <3>1. ReadAt(j)
      BY <1>1, <1>4, <2>2
    <3> QED BY <1>1, <3>1 DEF ReadAt, Stamped
  <2> QED BY <2>1, <2>2, NamesAfter
<1>6. \A t \in Stages : eng'[t].booked = eng[t].booked
  BY <1>1 DEF Others
<1>7. ASSUME NEW t \in Followers, NEW r PROVE Coming(t, r)' <=> Coming(t, r)
  <2>1. Has(down'[0], r) <=> Has(down[0], r)
    BY <1>1, <1>2, HasMore
  <2>2. \A u \in Links : Has(down'[u], r) <=> Has(down[u], r)
    BY <1>1, <1>2, <2>1
  <2>3. Coming(t, r) <=> \E u \in Links : u < t /\ Has(down[u], r)
    BY ComingIs
  <2>4. Coming(t, r)' <=> \E u \in Links : u < t /\ Has(down'[u], r)
    BY DEF Coming, Has
  <2> QED BY <2>2, <2>3, <2>4
<1>8. CountInv'
  BY <1>6, <1>7, CountSame
<1> QED BY <1>5, <1>8

-----------------------------------------------------------------------------
(* In waves: the books of stage 0. *)

Booking(w, r) == eng[0].booked[r] = IF InRow(w, r) THEN Len(told[r]) + 1 ELSE Len(told[r])
LiveAt(w, r) ==
  r \in live[w] =>
    /\ ~Awaited(r) /\ waveOf[0][r] \in {w, NoWave} /\ \A v \in Waves \ {w} : r \notin live[v]
    /\ Booking(w, r)
MapAt(w, r) == waveOf[0][r] = w => r \in live[w] \/ r \in ToSet(byWave[w])
BooksTyped == live \in [Waves -> SUBSET Requests] /\ byWave \in [Waves -> Seq(Requests)] /\ aborts \in Seq(Requests)

LEMMA WaveIsNumber == \A w \in Waves : w \in Nat /\ w # NoWave
<1>1. TAKE w \in Waves
<1>2. PICK m \in Modes : w \in 0..(m - 1)
  BY DEF Waves
<1>3. m \in Nat
  BY SpliceAssumption
<1> QED BY <1>2, <1>3 DEF NoWave

LEMMA BooksAre ==
  ASSUME BooksInv, mode > 0
  PROVE  BooksTyped /\ \A w \in Waves : \A r \in Requests : LiveAt(w, r) /\ MapAt(w, r)
<1>1. BooksTyped
  BY DEF BooksInv, BooksTyped
<1>2. \A w \in Waves : \A r \in Requests : LiveAt(w, r)
  BY DEF BooksInv, LiveAt, Booking
<1>3. \A w \in Waves : \A r \in Requests : MapAt(w, r)
  BY DEF BooksInv, MapAt
<1> QED BY <1>1, <1>2, <1>3

LEMMA BooksAfter ==
  ASSUME BooksTyped', \A w \in Waves : \A r \in Requests : LiveAt(w, r)' /\ MapAt(w, r)'
  PROVE  BooksInv'
<1>1. ASSUME NEW w \in Waves, NEW r \in live'[w]
      PROVE  /\ ~Awaited(r)' /\ waveOf'[0][r] \in {w, NoWave} /\ \A v \in Waves \ {w} : r \notin live'[v]
             /\ eng'[0].booked[r] = IF InRow(w, r)' THEN Len(told'[r]) + 1 ELSE Len(told'[r])
  <2>1. r \in Requests
    BY <1>1 DEF BooksTyped
  <2> QED BY <1>1, <2>1 DEF LiveAt, Booking
<1>2. \A w \in Waves : \A r \in Requests : waveOf'[0][r] = w => r \in live'[w] \/ r \in ToSet(byWave'[w])
  BY DEF MapAt
<1> QED BY <1>1, <1>2 DEF BooksInv, BooksTyped

\* Nothing is booked or told; maps are undone, and stops are put down.
LEMMA BooksSame ==
  ASSUME TypeInv, BooksInv, mode > 0, UNCHANGED <<live, rowQ, told>>, eng'[0].booked = eng[0].booked,
         \A r \in Requests : (Awaited(r)' => Awaited(r)) /\ waveOf'[0][r] \in {waveOf[0][r], NoWave},
         byWave' \in [Waves -> Seq(Requests)], \A w \in Waves : ToSet(byWave[w]) \subseteq ToSet(byWave'[w]),
         aborts' \in Seq(Requests)
  PROVE  BooksInv'
<1>1. BooksTyped /\ \A w \in Waves : \A r \in Requests : LiveAt(w, r) /\ MapAt(w, r)
  BY BooksAre
<1>2. ASSUME NEW w \in Waves, NEW r \in Requests PROVE LiveAt(w, r)' /\ MapAt(w, r)'
  <2>1. (Awaited(r)' => Awaited(r)) /\ waveOf'[0][r] \in {waveOf[0][r], NoWave} /\ LiveAt(w, r) /\ MapAt(w, r)
    BY <1>1
  <2>2. LiveAt(w, r)'
    <3>1. Booking(w, r) => Booking(w, r)'
      BY DEF Booking, InRow
    <3> QED BY <2>1, <3>1 DEF LiveAt
  <2>3. w # NoWave /\ ToSet(byWave[w]) \subseteq ToSet(byWave'[w])
    BY WaveIsNumber
  <2>4. MapAt(w, r)'
    BY <2>1, <2>3 DEF MapAt
  <2> QED BY <2>2, <2>4
<1>3. BooksTyped'
  BY <1>1 DEF BooksTyped
<1> QED BY <1>2, <1>3, BooksAfter

\* The followers keep the books of stage 0.
LEMMA BooksFollowed ==
  ASSUME TypeInv, BooksInv, mode > 0, NEW s \in Followers, TakeCtl(s) \/ TakeHr(s) \/ TakeTok(s), Others(s)
  PROVE  BooksInv'
<1>1. UNCHANGED <<client, inbox, aborts, live, byWave, rowQ, told>>
  BY DEF TakeCtl, TakeHr, TakeTok, waves
<1>2. eng'[0] = eng[0] /\ waveOf'[0] = waveOf[0]
  BY StageFacts DEF Others
<1>3. \A r \in Requests : (Awaited(r)' => Awaited(r)) /\ waveOf'[0][r] \in {waveOf[0][r], NoWave}
  BY <1>1, <1>2 DEF Awaited
<1>4. byWave' \in [Waves -> Seq(Requests)] /\ aborts' \in Seq(Requests)
  BY <1>1 DEF BooksInv
<1> QED BY <1>1, <1>2, <1>3, <1>4, BooksSame

\* An idle frame only forgets requests.
LEMMA BooksIdle ==
  ASSUME TypeInv, BooksInv, mode > 0, Heartbeat, NEW f, IdleDone(f)
  PROVE  BooksInv'
<1>1. UNCHANGED <<client, inbox, live, byWave, rowQ, told>> /\ aborts' = <<>>
  BY DEF Heartbeat, waves
<1>2. eng'[0].booked = eng[0].booked /\ \A r \in Requests : waveOf'[0][r] \in {waveOf[0][r], NoWave}
  BY DEF IdleDone
<1>3. \A r \in Requests : (Awaited(r)' => Awaited(r)) /\ waveOf'[0][r] \in {waveOf[0][r], NoWave}
  BY <1>1, <1>2 DEF Awaited
<1>4. byWave' \in [Waves -> Seq(Requests)] /\ aborts' \in Seq(Requests)
  BY <1>1, EmptyFacts DEF BooksInv
<1> QED BY <1>1, <1>2, <1>3, <1>4, BooksSame

\* The HTTP thread, and stage 0 between its steps.
LEMMA BooksAside ==
  ASSUME BaseInv, BooksInv, mode > 0, Aside
  PROVE  BooksInv'
<1>1. UNCHANGED <<eng, waveOf, told, rowQ>>
  BY AsideQuiet DEF Quiet
<1>2. /\ TypeInv /\ inbox \in Seq(Requests) /\ IsInjective(inbox) /\ aborts \in Seq(Requests) /\ byWave \in [Waves -> Seq(Requests)]
      /\ client \in [Requests -> {"new", "open", "gone", "done"}]
  BY DEF BaseInv, TypeInv, ArrivalInv, BooksInv
<1>3. \A r \in Requests : waveOf'[0][r] \in {waveOf[0][r], NoWave} /\ eng'[0].booked = eng[0].booked
  BY <1>1
<1>4. ASSUME NEW r \in Requests, Submit(r) PROVE BooksInv'
  <2>1. /\ UNCHANGED <<live, byWave, aborts>> /\ client[r] = "new"
        /\ client' = [client EXCEPT ![r] = "open"] /\ inbox' = Append(inbox, r)
    BY <1>4 DEF Submit, waves
  <2>2. ToSet(inbox') = ToSet(inbox) \cup {r}
    BY <1>2, <2>1, SeqIsLine, LineMore
  <2>3. \A x \in Requests : Awaited(x)' => Awaited(x)
    BY <1>2, <2>1, <2>2 DEF Awaited
  <2>4. aborts' \in Seq(Requests) /\ byWave' \in [Waves -> Seq(Requests)] /\ \A w \in Waves : ToSet(byWave[w]) \subseteq ToSet(byWave'[w])
    BY <1>2, <2>1
  <2> QED BY <1>1, <1>2, <1>3, <2>1, <2>3, <2>4, BooksSame
<1>5. ASSUME NEW r \in Requests, ClientGone(r) PROVE BooksInv'
  <2>1. UNCHANGED <<live, byWave, inbox>> /\ client' = [client EXCEPT ![r] = "gone"] /\ aborts' = Append(aborts, r)
    BY <1>5 DEF ClientGone, waves
  <2>2. \A x \in Requests : Awaited(x)' => Awaited(x)
    BY <1>2, <2>1 DEF Awaited
  <2>3. aborts' \in Seq(Requests) /\ byWave' \in [Waves -> Seq(Requests)] /\ \A w \in Waves : ToSet(byWave[w]) \subseteq ToSet(byWave'[w])
    BY <1>2, <2>1
  <2> QED BY <1>1, <1>2, <1>3, <2>1, <2>2, <2>3, BooksSame
<1>6. CASE Route
  <2>1. /\ UNCHANGED <<live, client, inbox>> /\ aborts' = <<>>
        /\ byWave' = [w \in Waves |-> byWave[w] \o Keep(aborts, {r \in Requests : waveOf[0][r] = w})]
    BY <1>6 DEF Route
  <2>2. \A x \in Requests : Awaited(x)' => Awaited(x)
    BY <2>1 DEF Awaited
  <2>3. ASSUME NEW w \in Waves PROVE byWave'[w] \in Seq(Requests) /\ ToSet(byWave[w]) \subseteq ToSet(byWave'[w])
    <3>1. PICK k : k = Keep(aborts, {r \in Requests : waveOf[0][r] = w})
      OBVIOUS
    <3>2. k \in Seq(Requests) /\ byWave[w] \in Seq(Requests) /\ byWave'[w] = byWave[w] \o k
      BY <1>2, <2>1, <3>1, KeepFacts
    <3> QED BY <3>2, ConcatFacts
  <2>4. byWave' \in [Waves -> Seq(Requests)]
    BY <2>1, <2>3
  <2>5. aborts' \in Seq(Requests)
    BY <2>1, EmptyFacts
  <2> QED BY <1>1, <1>2, <1>3, <2>1, <2>2, <2>3, <2>4, <2>5, BooksSame
<1>7. CASE Requeue
  <2>1. UNCHANGED <<live, byWave, aborts, client>> /\ inbox' = Append(Tail(inbox), Head(inbox)) /\ Len(inbox) > 1
    BY <1>7 DEF Requeue, waves
  <2>2. ToSet(inbox') = ToSet(inbox)
    <3>1. inbox # <<>>
      BY <1>2, <2>1
    <3> QED BY <1>2, <2>1, <3>1, Turned
  <2>3. \A x \in Requests : Awaited(x)' => Awaited(x)
    BY <2>1, <2>2 DEF Awaited
  <2>4. aborts' \in Seq(Requests) /\ byWave' \in [Waves -> Seq(Requests)] /\ \A w \in Waves : ToSet(byWave[w]) \subseteq ToSet(byWave'[w])
    BY <1>2, <2>1
  <2> QED BY <1>1, <1>2, <1>3, <2>1, <2>3, <2>4, BooksSame
<1>8. CASE AskReload \/ UNCHANGED vars
  <2>1. UNCHANGED <<live, byWave, aborts, client, inbox>>
    BY <1>8 DEF AskReload, vars, waves
  <2>2. \A x \in Requests : Awaited(x)' => Awaited(x)
    BY <2>1 DEF Awaited
  <2>3. aborts' \in Seq(Requests) /\ byWave' \in [Waves -> Seq(Requests)] /\ \A w \in Waves : ToSet(byWave[w]) \subseteq ToSet(byWave'[w])
    BY <1>2, <2>1
  <2> QED BY <1>1, <1>2, <1>3, <2>1, <2>2, <2>3, BooksSame
<1> QED BY <1>4, <1>5, <1>6, <1>7, <1>8 DEF Aside

\* Who joins is live and has nothing booked; who is stepped has been told all.
LEMMA BooksStepped ==
  ASSUME BaseInv, ToldInv, BooksInv, NEW w \in Waves, StepWave(w), NEW sched, WaveStep(w, sched)
  PROVE  BooksInv' /\ \A r \in ToSet(sched) : Len(told[r]) = eng[0].booked[r]
<1>1. PICK f : StepFrame(f) /\ f.wave = w /\ f.admits = Joining(w) /\ f.aborts = byWave[w]
  BY WaveFrameIs
<1>2. PICK g : StepDone(f, g)
  BY <1>1, StepEffect
<1>3. PICK A, B : A = ToSet(Joining(w)) /\ B = ToSet(byWave[w])
  OBVIOUS
<1>4. /\ UNCHANGED <<client, aborts, told>> /\ byWave' = [byWave EXCEPT ![w] = <<>>]
      /\ live' = [live EXCEPT ![w] = @ \cup A]
      /\ inbox' = (IF Joining(w) = <<>> THEN inbox ELSE <<>>)
  BY <1>3 DEF StepWave, TakenFrom
<1>5. /\ mode > 0 /\ w # NoWave /\ sched \in Seq(Requests) /\ ToSet(sched) \subseteq Mine(waveOf'[0], w)
      /\ \A r \in Requests : eng'[0].booked[r] = IF r \in ToSet(sched) THEN eng[0].booked[r] + 1 ELSE eng[0].booked[r]
      /\ rowQ[w] = <<>> /\ rowQ'[w] = (IF sched = <<>> THEN <<>> ELSE <<sched>>)
      /\ \A v \in Waves : v # w => rowQ'[v] = rowQ[v]
  BY DEF WaveStep
<1>6. BooksTyped /\ \A v \in Waves : \A r \in Requests : LiveAt(v, r) /\ MapAt(v, r)
  BY <1>5, BooksAre
<1>7. /\ TypeInv /\ ArrivalInv /\ EngineOK(eng[0])
      /\ \A r \in Requests : Line(told[r])
  <2>1. TypeInv /\ ArrivalInv /\ EngineOK(eng[0])
    BY StageFacts DEF BaseInv, EngineInv
  <2> QED BY <2>1 DEF TypeInv
<1>8. \A r \in Requests : Len(told[r]) \in Nat /\ eng[0].booked[r] \in Nat /\ Len(told[r]) <= eng[0].booked[r]
  <2>1. \A r \in Requests : Len(told[r]) <= eng[0].booked[r]
    BY <1>5 DEF ToldInv
  <2>2. \A r \in Requests : eng[0].booked[r] \in Nat
    BY <1>7 DEF EngineOK
  <2> QED BY <1>7, <2>1, <2>2, LineFacts
<1>9. ASSUME NEW r \in Requests PROVE Awaited(r)' => Awaited(r) /\ r \notin A
  <2>1. ASSUME client[r] = "new" PROVE Awaited(r) /\ r \notin ToSet(inbox)
    BY <1>7, <2>1 DEF ArrivalInv, Awaited
  <2>2. A \subseteq ToSet(inbox) /\ (Joining(w) = <<>> => A = {}) /\ (inbox' = <<>> => ToSet(inbox') = {})
    BY <1>3, JoiningIs, EmptyFacts
  <2> QED BY <1>4, <2>1, <2>2 DEF Awaited
<1>10. ASSUME NEW r \in Requests, r \in A
       PROVE  Awaited(r) /\ eng[0].booked[r] = 0 /\ Len(told[r]) = 0 /\ \A v \in Waves : r \notin live[v]
  <2>1. r \in ToSet(inbox) /\ Unseen(0, r)
    BY <1>1, <1>3, <1>10 DEF StepFrame
  <2>2. Awaited(r) /\ eng[0].booked[r] = 0
    BY <2>1 DEF Awaited, Unseen
  <2>3. \A v \in Waves : r \notin live[v]
    BY <1>6, <2>2 DEF LiveAt
  <2> QED BY <1>8, <2>2, <2>3
<1>11. \A r \in Requests : waveOf'[0][r] = IF r \in A THEN w ELSE IF r \in B THEN NoWave ELSE waveOf[0][r]
  <2>1. waveOf'[0] = Mapped(waveOf[0], f)
    BY <1>2 DEF StepDone
  <2> QED BY <1>1, <1>3, <2>1 DEF Mapped
<1>12. \A r \in ToSet(sched) : r \in Requests /\ waveOf'[0][r] = w
  BY <1>5 DEF Mine
<1>13. /\ live'[w] = live[w] \cup A /\ \A v \in Waves : v # w => live'[v] = live[v]
       /\ byWave'[w] = <<>> /\ \A v \in Waves : v # w => byWave'[v] = byWave[v]
  BY <1>4, <1>6 DEF BooksTyped
<1>14. ASSUME NEW r PROVE InRow(w, r)' <=> r \in ToSet(sched)
  <2>1. CASE sched = <<>>
    BY <1>5, <2>1, EmptyFacts DEF InRow
  <2>2. CASE sched # <<>>
    <3>1. <<sched>> # <<>> /\ <<sched>>[1] = sched
      OBVIOUS
    <3>2. rowQ'[w] # <<>> /\ rowQ'[w][1] = sched
      BY <1>5, <2>2, <3>1
    <3> QED BY <3>2 DEF InRow
  <2> QED BY <2>1, <2>2
<1>15. ASSUME NEW v \in Waves, v # w, NEW r PROVE InRow(v, r)' <=> InRow(v, r)
  BY <1>5, <1>15 DEF InRow
<1>16. ASSUME NEW r \in Requests, r \in live[w] PROVE eng[0].booked[r] = Len(told[r])
  <2>1. ~InRow(w, r)
    BY <1>5 DEF InRow
  <2> QED BY <1>6, <1>16, <2>1 DEF LiveAt, Booking
<1>17. ASSUME NEW v \in Waves, NEW r \in Requests, r \in live'[v]
       PROVE  /\ ~Awaited(r)' /\ waveOf'[0][r] \in {v, NoWave} /\ (\A u \in Waves \ {v} : r \notin live'[u])
              /\ Booking(v, r)'
  <2>1. CASE r \in A
    <3>1. v = w
      BY <1>10, <1>13, <1>17, <2>1
    <3>2. Booking(w, r)'
      <4>1. eng'[0].booked[r] = IF r \in ToSet(sched) THEN Len(told'[r]) + 1 ELSE Len(told'[r])
        BY <1>4, <1>5, <1>10, <2>1
      <4> QED BY <1>14, <4>1 DEF Booking
    <3>3. \A u \in Waves \ {v} : r \notin live'[u]
      BY <1>10, <1>13, <2>1, <3>1
    <3> QED BY <1>9, <1>11, <2>1, <3>1, <3>2, <3>3
  <2>2. CASE r \notin A
    <3>1. r \in live[v]
      BY <1>13, <1>17, <2>2
    <3>2. ~Awaited(r) /\ waveOf[0][r] \in {v, NoWave} /\ (\A u \in Waves \ {v} : r \notin live[u]) /\ Booking(v, r)
      BY <1>6, <3>1 DEF LiveAt
    <3>3. waveOf'[0][r] \in {v, NoWave}
      BY <1>11, <2>2, <3>2
    <3>4. \A u \in Waves \ {v} : r \notin live'[u]
      BY <1>13, <2>2, <3>2
    <3>5. Booking(v, r)'
      <4>1. CASE v = w
        <5>1. eng'[0].booked[r] = IF r \in ToSet(sched) THEN Len(told'[r]) + 1 ELSE Len(told'[r])
          BY <1>4, <1>5, <1>16, <3>1, <4>1
        <5> QED BY <1>14, <4>1, <5>1 DEF Booking
      <4>2. CASE v # w
        <5>1. r \notin ToSet(sched)
          BY <1>5, <1>12, <3>3, <4>2
        <5>2. eng'[0].booked[r] = eng[0].booked[r] /\ told' = told
          BY <1>4, <1>5, <5>1
        <5> QED BY <1>15, <3>2, <4>2, <5>2 DEF Booking
      <4> QED BY <4>1, <4>2
    <3> QED BY <1>9, <3>2, <3>3, <3>4, <3>5
  <2> QED BY <2>1, <2>2
<1>18. ASSUME NEW v \in Waves, NEW r \in Requests PROVE LiveAt(v, r)'
  BY <1>17 DEF LiveAt
<1>19. ASSUME NEW v \in Waves, NEW r \in Requests PROVE MapAt(v, r)'
  <2>1. SUFFICES ASSUME waveOf'[0][r] = v PROVE r \in live'[v] \/ r \in ToSet(byWave'[v])
    BY DEF MapAt
  <2>2. CASE r \in A
    BY <1>11, <1>13, <2>1, <2>2
  <2>3. CASE r \notin A
    <3>1. r \notin B /\ waveOf[0][r] = v
      BY <1>11, <2>1, <2>3, WaveIsNumber
    <3>2. r \in live[v] \/ r \in ToSet(byWave[v])
      BY <1>6, <3>1 DEF MapAt
    <3> QED BY <1>3, <1>13, <3>1, <3>2
  <2> QED BY <2>2, <2>3
<1>20. BooksTyped'
  <2>1. A \in SUBSET Requests
    <3>1. A \subseteq ToSet(inbox) /\ \A r \in ToSet(inbox) : r \in Requests
      BY <1>3, JoiningIs, EmptyFacts, InboxUnseen
    <3> QED BY <3>1
  <2> QED BY <1>4, <1>6, <2>1, EmptyFacts DEF BooksTyped
<1>21. ASSUME NEW r \in ToSet(sched) PROVE Len(told[r]) = eng[0].booked[r]
  <2>1. r \in Requests /\ waveOf'[0][r] = w
    BY <1>12
  <2>2. CASE r \in A
    BY <1>10, <2>1, <2>2
  <2>3. CASE r \notin A
    <3>1. r \notin B /\ waveOf[0][r] = w
      BY <1>5, <1>11, <2>1, <2>3
    <3>2. r \in live[w]
      BY <1>3, <1>6, <2>1, <3>1 DEF MapAt
    <3> QED BY <1>16, <2>1, <3>2
  <2> QED BY <2>2, <2>3
<1> QED BY <1>18, <1>19, <1>20, <1>21, BooksAfter

\* A sequence has finitely many elements.
LEMMA LineFinite ==
  ASSUME NEW q, Line(q)
  PROVE  IsFiniteSet(ToSet(q))
<1>1. Len(q) \in Nat /\ DOMAIN q = 1..Len(q) /\ q \in Seq(ToSet(q))
  BY LineFacts DEF Line
<1>2. q \in [1..Len(q) -> ToSet(q)]
  BY <1>1
<1>3. q \in Surjection(1..Len(q), ToSet(q))
  BY <1>1, <1>2 DEF Surjection, ToSet
<1>4. IsFiniteSet(1..Len(q))
  BY <1>1, FS_Interval
<1> QED BY <1>3, <1>4, FS_Surjection

\* A finite set, in some order.
LEMMA SetToSeqIs ==
  ASSUME NEW S, IsFiniteSet(S), S \subseteq Requests
  PROVE  SetToSeq(S) \in Seq(Requests) /\ ToSet(SetToSeq(S)) = S
<1>1. PICK n : n = Cardinality(S)
  OBVIOUS
<1>2. n \in Nat /\ ExistsBijection(1..n, S)
  BY <1>1, FS_CardinalityType
<1>3. \E f \in [1..n -> S] : IsInjective(f)
  <2>1. PICK f \in Bijection(1..n, S) : TRUE
    BY <1>2 DEF ExistsBijection
  <2> QED BY <2>1 DEF Bijection, Injection, IsInjective
<1>4. PICK q : q = SetToSeq(S)
  OBVIOUS
<1>5. q \in [1..n -> S] /\ IsInjective(q)
  BY <1>1, <1>3, <1>4 DEF SetToSeq
<1>6. q \in Injection(1..n, S)
  BY <1>5 DEF Injection, IsInjective
<1>7. Cardinality(1..n) = n
  BY <1>2, FS_Interval
<1>8. q \in Surjection(1..n, S)
  BY <1>1, <1>6, <1>7, FS_Injection
<1>9. ToSet(q) = S
  BY <1>5, <1>8 DEF Surjection, ToSet
<1>10. q \in Seq(Requests)
  BY <1>2, <1>5
<1> QED BY <1>4, <1>9, <1>10

\* The rows name the tokens.
LEMMA NamedTokens ==
  ASSUME NEW names, NEW toks, Stamped(toks, names, 0), \A r \in ToSet(names) : eng[0].booked[r] \in Nat
  PROVE  /\ \A t \in ToSet(Named(names, toks)) : t.of \in ToSet(names) /\ t.by = t.of /\ t.nr = eng[0].booked[t.of]
         /\ \A r \in ToSet(names) : \E t \in ToSet(Named(names, toks)) : t.of = r
<1>1. PICK all : all = Named(names, toks)
  OBVIOUS
<1>2. DOMAIN toks = DOMAIN names /\ \A i \in DOMAIN names : toks[i].of = names[i] /\ toks[i].nr = eng[0].booked[names[i]] + 0
  BY DEF Stamped
<1>3. /\ DOMAIN all = DOMAIN names
      /\ \A i \in DOMAIN names : all[i].of = names[i] /\ all[i].by = toks[i].of /\ all[i].nr = toks[i].nr
  BY <1>1, <1>2 DEF Named
<1>4. \A i \in DOMAIN names : names[i] \in ToSet(names) /\ toks[i].nr = eng[0].booked[names[i]]
  <2>1. TAKE i \in DOMAIN names
  <2>2. names[i] \in ToSet(names)
    BY DEF ToSet
  <2> QED BY <1>2, <2>2
<1>5. \A t \in ToSet(all) : \E i \in DOMAIN names : t = all[i]
  BY <1>3 DEF ToSet
<1>6. \A t \in ToSet(all) : t.of \in ToSet(names) /\ t.by = t.of /\ t.nr = eng[0].booked[t.of]
  BY <1>2, <1>3, <1>4, <1>5
<1>7. ASSUME NEW r \in ToSet(names) PROVE \E t \in ToSet(all) : t.of = r
  <2>1. PICK i \in DOMAIN names : names[i] = r
    BY <1>7 DEF ToSet
  <2>2. all[i] \in ToSet(all)
    BY <1>3, <2>1 DEF ToSet
  <2> QED BY <1>3, <2>1, <2>2
<1> QED BY <1>1, <1>6, <1>7

\* What follows of stage 0 telling the tokens of wave w, that are for the live
\* requests T: those of L have their length, and those of E end by their text.
AbsorbTells(w, T, L, E) ==
  /\ mode > 0 /\ mode' = mode /\ UNCHANGED <<inbox, aborts, eng>>
  /\ rowQ'[w] = <<>> /\ (\A v \in Waves : v # w => rowQ'[v] = rowQ[v])
  /\ T = {r \in live[w] : InRow(w, r)} /\ L \subseteq T /\ E \subseteq T /\ T \subseteq Requests
  /\ \A r \in Requests : client'[r] = "new" <=> client[r] = "new"
  /\ \A r \in Requests : IF r \in T
       THEN \E t : told'[r] = Append(told[r], t) /\ t.by = r /\ t.nr = eng[0].booked[r]
       ELSE told'[r] = told[r]
  /\ live' = [live EXCEPT ![w] = @ \ (L \cup E)]
  /\ byWave' \in [Waves -> Seq(Requests)] /\ (\A v \in Waves : ToSet(byWave[v]) \subseteq ToSet(byWave'[v]))
  /\ E \ L \subseteq ToSet(byWave'[w])
  /\ \A r \in Requests : waveOf'[0][r] = IF r \in L THEN NoWave ELSE waveOf[0][r]

\* What _absorb tells, and to whom.
LEMMA AbsorbTellsIs ==
  ASSUME BaseInv, ToldInv, NamesInv, BooksInv, NEW w \in Waves, Absorb(w)
  PROVE  \E T, L, E : AbsorbTells(w, T, L, E)
<1>1. AbsorbDone(w)
  BY AbsorbEffect
<1>2. mode > 0 /\ mode' = mode /\ First(w) \in DOMAIN ring /\ ring[First(w)].wave = w /\ UNCHANGED <<inbox, eng>>
  BY <1>1 DEF AbsorbDone
<1>3. /\ TypeInv /\ EngineOK(eng[0]) /\ rowQ = [v \in Waves |-> rowQ[v]] /\ Line(rowQ[w])
      /\ waveOf = [s \in Stages |-> waveOf[s]] /\ 0 \in Stages
  <2>1. TypeInv /\ EngineOK(eng[0]) /\ 0 \in Stages
    BY StageFacts DEF BaseInv, EngineInv
  <2> QED BY <2>1 DEF TypeInv
<1>4. PICK names, toks : names = rowQ[w][1] /\ toks = ring[First(w)].toks
  OBVIOUS
<1>5. rowQ[w] # <<>> /\ Stamped(toks, names, 0)
  BY <1>2, <1>4 DEF NamesInv
<1>6. /\ Len(rowQ[w]) = 1 /\ Line(names) /\ \A r \in ToSet(names) : r \in Requests
  BY <1>2, <1>4, <1>5 DEF ToldInv
<1>7. Head(rowQ[w]) = names /\ Tail(rowQ[w]) = <<>>
  <2>1. PICK q : q = rowQ[w]
    OBVIOUS
  <2>2. Head(q) = q[1] /\ Line(Tail(q)) /\ Len(Tail(q)) = 0
    BY <1>3, <1>5, <1>6, <2>1, LineLess
  <2> QED BY <1>4, <2>1, <2>2, LineFacts
<1>8. PICK all : all = Named(names, toks)
  OBVIOUS
<1>9. \A r \in ToSet(names) : eng[0].booked[r] \in Nat
  BY <1>3, <1>6 DEF EngineOK
<1>10. /\ \A t \in ToSet(all) : t.of \in ToSet(names) /\ t.by = t.of /\ t.nr = eng[0].booked[t.of]
       /\ \A r \in ToSet(names) : \E t \in ToSet(all) : t.of = r
  BY <1>5, <1>8, <1>9, NamedTokens
<1>. DEFINE named == {t \in ToSet(all) : t.of \in live[w]}
            L == {t.of : t \in {u \in named : LengthDone(u.of, Len(told[u.of]) + 1)}}
            E == {t.of : t \in {u \in named : u.eos}}
            T == {r \in live[w] : InRow(w, r)}
<1>11. /\ rowQ' = [rowQ EXCEPT ![w] = Tail(@)] /\ Tell(named, L \cup E) /\ UNCHANGED aborts
       /\ live' = [live EXCEPT ![w] = @ \ (L \cup E)]
       /\ byWave' = [byWave EXCEPT ![w] = @ \o Stops(E, L)]
       /\ waveOf' = [waveOf EXCEPT ![0] = Unmapped(@, L, E)]
  BY <1>4, <1>5, <1>7, <1>8 DEF Absorb
<1>12. \A r : InRow(w, r) <=> r \in ToSet(names)
  BY <1>4, <1>5 DEF InRow
<1>13. T \subseteq Requests /\ T = {r \in ToSet(names) : r \in live[w]}
  BY <1>6, <1>12
<1>14. (\A t \in named : t.of \in T) /\ \A r \in T : \E t \in named : t.of = r
  BY <1>10, <1>13
<1>15. L \subseteq T /\ E \subseteq T
  <2>1. (\A r \in L : \E t \in named : t.of = r) /\ \A r \in E : \E t \in named : t.of = r
    OBVIOUS
  <2> QED BY <1>14, <2>1
<1>16. \A r \in Requests : IF r \in T
         THEN \E t : told'[r] = Append(told[r], t) /\ t.by = r /\ t.nr = eng[0].booked[r]
         ELSE told'[r] = told[r]
  <2>1. \A t \in named : t.by = t.of /\ t.nr = eng[0].booked[t.of]
    BY <1>10
  <2>. HIDE DEF named, L, E, T
  <2>2. \A r \in Requests : IF \E t \in named : t.of = r
                            THEN \E t \in named : t.of = r /\ told'[r] = Append(told[r], t) ELSE told'[r] = told[r]
    BY <1>11, TellMore
  <2> QED BY <1>14, <2>1, <2>2
<1>. HIDE DEF named, L, E, T
<1>17. \A r \in Requests : client'[r] = "new" <=> client[r] = "new"
  BY <1>3, <1>11, TellEffect
<1>18. byWave \in [Waves -> Seq(Requests)]
  BY <1>2 DEF BooksInv
<1>19. Stops(E, L) \in Seq(Requests) /\ ToSet(Stops(E, L)) = E \ L
  <2>1. E \ L \subseteq ToSet(names) /\ E \ L \subseteq Requests
    BY <1>13, <1>15
  <2>2. IsFiniteSet(E \ L)
    BY <1>6, <2>1, LineFinite, FS_Subset
  <2> QED BY <2>1, <2>2, SetToSeqIs DEF Stops
<1>20. /\ byWave' \in [Waves -> Seq(Requests)] /\ (\A v \in Waves : ToSet(byWave[v]) \subseteq ToSet(byWave'[v]))
       /\ E \ L \subseteq ToSet(byWave'[w])
  <2>1. PICK b, c : b = byWave[w] /\ c = Stops(E, L)
    OBVIOUS
  <2>2. b \o c \in Seq(Requests) /\ ToSet(b \o c) = ToSet(b) \cup (E \ L)
    BY <1>18, <1>19, <2>1, ConcatFacts
  <2>3. byWave' = [byWave EXCEPT ![w] = b \o c]
    BY <1>11, <2>1
  <2> QED BY <1>18, <2>1, <2>2, <2>3
<1>21. \A r \in Requests : waveOf'[0][r] = IF r \in L THEN NoWave ELSE waveOf[0][r]
  BY <1>3, <1>11 DEF Unmapped
<1>22. rowQ'[w] = <<>> /\ \A v \in Waves : v # w => rowQ'[v] = rowQ[v]
  BY <1>3, <1>7, <1>11
<1>23. T = {r \in live[w] : InRow(w, r)}
  BY DEF T
<1>24. AbsorbTells(w, T, L, E)
  BY <1>2, <1>11, <1>13, <1>15, <1>16, <1>17, <1>20, <1>21, <1>22, <1>23 DEF AbsorbTells
<1> QED BY <1>24

\* A live request is told the next of its tokens.
LEMMA BooksAbsorb ==
  ASSUME BaseInv, BooksInv, RightTokens, NEW w \in Waves, NEW T, NEW L, NEW E, AbsorbTells(w, T, L, E)
  PROVE  BooksInv' /\ RightTokens'
<1>1. /\ mode > 0 /\ mode' = mode /\ UNCHANGED <<inbox, aborts, eng>>
      /\ rowQ'[w] = <<>> /\ (\A v \in Waves : v # w => rowQ'[v] = rowQ[v])
      /\ T = {r \in live[w] : InRow(w, r)} /\ L \subseteq T /\ E \subseteq T /\ T \subseteq Requests
      /\ \A r \in Requests : client'[r] = "new" <=> client[r] = "new"
  BY DEF AbsorbTells
<1>2. \A r \in Requests : IF r \in T
        THEN \E t : told'[r] = Append(told[r], t) /\ t.by = r /\ t.nr = eng[0].booked[r]
        ELSE told'[r] = told[r]
  BY DEF AbsorbTells
<1>3. /\ live' = [live EXCEPT ![w] = @ \ (L \cup E)]
      /\ byWave' \in [Waves -> Seq(Requests)] /\ (\A v \in Waves : ToSet(byWave[v]) \subseteq ToSet(byWave'[v]))
      /\ E \ L \subseteq ToSet(byWave'[w])
      /\ \A r \in Requests : waveOf'[0][r] = IF r \in L THEN NoWave ELSE waveOf[0][r]
  BY DEF AbsorbTells
<1>4. BooksTyped /\ \A v \in Waves : \A r \in Requests : LiveAt(v, r) /\ MapAt(v, r)
  BY <1>1, BooksAre
<1>5. TypeInv /\ \A r \in Requests : Line(told[r])
  BY DEF BaseInv, TypeInv
<1>6. live'[w] = live[w] \ (L \cup E) /\ \A v \in Waves : v # w => live'[v] = live[v]
  BY <1>3, <1>4 DEF BooksTyped
<1>7. ASSUME NEW r \in T
      PROVE  r \in Requests /\ eng[0].booked[r] = Len(told[r]) + 1 /\ \E t : told'[r] = Append(told[r], t) /\ t.by = r /\ t.nr = Len(told[r]) + 1
  <2>1. r \in Requests /\ r \in live[w] /\ InRow(w, r)
    BY <1>1, <1>7
  <2>2. eng[0].booked[r] = Len(told[r]) + 1
    BY <1>4, <2>1 DEF LiveAt, Booking
  <2> QED BY <1>2, <1>7, <2>1, <2>2
<1>8. RightTokens'
  <2>1. \A r \in Requests : \/ told'[r] = told[r]
                            \/ \E t : told'[r] = Append(told[r], t) /\ t.nr = Len(told[r]) + 1 /\ (mode > 0 => t.by = r)
    BY <1>2, <1>7
  <2> QED BY <1>1, <1>5, <2>1, RightMore
<1>9. ASSUME NEW v \in Waves, NEW r \in Requests, r \in live'[v]
      PROVE  /\ ~Awaited(r)' /\ waveOf'[0][r] \in {v, NoWave} /\ (\A u \in Waves \ {v} : r \notin live'[u])
             /\ Booking(v, r)'
  <2>1. r \in live[v]
    BY <1>6, <1>9
  <2>2. ~Awaited(r) /\ waveOf[0][r] \in {v, NoWave} /\ (\A u \in Waves \ {v} : r \notin live[u]) /\ Booking(v, r)
    BY <1>4, <2>1 DEF LiveAt
  <2>3. ~Awaited(r)'
    BY <1>1, <2>2 DEF Awaited
  <2>4. \A u \in Waves \ {v} : r \notin live'[u]
    BY <1>6, <2>2
  <2>5. Booking(v, r)'
    <3>1. CASE v = w /\ r \in T
      <4>1. Len(told'[r]) = Len(told[r]) + 1
        BY <1>5, <1>7, <3>1, LineMore
      <4>2. eng'[0].booked[r] = Len(told'[r])
        BY <1>1, <1>7, <3>1, <4>1
      <4>3. ~InRow(w, r)'
        BY <1>1 DEF InRow
      <4> QED BY <3>1, <4>2, <4>3 DEF Booking
    <3>2. CASE v = w /\ r \notin T
      <4>1. ~InRow(w, r)
        BY <1>1, <2>1, <3>2
      <4>2. eng[0].booked[r] = Len(told[r])
        BY <2>2, <3>2, <4>1 DEF Booking
      <4>3. told'[r] = told[r] /\ ~InRow(w, r)'
        BY <1>1, <1>2, <3>2 DEF InRow
      <4> QED BY <1>1, <3>2, <4>2, <4>3 DEF Booking
    <3>3. CASE v # w
      <4>1. r \notin T
        BY <1>1, <2>2, <3>3
      <4>2. told'[r] = told[r] /\ eng' = eng
        BY <1>1, <1>2, <4>1
      <4>3. InRow(v, r)' <=> InRow(v, r)
        BY <1>1, <3>3 DEF InRow
      <4> QED BY <2>2, <4>2, <4>3 DEF Booking
    <3> QED BY <3>1, <3>2, <3>3
  <2> QED BY <1>3, <2>2, <2>3, <2>4, <2>5
<1>10. \A v \in Waves : \A r \in Requests : LiveAt(v, r)'
  BY <1>9 DEF LiveAt
<1>11. ASSUME NEW v \in Waves, NEW r \in Requests PROVE MapAt(v, r)'
  <2>1. SUFFICES ASSUME waveOf'[0][r] = v PROVE r \in live'[v] \/ r \in ToSet(byWave'[v])
    BY DEF MapAt
  <2>2. r \notin L /\ waveOf[0][r] = v
    BY <1>3, <2>1, WaveIsNumber
  <2>3. r \in live[v] \/ r \in ToSet(byWave[v])
    BY <1>4, <2>2 DEF MapAt
  <2> QED BY <1>3, <1>6, <2>2, <2>3
<1>12. BooksTyped'
  BY <1>1, <1>3, <1>4 DEF BooksTyped
<1> QED BY <1>8, <1>10, <1>11, <1>12, BooksAfter

\* Of the two drivers' invariants one is empty.
LEMMA TokenOneDriver ==
  ASSUME TypeInv, mode' = mode
  PROVE  /\ mode = 0 => NamesInv' /\ CountInv' /\ BooksInv'
         /\ mode > 0 => SoloInv'
<1>1. mode = 0 => ~(mode' > 0)
  BY SpliceAssumption DEF TypeInv
<1>2. mode > 0 => mode' # 0
  BY SpliceAssumption DEF TypeInv
<1> QED BY <1>1, <1>2 DEF NamesInv, CountInv, BooksInv, SoloInv

LEMMA ModeIs ==
  ASSUME TypeInv
  PROVE  mode = 0 \/ mode > 0
BY SpliceAssumption DEF TypeInv

\* A stage that takes a control frame or tokens leaves stage 0 and the ring alone.
LEMMA FollowedSolo ==
  ASSUME SoloInv, NEW s \in Followers, Others(s), UNCHANGED <<mode, told, ring>>
  PROVE  SoloInv'
<1>1. 0 \in Stages /\ s # 0
  BY StageFacts
<1>2. eng'[0].booked = eng[0].booked /\ rows'[0] = rows[0]
  BY <1>1 DEF Others
<1> QED BY <1>2, SoloSame

\* Every step of a driver keeps the tokens right, if it does not raise.
LEMMA TokenMoves ==
  ASSUME BaseInv, AgreedInv, TokenInv, Moves, failed' = failed
  PROVE  TokenInv'
<1>1. /\ AgreeInv /\ OrderInv /\ WaveInv /\ ToldInv /\ TypeInv /\ failed # failed + 1
      /\ SoloInv /\ NamesInv /\ CountInv /\ BooksInv /\ RightTokens
  BY DEF AgreedInv, BaseInv, TypeInv, TokenInv
<1>2. CASE LockstepStep
  <2>1. mode = 0 /\ mode' = mode /\ told' = told
    BY <1>2 DEF LockstepStep, MayStep
  <2>2. SoloInv'
    BY <1>1, <1>2, SoloStepped
  <2>3. RightTokens'
    BY <1>1, <2>1, RightSame
  <2> QED BY <1>1, <2>1, <2>2, <2>3, TokenOneDriver DEF TokenInv
<1>3. CASE LockstepToken
  <2>1. mode = 0 /\ mode' = mode
    BY <1>3 DEF LockstepToken
  <2>2. SoloInv' /\ RightTokens'
    BY <1>1, <1>3, SoloToken
  <2> QED BY <1>1, <2>1, <2>2, TokenOneDriver DEF TokenInv
<1>4. CASE LockstepFails
  BY <1>1, <1>4 DEF LockstepFails, Raises
<1>5. CASE Heartbeat
  <2>1. PICK f : IdleDone(f)
    BY <1>5, IdleEffect
  <2>2. UNCHANGED <<mode, told, ring>> /\ eng'[0].booked = eng[0].booked /\ rows'[0] = rows[0]
    BY <2>1 DEF IdleDone
  <2>3. SoloInv' /\ RightTokens'
    BY <1>1, <2>2, SoloSame, RightSame
  <2>4. mode > 0 => NamesInv' /\ CountInv' /\ BooksInv'
    BY <1>1, <1>5, <2>1, IdleToken, BooksIdle
  <2> QED BY <1>1, <2>2, <2>3, <2>4, ModeIs, TokenOneDriver DEF TokenInv
<1>6. ASSUME NEW w \in Waves, StepWave(w) PROVE TokenInv'
  <2>1. PICK sched : WaveStep(w, sched)
    BY <1>1, <1>6, WaveStepIs
  <2>2. mode > 0 /\ UNCHANGED <<mode, told>>
    BY <2>1 DEF WaveStep
  <2>3. NamesInv' /\ CountInv' /\ BooksInv'
    BY <1>1, <1>6, <2>1, NamesStepped, CountStepped, BooksStepped
  <2>4. RightTokens'
    BY <1>1, <2>2, RightSame
  <2> QED BY <1>1, <2>2, <2>3, <2>4, TokenOneDriver DEF TokenInv
<1>7. ASSUME NEW w \in Waves, Absorb(w) PROVE TokenInv'
  <2>1. AbsorbDone(w)
    BY <1>7, AbsorbEffect
  <2>2. mode > 0 /\ mode' = mode
    BY <2>1 DEF AbsorbDone
  <2>3. PICK T, L, E : AbsorbTells(w, T, L, E)
    BY <1>1, <1>7, AbsorbTellsIs
  <2>4. NamesInv' /\ CountInv' /\ BooksInv' /\ RightTokens'
    BY <1>1, <2>1, <2>3, AbsorbToken, BooksAbsorb
  <2> QED BY <1>1, <2>2, <2>4, TokenOneDriver DEF TokenInv
<1>8. ASSUME NEW w \in Waves, StepWaveFails(w) PROVE TokenInv'
  BY <1>1, <1>8 DEF StepWaveFails, Raises
<1>9. ASSUME NEW s \in Followers, TakeCtl(s) PROVE TokenInv'
  <2>1. PICK f : f = Head(down[s - 1])
    OBVIOUS
  <2>2. Others(s) /\ UNCHANGED <<mode, told, ring>>
    BY <1>9, <2>1, CtlEffect
  <2>3. SoloInv' /\ RightTokens'
    BY <1>1, <2>2, FollowedSolo, RightSame
  <2>4. mode > 0 => NamesInv' /\ CountInv' /\ BooksInv'
    BY <1>1, <1>9, <2>2, CtlToken, BooksFollowed
  <2> QED BY <1>1, <2>2, <2>3, <2>4, ModeIs, TokenOneDriver DEF TokenInv
<1>10. ASSUME NEW s \in Followers, TakeHr(s) PROVE TokenInv'
  <2>1. PICK f : f = Head(down[s - 1])
    OBVIOUS
  <2>2. Others(s) /\ UNCHANGED <<mode, told>>
    BY <1>10, <2>1, HrEffect DEF HrDone
  <2>3. SoloInv' /\ RightTokens'
    BY <1>1, <1>10, <2>2, SoloHr, RightSame
  <2>4. mode > 0 => NamesInv' /\ CountInv' /\ BooksInv'
    BY <1>1, <1>10, <2>2, HrToken, BooksFollowed
  <2> QED BY <1>1, <2>2, <2>3, <2>4, ModeIs, TokenOneDriver DEF TokenInv
<1>11. ASSUME NEW s \in Followers, s # LastStage, TakeTok(s) PROVE TokenInv'
  <2>1. PICK f : f = Head(down[s - 1])
    OBVIOUS
  <2>2. Others(s) /\ UNCHANGED <<mode, told, ring>> /\ pc[s] = "tok" /\ s \in Stages
    BY <1>11, <2>1, TokEffect, StageFacts DEF TokDone
  <2>3. SoloInv' /\ RightTokens'
    BY <1>1, <2>2, FollowedSolo, RightSame
  <2>4. mode = 0
    BY <1>1, <2>2, ModeIs DEF TypeInv
  <2> QED BY <1>1, <2>2, <2>3, <2>4, TokenOneDriver DEF TokenInv
<1> QED BY <1>2, <1>3, <1>4, <1>5, <1>6, <1>7, <1>8, <1>9, <1>10, <1>11 DEF Moves

\* The HTTP thread and the routing of aborts.
LEMMA TokenAside ==
  ASSUME BaseInv, TokenInv, Aside
  PROVE  TokenInv'
<1>1. UNCHANGED <<mode, eng, rows, down, ring, told, rowQ>> /\ TypeInv
  BY AsideQuiet DEF Quiet, BaseInv
<1>2. SoloInv' /\ RightTokens'
  BY <1>1, SoloSame, RightSame DEF TokenInv
<1>3. mode > 0 => NamesInv'
  <2>1. NamesInv
    BY DEF TokenInv
  <2> QED BY <1>1, <2>1 DEF NamesInv, Stamped
<1>4. mode > 0 => CountInv'
  <2>1. CountInv
    BY DEF TokenInv
  <2> QED BY <1>1, <2>1 DEF CountInv, Coming
<1>5. mode > 0 => BooksInv'
  BY BooksAside DEF TokenInv
<1> QED BY <1>1, <1>2, <1>3, <1>4, <1>5, ModeIs, TokenOneDriver DEF TokenInv

LEMMA TokenStep ==
  ASSUME JInv, [Next]_vars
  PROVE  JInv'
<1>1. IInv'
  BY AgreedStep DEF JInv
<1>2. ASSUME failed' = 0 PROVE TokenInv'
  <2>1. failed = 0 /\ BaseInv /\ AgreedInv /\ TokenInv
    BY <1>2, FailedGrows DEF JInv, IInv
  <2>2. CASE Aside
    BY <2>1, <2>2, TokenAside
  <2>3. CASE Moves
    BY <1>2, <2>1, <2>3, TokenMoves
  <2> QED BY <2>2, <2>3, NextIs
<1> QED BY <1>1, <1>2 DEF JInv

LEMMA TokenInit ==
  ASSUME Init
  PROVE  JInv
<1>1. /\ client = [r \in Requests |-> "new"] /\ inbox = <<>> /\ aborts = <<>> /\ ring = <<>>
      /\ eng = [s \in Stages |-> [running |-> <<>>, waiting |-> <<>>, booked |-> [r \in Requests |-> 0]]]
      /\ waveOf = [s \in Stages |-> [r \in Requests |-> NoWave]]
      /\ down = [s \in Links |-> <<>>] /\ told = [r \in Requests |-> <<>>]
      /\ byWave = [w \in Waves |-> <<>>] /\ live = [w \in Waves |-> {}]
  BY DEF Init, Links
<1>2. \A i : i \notin DOMAIN <<>>
  OBVIOUS
<1>3. 0 \in Stages /\ \A s \in Followers : s \in Stages
  BY StageFacts
<1>4. \A s \in Stages : \A r \in Requests : eng[s].booked[r] = 0
  BY <1>1
<1>5. Len(<<>>) = 0
  OBVIOUS
<1>6. SoloInv
  BY <1>1, <1>2, <1>3, <1>4, <1>5 DEF SoloInv
<1>7. NamesInv
  BY <1>1, <1>2 DEF NamesInv
<1>8. CountInv
  <2>1. \A t, r : ~Coming(t, r)
    BY <1>1, <1>2 DEF Coming
  <2> QED BY <1>3, <1>4, <2>1 DEF CountInv
<1>9. BooksInv
  <2>1. live \in [Waves -> SUBSET Requests] /\ byWave \in [Waves -> Seq(Requests)] /\ aborts \in Seq(Requests)
    BY <1>1, EmptyFacts
  <2>2. \A w \in Waves : live[w] = {}
    BY <1>1
  <2>3. \A w \in Waves : \A r \in Requests : waveOf[0][r] # w
    BY <1>1, <1>3, WaveIsNumber
  <2> QED BY <2>1, <2>2, <2>3 DEF BooksInv
<1>10. RightTokens
  BY <1>1, <1>5 DEF RightTokens
<1> QED BY <1>6, <1>7, <1>8, <1>9, <1>10, AgreedInit DEF JInv, TokenInv

\* Only a wave's step queues rows, and it steps requests that were told all.
LEMMA EmbedsStep ==
  ASSUME JInv, [Next]_vars, failed' = 0, NEW v \in Waves, Len(rowQ'[v]) > Len(rowQ[v])
  PROVE  \A r \in ToSet(rows'[0]) : Len(told[r]) = eng[0].booked[r]
<1>1. failed = 0 /\ BaseInv /\ AgreedInv /\ TokenInv
  BY FailedGrows DEF JInv, IInv
<1>2. ToldInv /\ BooksInv
  BY <1>1 DEF AgreedInv, TokenInv
<1>3. \E w \in Waves : StepWave(w)
  <2>1. Line(rowQ[v]) /\ rowQ = [w \in Waves |-> rowQ[w]]
    BY <1>1 DEF BaseInv, TypeInv
  <2>2. rowQ' # rowQ
    <3>1. Len(rowQ[v]) \in Nat
      BY <2>1 DEF Line
    <3> QED BY <3>1
  <2>3. Aside => rowQ' = rowQ
    BY DEF Aside, Submit, ClientGone, AskReload, Route, Requeue, vars, waves
  <2>4. LockstepStep \/ LockstepToken \/ LockstepFails \/ Heartbeat => rowQ' = rowQ
    BY DEF LockstepStep, LockstepToken, LockstepFails, Heartbeat, waves
  <2>5. \A w \in Waves : StepWaveFails(w) => rowQ' = rowQ
    BY DEF StepWaveFails
  <2>6. \A s \in Followers : TakeCtl(s) \/ TakeHr(s) \/ TakeTok(s) => rowQ' = rowQ
    BY DEF TakeCtl, TakeHr, TakeTok, waves
  <2>7. ASSUME NEW w \in Waves, Absorb(w) PROVE FALSE
    <3>1. rowQ[w] # <<>> /\ rowQ' = [rowQ EXCEPT ![w] = Tail(@)]
      BY <2>2, <2>7 DEF Absorb
    <3>2. v = w /\ rowQ'[v] = Tail(rowQ[v])
      <4>1. v # w => rowQ'[v] = rowQ[v]
        BY <2>1, <3>1
      <4>2. Len(rowQ[v]) \in Nat
        BY <2>1 DEF Line
      <4> QED BY <2>1, <3>1, <4>1, <4>2
    <3>3. Len(rowQ'[v]) = Len(rowQ[v]) - 1 /\ Len(rowQ[v]) \in Nat
      BY <2>1, <3>1, <3>2 DEF Line
    <3> QED BY <3>3
  <2> QED BY <2>2, <2>3, <2>4, <2>5, <2>6, <2>7, NextIs DEF Moves
<1>4. PICK w \in Waves : StepWave(w)
  BY <1>3
<1>5. PICK sched : WaveStep(w, sched)
  BY <1>1, <1>2, <1>4, WaveStepIs
<1>6. \A r \in ToSet(sched) : Len(told[r]) = eng[0].booked[r]
  BY <1>1, <1>2, <1>4, <1>5, BooksStepped
<1> QED BY <1>5, <1>6 DEF WaveStep

(***************************************************************************)
(* _absorb and the sampler taps of run_first and run_first_waves           *)
(* (pipeline.py): for any number of stages, waves and requests, every      *)
(* token stage 0 takes for a request was sampled for that request, in      *)
(* order and without gap, and a request is stepped only when all the       *)
(* placeholders booked for it have been replaced by true tokens, unless a  *)
(* step of stage 0 raised.                                                 *)
(***************************************************************************)
THEOREM TokensAlwaysTrue == Spec => TokensTrue
<1>1. Init => JInv
  BY TokenInit
<1>2. JInv /\ [Next]_vars => JInv'
  BY TokenStep
<1>3. JInv => TokensInOrder
  BY DEF JInv, TokenInv, TokensInOrder
<1>4. JInv /\ [Next]_vars =>
        [\A w \in Waves : failed' = 0 /\ Len(rowQ'[w]) > Len(rowQ[w]) =>
           \A r \in ToSet(rows'[0]) : Len(told[r]) = eng[0].booked[r]]_vars
  BY EmbedsStep
<1> QED BY <1>1, <1>2, <1>3, <1>4, PTL DEF Spec, TokensTrue, EmbedsTrueToken
=============================================================================
