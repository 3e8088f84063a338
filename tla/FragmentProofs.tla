---------------------------- MODULE FragmentProofs ----------------------------
(***************************************************************************)
(* Proofs about the two clients of a server of fragments: FragmentSync, an *)
(* island of several ranks, and RLReplica.                                 *)
(***************************************************************************)
EXTENDS FragmentClients, SequenceTheorems, WellFoundedInduction, TLAPS

-----------------------------------------------------------------------------
(* The server. *)

\* A window length made divisible by the number of fragments is positive.
LEMMA DivisibleWindow ==
  ASSUME NEW n \in Nat, NEW p \in Nat \ {0}, n >= p
  PROVE  (n \div p) * p \in Nat \ {0}
<1>1. n \div p \in Nat
  OBVIOUS
<1>2. n \div p >= 1
  OBVIOUS
<1>3. ASSUME NEW k \in Nat, k >= 1 PROVE k * p \in Nat \ {0}
  BY <1>3
<1> QED
  BY <1>1, <1>2, <1>3

LEMMA FragmentServerTypes ==
  /\ MaxFragments \in Nat \ {0} /\ MaxCommits \in Nat /\ Advice \subseteq Nat /\ 0 \in Advice
  /\ MaxFaults \in [FaultKinds -> Nat]
BY FragmentServerAssumption

\* A new exchange, of any kind, is a call.
LEMMA NoCallTyped ==
  ASSUME fragments \in Nat \ {0} PROVE NoCall \in Calls
<1>1. <<>> \in Seq(Interval) /\ Other \in Interval /\ 1 \in Fragment /\ 0 \in Advice
  BY FragmentServerTypes DEF Interval, Other, Fragment
<1> QED
  BY <1>1 DEF NoCall, Calls

\* The server takes a request without losing the shape of its model.
LEMMA HandleTyped ==
  ASSUME ServerInv, NEW req \in Calls, Handle(req)
  PROVE  log' \in [Fragment -> Seq(Interval)] /\ revision' \in Nat /\ disk' = disk /\ commits' = commits
<1>1. req.frag \in Fragment /\ req.work \in Interval
  BY DEF Calls
<1>2. log[req.frag] \in Seq(Interval) /\ Append(log[req.frag], req.work) \in Seq(Interval)
  BY <1>1 DEF ServerInv
<1>3. [log EXCEPT ![req.frag] = Append(log[req.frag], req.work)] \in [Fragment -> Seq(Interval)]
  BY <1>2 DEF ServerInv
<1> QED
  BY <1>3 DEF Handle, ServerInv

\* The faults left can only become fewer.
LEMMA SpendTyped ==
  ASSUME faults \in [FaultKinds -> Nat], NEW kind \in FaultKinds, Spend(kind)
  PROVE  faults' \in [FaultKinds -> Nat]
BY DEF Spend

\* Whatever happens to the server or to an exchange, the model keeps its shape.
LEMMA ServerStep ==
  ASSUME ServerInv, ServerNext
  PROVE  ServerInv' /\ fragments' = fragments
<1> USE DEF Fragment
<1>0. fragments' = fragments
  BY DEF ServerNext, Serve, ServeLate, CallFails, OtherCommits, Save, ServerRestart
<1>1. CASE Serve
  <2>1. log' \in [Fragment -> Seq(Interval)] /\ revision' \in Nat /\ disk' = disk /\ commits' = commits
    BY <1>1, HandleTyped DEF Serve, ServerInv
  <2>2. PICK n \in Advice :
          call' = [call EXCEPT !.state = "answered", !.applied = Commits(call), !.model = log',
                               !.newRev = revision', !.steps = n]
    BY <1>1 DEF Serve
  <2>3. call' = [state |-> "answered", kind |-> call.kind, frag |-> call.frag, work |-> call.work,
                 basis |-> call.basis, rev |-> call.rev, applied |-> Commits(call), model |-> log',
                 newRev |-> revision', steps |-> n]
    BY <2>2 DEF ServerInv, Calls
  <2>4. Commits(call) \in BOOLEAN
    BY DEF Commits, Stale
  <2>5. call' \in Calls /\ call'.model = log'
    BY <2>1, <2>3, <2>4 DEF ServerInv, Calls
  <2> QED
    BY <1>0, <1>1, <2>1, <2>5 DEF Serve, ServerInv, Calls
<1>2. CASE ServeLate
  <2>1. PICK req \in late : Handle(req) /\ late' = late \ {req}
    BY <1>2 DEF ServeLate
  <2>2. log' \in [Fragment -> Seq(Interval)] /\ revision' \in Nat /\ disk' = disk /\ commits' = commits
    BY <2>1, HandleTyped DEF ServerInv
  <2> QED
    BY <1>0, <1>2, <2>1, <2>2 DEF ServeLate, ServerInv, Calls
<1>3. CASE CallFails
  <2>1. call' \in Calls /\ call'.state = "failed"
    BY <1>3 DEF CallFails, ServerInv, Calls
  <2>2. late' \subseteq Calls
    BY <1>0, <1>3 DEF CallFails, ServerInv, Calls
  <2>3. faults' \in [FaultKinds -> Nat]
    BY <1>3, SpendTyped DEF CallFails, ServerInv, FaultKinds
  <2> QED
    BY <1>0, <1>3, <2>1, <2>2, <2>3 DEF CallFails, ServerInv, Calls, server
<1>4. CASE OtherCommits
  <2>1. PICK f \in Fragment : log' = [log EXCEPT ![f] = Append(log[f], Other)]
    BY <1>4 DEF OtherCommits
  <2>. Other \in Interval /\ log[f] \in Seq(Interval)
    BY DEF ServerInv, Other, Interval
  <2>2. Append(log[f], Other) \in Seq(Interval)
    OBVIOUS
  <2>3. log' \in [Fragment -> Seq(Interval)]
    BY <2>1, <2>2 DEF ServerInv
  <2>4. commits' \in 0..MaxCommits /\ revision' \in Nat
    BY <1>4, FragmentServerTypes DEF OtherCommits, ServerInv
  <2> QED
    BY <1>0, <1>4, <2>3, <2>4 DEF OtherCommits, ServerInv, Calls
<1>5. CASE Save
  BY <1>0, <1>5 DEF Save, ServerInv, Calls
<1>6. CASE ServerRestart
  <2>1. call' \in Calls /\ (call'.state = "answered" => call' = call)
    BY <1>6 DEF ServerRestart, ServerInv, Calls
  <2>2. faults' \in [FaultKinds -> Nat]
    BY <1>6, SpendTyped DEF ServerRestart, ServerInv, FaultKinds
  <2> QED
    BY <1>0, <1>6, <2>1, <2>2 DEF ServerRestart, ServerInv, Calls
<1> QED
  BY <1>0, <1>1, <1>2, <1>3, <1>4, <1>5, <1>6 DEF ServerNext

-----------------------------------------------------------------------------
(* What a model has grown from, and whose work is in it. *)

LEMMA PrefixByElements ==
  ASSUME NEW S, NEW s \in Seq(S), NEW t \in Seq(S)
  PROVE  IsPrefix(s, t) <=> Len(s) <= Len(t) /\ \A i \in 1..Len(s) : s[i] = t[i]
<1>1. Len(s) \in Nat /\ Len(t) \in Nat
  OBVIOUS
<1>2. SubSeq(s, 1, Len(s)) = s
  BY SubSeqFull
<1>3. ASSUME Len(s) <= Len(t)
      PROVE  SubSeq(s, 1, Len(s)) = SubSeq(t, 1, Len(s)) <=> \A i \in 1..Len(s) : s[i] = t[i]
  <2>. DEFINE u == SubSeq(t, 1, Len(s))
  <2>1. \A i \in 1..Len(s) : i \in 1..Len(t)
    BY <1>1, <1>3
  <2>2. u \in Seq(S) /\ Len(u) = Len(s) /\ \A i \in 1..Len(s) : u[i] = t[i]
    BY <1>1, <1>3, <2>1
  <2>. HIDE DEF u
  <2>3. s = u <=> \A i \in 1..Len(s) : s[i] = u[i]
    BY <2>2, SeqEqual
  <2> QED
    BY <1>2, <2>2, <2>3 DEF u
<1> QED
  BY <1>3 DEF IsPrefix

LEMMA PrefixOfItself ==
  ASSUME NEW S, NEW s \in Seq(S) PROVE IsPrefix(s, s)
BY PrefixByElements

LEMMA PrefixOfAppend ==
  ASSUME NEW S, NEW s \in Seq(S), NEW x \in S PROVE IsPrefix(s, Append(s, x))
<1>1. Append(s, x) \in Seq(S) /\ Len(Append(s, x)) = Len(s) + 1 /\ \A i \in 1..Len(s) : Append(s, x)[i] = s[i]
  OBVIOUS
<1>2. Len(s) \in Nat
  OBVIOUS
<1>3. Len(s) <= Len(Append(s, x))
  BY <1>1, <1>2
<1> QED
  BY <1>1, <1>3, PrefixByElements

LEMMA PrefixOfPrefix ==
  ASSUME NEW S, NEW s \in Seq(S), NEW t \in Seq(S), NEW u \in Seq(S), IsPrefix(s, t), IsPrefix(t, u)
  PROVE  IsPrefix(s, u)
<1>1. Len(s) <= Len(t) /\ (\A i \in 1..Len(s) : s[i] = t[i]) /\ Len(t) <= Len(u) /\ \A i \in 1..Len(t) : t[i] = u[i]
  BY PrefixByElements
<1>2. Len(s) \in Nat /\ Len(t) \in Nat /\ Len(u) \in Nat
  OBVIOUS
<1>3. \A i \in 1..Len(s) : i \in 1..Len(t)
  BY <1>1, <1>2
<1>4. Len(s) <= Len(u) /\ \A i \in 1..Len(s) : s[i] = u[i]
  BY <1>1, <1>2, <1>3
<1> QED
  BY <1>4, PrefixByElements

\* What is in a fragment's model after an append to fragment f.
LEMMA Appended ==
  ASSUME ServerInv, NEW f \in Fragment, NEW w \in Interval, log' = [log EXCEPT ![f] = Append(log[f], w)],
         NEW g \in Fragment
  PROVE  /\ IsPrefix(log[g], log'[g])
         /\ \A i \in 1..Len(log'[g]) : \/ i \in 1..Len(log[g]) /\ log'[g][i] = log[g][i]
                                       \/ g = f /\ i = Len(log[g]) + 1 /\ log'[g][i] = w
<1>0. log \in [Fragment -> Seq(Interval)] /\ log[g] \in Seq(Interval)
  BY DEF ServerInv
<1>1. CASE g # f
  <2>1. log'[g] = log[g]
    BY <1>0, <1>1
  <2> QED
    BY <1>0, <2>1, PrefixOfItself
<1>2. CASE g = f
  <2>1. log'[g] = Append(log[g], w)
    BY <1>0, <1>2
  <2>2. /\ Len(Append(log[g], w)) = Len(log[g]) + 1
        /\ \A i \in 1..Len(log[g]) : Append(log[g], w)[i] = log[g][i]
        /\ Append(log[g], w)[Len(log[g]) + 1] = w
    BY <1>0, AppendProperties
  <2>3. Len(log[g]) \in Nat
    BY <1>0
  <2>4. \A i \in 1 .. (Len(log[g]) + 1) : i \in 1..Len(log[g]) \/ i = Len(log[g]) + 1
    BY <2>3
  <2>5. IsPrefix(log[g], Append(log[g], w))
    BY <1>0, PrefixOfAppend
  <2> QED
    BY <1>2, <2>1, <2>2, <2>4, <2>5
<1> QED
  BY <1>1, <1>2

\* What the server does to an exchange leaves what was asked.
LEMMA ServerCalls ==
  ASSUME ServerInv, ServerNext
  PROVE  /\ call' \in Calls /\ call'.kind = call.kind /\ call'.frag = call.frag /\ call'.work = call.work
         /\ call'.basis = call.basis
         /\ late' \subseteq late \cup Abandoned
         /\ call'.state = "answered" => call' = call \/ call'.model = log'
         /\ call'.state = "none" <=> call.state = "none"
         /\ Pushing' => Pushing
<1>0. call \in Calls
  BY DEF ServerInv
<1>1. call' \in Calls
  <2>1. ServerInv' /\ fragments' = fragments
    BY ServerStep
  <2> QED
    BY <2>1 DEF ServerInv, Calls, Fragment
<1>2. CASE Serve
  <2>1. PICK n \in Advice :
          call' = [call EXCEPT !.state = "answered", !.applied = Commits(call), !.model = log',
                               !.newRev = revision', !.steps = n]
    BY <1>2 DEF Serve
  <2>2. call' = [state |-> "answered", kind |-> call.kind, frag |-> call.frag, work |-> call.work,
                 basis |-> call.basis, rev |-> call.rev, applied |-> Commits(call), model |-> log',
                 newRev |-> revision', steps |-> n]
    BY <1>0, <2>1 DEF Calls
  <2> QED
    BY <1>1, <1>2, <2>2 DEF Serve, Pushing
<1>3. CASE call' = [call EXCEPT !.state = "failed"] /\ call.state = "running" /\ late' \subseteq late \cup Abandoned
  <2>1. call' = [state |-> "failed", kind |-> call.kind, frag |-> call.frag, work |-> call.work,
                 basis |-> call.basis, rev |-> call.rev, applied |-> call.applied, model |-> call.model,
                 newRev |-> call.newRev, steps |-> call.steps]
    BY <1>0, <1>3 DEF Calls
  <2> QED
    BY <1>1, <1>3, <2>1 DEF Pushing
<1>4. CASE call' = call /\ late' \subseteq late
  BY <1>1, <1>4 DEF Pushing
<1>5. CASE CallFails
  BY <1>3, <1>5 DEF CallFails, Abandoned
<1>6. CASE ServeLate \/ OtherCommits \/ Save
  BY <1>4, <1>6 DEF ServeLate, OtherCommits, Save
<1>7. CASE ServerRestart
  BY <1>3, <1>4, <1>7 DEF ServerRestart
<1> QED
  BY <1>2, <1>5, <1>6, <1>7 DEF ServerNext

\* Who is among the abandoned.
LEMMA AbandonedIsCall ==
  ASSUME NEW req \in Abandoned PROVE req = call /\ call.state = "running"
BY DEF Abandoned

\* What a handled request appends.
LEMMA HandleAppends ==
  ASSUME ServerInv, NEW req \in Calls, Handle(req)
  PROVE  /\ disk' = disk /\ req.frag \in Fragment /\ req.work \in Interval
         /\ \/ log' = log
            \/ req.kind = "push" /\ log' = [log EXCEPT ![req.frag] = Append(log[req.frag], req.work)]
BY DEF Handle, Commits, Calls

\* Unless it is restored, the server's model only grows.
LEMMA ServerGrows ==
  ASSUME ServerInv, Grown, ServerNext, faults'["server"] = faults["server"]
  PROVE  (\A f \in Fragment : IsPrefix(log[f], log'[f])) /\ Grown'
<1>0. /\ log \in [Fragment -> Seq(Interval)] /\ call \in Calls /\ late \subseteq Calls /\ Fragment' = Fragment
      /\ log' \in [Fragment -> Seq(Interval)] /\ faults \in [FaultKinds -> Nat]
  BY ServerStep DEF ServerInv, Fragment
<1>1. \A f \in Fragment : IsPrefix(log[f], log'[f])
  <2>1. CASE log' = log
    BY <1>0, <2>1, PrefixOfItself
  <2>a. ASSUME NEW f \in Fragment, NEW w \in Interval, log' = [log EXCEPT ![f] = Append(log[f], w)]
        PROVE  \A g \in Fragment : IsPrefix(log[g], log'[g])
    BY <2>a, Appended
  <2>2. ASSUME NEW req \in Calls, Handle(req) PROVE \A f \in Fragment : IsPrefix(log[f], log'[f])
    BY <2>1, <2>2, <2>a, HandleAppends
  <2>3. CASE Serve \/ ServeLate
    BY <1>0, <2>2, <2>3 DEF Serve, ServeLate
  <2>4. CASE OtherCommits
    <3>1. PICK f \in Fragment : log' = [log EXCEPT ![f] = Append(log[f], Other)]
      BY <2>4 DEF OtherCommits
    <3>2. Other \in Interval
      BY DEF Other, Interval
    <3> QED
      BY <2>a, <3>1, <3>2
  <2>5. CASE CallFails \/ Save
    BY <2>1, <2>5 DEF CallFails, Save, server
  <2>6. CASE ServerRestart
    <3>1. "server" \in FaultKinds
      BY DEF FaultKinds
    <3>2. faults'["server"] = faults["server"] - 1 /\ faults["server"] \in Nat
      BY <1>0, <2>6, <3>1 DEF ServerRestart, Spend
    <3>3. \A n \in Nat : n # n - 1
      OBVIOUS
    <3> QED
      BY <3>2, <3>3
  <2> QED
    BY <2>3, <2>4, <2>5, <2>6 DEF ServerNext
<1>2. ASSUME NEW s \in Seq(Interval), NEW f \in Fragment, IsPrefix(s, log[f]) PROVE IsPrefix(s, log'[f])
  BY <1>0, <1>1, <1>2, PrefixOfPrefix
<1>3. ASSUME NEW req \in late' \cup {call'}, req.kind = "push" PROVE IsPrefix(req.basis, log'[req.frag])
  <2>1. PICK old \in late \cup {call} : old.kind = req.kind /\ old.frag = req.frag /\ old.basis = req.basis
    <3>1. CASE req \in late'
      BY <3>1, ServerCalls, AbandonedIsCall
    <3>2. CASE req = call'
      BY <3>2, ServerCalls
    <3> QED
      BY <3>1, <3>2
  <2>2. IsPrefix(req.basis, log[req.frag]) /\ req.frag \in Fragment /\ req.basis \in Seq(Interval)
    BY <1>0, <1>3, <2>1 DEF Grown, Calls
  <2> QED
    BY <1>2, <2>2
<1>4. ASSUME call'.state = "answered" PROVE \A f \in Fragment : IsPrefix(call'.model[f], log'[f])
  <2>1. CASE call' = call
    BY <1>2, <1>4, <2>1 DEF Grown, ServerInv
  <2>2. CASE call'.model = log'
    BY <1>0, <2>2, PrefixOfItself
  <2> QED
    BY <1>4, <2>1, <2>2, ServerCalls
<1> QED
  BY <1>0, <1>1, <1>3, <1>4 DEF Grown

-----------------------------------------------------------------------------
(* Whose work is in a model, and how often. *)

\* What a step of the server adds to the model, and to what is late.
LEMMA ServerMoves ==
  ASSUME ServerInv, ServerNext, \A f \in Fragment : IsPrefix(disk.log[f], log[f])
  PROVE  /\ \A f \in Fragment : \A i \in 1..Len(log'[f]) :
              \/ i \in 1..Len(log[f]) /\ log'[f][i] = log[f][i]
              \/ /\ i = Len(log[f]) + 1
                 /\ \/ log'[f][i] = Other
                    \/ Pushing /\ ~Pushing' /\ call.frag = f /\ log'[f][i] = call.work
                    \/ \E req \in late \ late' : req.kind = "push" /\ req.frag = f /\ log'[f][i] = req.work
         /\ \A f \in Fragment : IsPrefix(disk'.log[f], log'[f])
         /\ \A req \in late' : req \in late \/ (req = call /\ call.state = "running" /\ ~Pushing' /\ UNCHANGED log)
<1>0. /\ log \in [Fragment -> Seq(Interval)] /\ disk.log \in [Fragment -> Seq(Interval)]
      /\ call \in Calls /\ late \subseteq Calls /\ log' \in [Fragment -> Seq(Interval)]
  BY ServerStep DEF ServerInv, Fragment
<1>. DEFINE Entry(f, i) ==
              \/ i \in 1..Len(log[f]) /\ log'[f][i] = log[f][i]
              \/ /\ i = Len(log[f]) + 1
                 /\ \/ log'[f][i] = Other
                    \/ Pushing /\ ~Pushing' /\ call.frag = f /\ log'[f][i] = call.work
                    \/ \E req \in late \ late' : req.kind = "push" /\ req.frag = f /\ log'[f][i] = req.work
            Entries == \A f \in Fragment : \A i \in 1..Len(log'[f]) : Entry(f, i)
            Kept == \A f \in Fragment : IsPrefix(disk'.log[f], log'[f])
            Left == \A req \in late' : req \in late \/ (req = call /\ call.state = "running" /\ ~Pushing' /\ UNCHANGED log)
<1>1. ASSUME UNCHANGED <<log, disk>> PROVE Entries /\ Kept
  BY <1>1
<1>2. ASSUME NEW f \in Fragment, NEW w \in Interval, log' = [log EXCEPT ![f] = Append(log[f], w)], disk' = disk,
             \/ w = Other
             \/ Pushing /\ ~Pushing' /\ call.frag = f /\ w = call.work
             \/ \E req \in late \ late' : req.kind = "push" /\ req.frag = f /\ w = req.work
      PROVE  Entries /\ Kept
  <2>1. ASSUME NEW g \in Fragment, NEW i \in 1..Len(log'[g])
        PROVE  \/ i \in 1..Len(log[g]) /\ log'[g][i] = log[g][i]
               \/ g = f /\ i = Len(log[g]) + 1 /\ log'[g][i] = w
    BY <1>2, Appended
  <2>2. ASSUME NEW g \in Fragment, NEW i \in 1..Len(log'[g]) PROVE Entry(g, i)
    BY <1>2, <2>1
  <2>3. ASSUME NEW g \in Fragment PROVE IsPrefix(disk'.log[g], log'[g])
    <3>1. IsPrefix(log[g], log'[g])
      BY <1>2, Appended
    <3> QED
      BY <1>0, <1>2, <3>1, PrefixOfPrefix
  <2> QED
    BY <2>2, <2>3
<1>3. CASE Serve
  <2>1. Left /\ ~Pushing'
    <3>1. late' = late /\ call'.state = "answered"
      BY <1>0, <1>3 DEF Serve, Calls
    <3> QED
      BY <3>1 DEF Pushing
  <2>2. Entries /\ Kept
    <3>1. CASE log' = log
      BY <1>0, <1>1, <1>3, <3>1, HandleAppends DEF Serve
    <3>2. CASE call.kind = "push" /\ log' = [log EXCEPT ![call.frag] = Append(log[call.frag], call.work)]
      <4>1. Pushing /\ disk' = disk /\ call.frag \in Fragment /\ call.work \in Interval
        BY <1>0, <1>3, <3>2, HandleAppends DEF Serve, Pushing
      <4> QED
        BY <1>2, <2>1, <3>2, <4>1
    <3> QED
      BY <1>0, <1>3, <3>1, <3>2, HandleAppends DEF Serve
  <2> QED
    BY <2>1, <2>2
<1>4. CASE ServeLate
  <2>1. PICK req \in late : Handle(req) /\ late' = late \ {req}
    BY <1>4 DEF ServeLate
  <2>2. Left
    BY <2>1
  <2>3. /\ disk' = disk /\ req.frag \in Fragment /\ req.work \in Interval
        /\ \/ log' = log
           \/ req.kind = "push" /\ log' = [log EXCEPT ![req.frag] = Append(log[req.frag], req.work)]
    BY <1>0, <2>1, HandleAppends
  <2>4. Entries /\ Kept
    <3>1. CASE log' = log
      BY <1>1, <2>3, <3>1
    <3>2. CASE req.kind = "push" /\ log' = [log EXCEPT ![req.frag] = Append(log[req.frag], req.work)]
      <4>1. req \in late \ late'
        BY <2>1
      <4> QED
        BY <1>2, <2>3, <3>2, <4>1
    <3> QED
      BY <2>3, <3>1, <3>2
  <2> QED
    BY <2>2, <2>4
<1>5. CASE CallFails
  <2>1. UNCHANGED <<log, disk>> /\ late' \in {late, late \cup {call}} /\ call.state = "running"
    BY <1>5 DEF CallFails, server
  <2>2. ~Pushing'
    BY <1>0, <1>5 DEF CallFails, Pushing, Calls
  <2> QED
    BY <1>1, <2>1, <2>2
<1>6. CASE OtherCommits
  <2>1. PICK f \in Fragment : log' = [log EXCEPT ![f] = Append(log[f], Other)]
    BY <1>6 DEF OtherCommits
  <2>2. Other \in Interval /\ disk' = disk /\ late' = late
    BY <1>6 DEF OtherCommits, Other, Interval
  <2> QED
    BY <1>2, <2>1, <2>2
<1>7. CASE Save
  <2>1. log' = log /\ disk'.log = log /\ late' = late
    BY <1>7 DEF Save
  <2> QED
    BY <1>0, <2>1, PrefixOfItself
<1>8. CASE ServerRestart
  <2>1. log' = disk.log /\ disk' = disk /\ late' = {}
    BY <1>8 DEF ServerRestart
  <2>2. ASSUME NEW f \in Fragment, NEW i \in 1..Len(log'[f]) PROVE i \in 1..Len(log[f]) /\ log'[f][i] = log[f][i]
    <3>1. Len(log'[f]) <= Len(log[f]) /\ \A k \in 1..Len(log'[f]) : log'[f][k] = log[f][k]
      BY <1>0, <2>1, PrefixByElements
    <3>2. Len(log[f]) \in Nat /\ Len(log'[f]) \in Nat
      BY <1>0
    <3>3. ASSUME NEW a \in Nat, NEW b \in Nat, a <= b, NEW k \in 1..a PROVE k \in 1..b
      BY <3>3
    <3> QED
      BY <3>1, <3>2, <3>3
  <2>3. Kept
    BY <1>0, <2>1, PrefixOfItself
  <2> QED
    BY <2>1, <2>2, <2>3
<1> QED
  BY <1>3, <1>4, <1>5, <1>6, <1>7, <1>8 DEF ServerNext

\* Work that was done by a step was done by a later one.
LEMMA DoneLater ==
  ASSUME ServerInv, NEW f \in Fragment, NEW s \in Nat, NEW t \in Nat, s <= t, DoneBy(f, s)
  PROVE  DoneBy(f, t)
<1>1. \A i \in 1..Len(log[f]) : log[f][i].to \in Nat
  <2>1. log[f] \in Seq(Interval)
    BY DEF ServerInv
  <2>2. \A i \in 1..Len(log[f]) : log[f][i] \in Interval
    BY <2>1
  <2> QED
    BY <2>2 DEF Interval
<1>2. \A req \in late : req.work.to \in Nat
  BY DEF ServerInv, Calls, Interval
<1> QED
  BY <1>1, <1>2 DEF DoneBy

\* What was done by a step stays so, unless more work arrives.
LEMMA ServerDone ==
  ASSUME ServerInv, ServerNext, ApartInv, NEW f \in Fragment, NEW s \in Nat, DoneBy(f, s),
         Pushing /\ ~Pushing' /\ call.frag = f => call.work.to <= s
  PROVE  DoneBy(f, s)'
<1>0. \A g \in Fragment : IsPrefix(disk.log[g], log[g])
  BY DEF ApartInv
<1>1. ASSUME NEW i \in 1..Len(log'[f]) PROVE log'[f][i].to <= s
  <2>1. \/ i \in 1..Len(log[f]) /\ log'[f][i] = log[f][i]
        \/ log'[f][i] = Other
        \/ Pushing /\ ~Pushing' /\ call.frag = f /\ log'[f][i] = call.work
        \/ \E req \in late : req.kind = "push" /\ req.frag = f /\ log'[f][i] = req.work
    BY <1>0, ServerMoves
  <2> QED
    BY <2>1 DEF DoneBy, Other
<1>2. ASSUME NEW req \in late', req.kind = "push", req.frag = f PROVE req.work.to <= s
  <2>1. req \in late \/ (req = call /\ call.state = "running" /\ ~Pushing')
    BY <1>0, ServerMoves
  <2> QED
    BY <1>2, <2>1 DEF DoneBy, Pushing
<1> QED
  BY <1>1, <1>2 DEF DoneBy

LEMMA DisjointEitherWay ==
  ASSUME NEW a \in Interval, NEW b \in Interval
  PROVE  /\ Disjoint(a, b) <=> Disjoint(b, a)
         /\ Disjoint(a, Other)
         /\ a.to <= b.from => Disjoint(a, b) /\ Disjoint(b, a)
BY DEF Disjoint, Other, Interval

\* No step of the server makes work count twice.
LEMMA ServerApart ==
  ASSUME ServerInv, ServerNext, ApartInv
  PROVE  ApartInv'
<1>0. /\ log \in [Fragment -> Seq(Interval)] /\ log' \in [Fragment -> Seq(Interval)]
      /\ call \in Calls /\ late \subseteq Calls /\ Fragment' = Fragment
  BY ServerStep DEF ServerInv, Fragment
<1>c. call.frag \in Fragment /\ call.work \in Interval /\ \A req \in late : req.frag \in Fragment /\ req.work \in Interval
  BY <1>0 DEF Calls
<1>e. \A f \in Fragment : \A i \in 1..Len(log[f]) : log[f][i] \in Interval
  BY <1>0
<1>o. Other \in Interval
  BY DEF Other, Interval
<1>a. /\ \A f \in Fragment : \A i, j \in 1..Len(log[f]) : i # j => Disjoint(log[f][i], log[f][j])
      /\ \A f \in Fragment : IsPrefix(disk.log[f], log[f])
      /\ \A req \in late : req.kind = "push" => \A i \in 1..Len(log[req.frag]) : Disjoint(req.work, log[req.frag][i])
      /\ \A req, other \in late : req.kind = "push" /\ other.kind = "push" /\ other.frag = req.frag /\ other # req
            => Disjoint(req.work, other.work)
      /\ Pushing => DoneBy(call.frag, call.work.from)
  BY DEF ApartInv
<1>m. /\ \A f \in Fragment : \A i \in 1..Len(log'[f]) :
              \/ i \in 1..Len(log[f]) /\ log'[f][i] = log[f][i]
              \/ /\ i = Len(log[f]) + 1
                 /\ \/ log'[f][i] = Other
                    \/ Pushing /\ ~Pushing' /\ call.frag = f /\ log'[f][i] = call.work
                    \/ \E req \in late \ late' : req.kind = "push" /\ req.frag = f /\ log'[f][i] = req.work
      /\ \A f \in Fragment : IsPrefix(disk'.log[f], log'[f])
      /\ \A req \in late' : req \in late \/ (req = call /\ call.state = "running" /\ ~Pushing' /\ UNCHANGED log)
  BY <1>a, ServerMoves
<1>d. ASSUME Pushing
      PROVE  /\ \A i \in 1..Len(log[call.frag]) : Disjoint(log[call.frag][i], call.work) /\ Disjoint(call.work, log[call.frag][i])
             /\ \A req \in late : req.kind = "push" /\ req.frag = call.frag
                  => Disjoint(req.work, call.work) /\ Disjoint(call.work, req.work)
  BY <1>a, <1>c, <1>d, <1>e, DisjointEitherWay DEF DoneBy
\* An old entry is apart from a new one.
<1>1. ASSUME NEW f \in Fragment, NEW i \in 1..Len(log'[f]), NEW j \in 1..Len(log'[f]),
             i \in 1..Len(log[f]), log'[f][i] = log[f][i], j = Len(log[f]) + 1
      PROVE  Disjoint(log'[f][i], log'[f][j]) /\ Disjoint(log'[f][j], log'[f][i])
  <2>1. j \notin 1..Len(log[f])
    <3>1. Len(log[f]) \in Nat
      BY <1>0
    <3>2. \A n \in Nat : n + 1 \notin 1..n
      OBVIOUS
    <3> QED
      BY <1>1, <3>1, <3>2
  <2>2. CASE log'[f][j] = Other
    BY <1>e, <1>o, <1>1, <2>2, DisjointEitherWay
  <2>3. CASE Pushing /\ call.frag = f /\ log'[f][j] = call.work
    BY <1>d, <1>1, <2>3
  <2>4. ASSUME NEW req \in late, req.kind = "push", req.frag = f, log'[f][j] = req.work
        PROVE  Disjoint(log'[f][i], log'[f][j]) /\ Disjoint(log'[f][j], log'[f][i])
    BY <1>a, <1>c, <1>e, <1>1, <2>4, DisjointEitherWay
  <2> QED
    BY <1>m, <1>1, <2>1, <2>2, <2>3, <2>4
<1>2. ASSUME NEW f \in Fragment, NEW i \in 1..Len(log'[f]), NEW j \in 1..Len(log'[f]), i # j
      PROVE  Disjoint(log'[f][i], log'[f][j])
  <2>1. CASE /\ i \in 1..Len(log[f]) /\ log'[f][i] = log[f][i]
             /\ j \in 1..Len(log[f]) /\ log'[f][j] = log[f][j]
    BY <1>a, <1>2, <2>1
  <2>2. CASE /\ i \in 1..Len(log[f]) /\ log'[f][i] = log[f][i] /\ j = Len(log[f]) + 1
    BY <1>1, <2>2
  <2>3. CASE /\ j \in 1..Len(log[f]) /\ log'[f][j] = log[f][j] /\ i = Len(log[f]) + 1
    BY <1>1, <2>3
  <2> QED
    BY <1>m, <1>2, <2>1, <2>2, <2>3
<1>3. ASSUME NEW req \in late', req.kind = "push", NEW i \in 1..Len(log'[req.frag])
      PROVE  Disjoint(req.work, log'[req.frag][i])
  <2>1. CASE req \in late
    <3>1. CASE i \in 1..Len(log[req.frag]) /\ log'[req.frag][i] = log[req.frag][i]
      BY <1>a, <1>3, <2>1, <3>1
    <3>2. CASE log'[req.frag][i] = Other
      BY <1>c, <2>1, <3>2, DisjointEitherWay
    <3>3. CASE Pushing /\ call.frag = req.frag /\ log'[req.frag][i] = call.work
      BY <1>d, <1>3, <2>1, <3>3
    <3>4. ASSUME NEW gone \in late \ late', gone.kind = "push", gone.frag = req.frag, log'[req.frag][i] = gone.work
          PROVE  Disjoint(req.work, log'[req.frag][i])
      BY <1>a, <1>3, <2>1, <3>4
    <3> QED
      BY <1>c, <1>m, <2>1, <3>1, <3>2, <3>3, <3>4
  <2>2. CASE req = call /\ call.state = "running" /\ UNCHANGED log
    BY <1>d, <1>3, <2>2 DEF Pushing
  <2> QED
    BY <1>m, <2>1, <2>2
<1>4. ASSUME NEW req \in late', NEW other \in late', req.kind = "push", other.kind = "push", other.frag = req.frag, other # req
      PROVE  Disjoint(req.work, other.work)
  <2>1. CASE req \in late /\ other \in late
    BY <1>a, <1>4, <2>1
  <2>2. CASE req \in late /\ other = call /\ call.state = "running"
    BY <1>d, <1>4, <2>2 DEF Pushing
  <2>3. CASE other \in late /\ req = call /\ call.state = "running"
    BY <1>d, <1>4, <2>3 DEF Pushing
  <2> QED
    BY <1>m, <1>4, <2>1, <2>2, <2>3
<1>5. ASSUME Pushing' PROVE DoneBy(call.frag, call.work.from)' /\ call'.frag = call.frag /\ call'.work = call.work
  <2>1. Pushing /\ call'.frag = call.frag /\ call'.work = call.work
    BY <1>5, ServerCalls
  <2>2. call.work.from \in Nat /\ DoneBy(call.frag, call.work.from)
    BY <1>a, <1>c, <2>1 DEF Interval
  <2>. DEFINE f == call.frag
              s == call.work.from
  <2>3. f \in Fragment /\ s \in Nat /\ DoneBy(f, s) /\ f' = f /\ s' = s
    BY <1>c, <2>1, <2>2
  <2>4. ASSUME NEW g \in Fragment, NEW t \in Nat, DoneBy(g, t) PROVE DoneBy(g, t)'
    BY <1>5, <2>4, ServerDone
  <2>5. (\A i \in 1..Len(log'[f]) : log'[f][i].to <= s) /\ \A req \in late' : req.kind = "push" /\ req.frag = f => req.work.to <= s
    BY <2>3, <2>4 DEF DoneBy
  <2> QED
    BY <2>1, <2>5 DEF DoneBy
<1>6. ASSUME Pushing' PROVE (\A i \in 1..Len(log'[call'.frag]) : log'[call'.frag][i].to <= call'.work.from)
                            /\ \A req \in late' : req.kind = "push" /\ req.frag = call'.frag => req.work.to <= call'.work.from
  BY <1>5, <1>6 DEF DoneBy
<1> QED
  BY <1>0, <1>m, <1>2, <1>3, <1>4, <1>6 DEF ApartInv, DoneBy

\* What was done by a step stays so when a client gives up an exchange.
LEMMA ClientDone ==
  ASSUME UNCHANGED log, NEW f, NEW s \in Nat, DoneBy(f, s),
         late' \subseteq late \/ (late' \subseteq late \cup Abandoned /\ (Pushing /\ call.frag = f => call.work.to <= s))
  PROVE  DoneBy(f, s)'
<1>1. ASSUME NEW req \in late', req.kind = "push", req.frag = f PROVE req.work.to <= s
  <2>1. CASE req \in late
    BY <1>1, <2>1 DEF DoneBy
  <2>2. CASE req \notin late
    BY <1>1, <2>2, AbandonedIsCall DEF Pushing
  <2> QED
    BY <2>1, <2>2
<1> QED
  BY <1>1 DEF DoneBy

\* Nor does a client that pushes what no earlier push of the fragment carries.
LEMMA ClientApart ==
  ASSUME ServerInv, ApartInv, UNCHANGED <<fragments, server>>,
         late' = late \/ (late' \subseteq late \cup Abandoned /\ ~Pushing'),
         Pushing' => call' = call \/ DoneBy(call.frag, call.work.from)'
  PROVE  ApartInv'
<1>0. /\ log' = log /\ disk' = disk /\ Fragment' = Fragment /\ log \in [Fragment -> Seq(Interval)]
      /\ call \in Calls /\ late \subseteq Calls
  BY DEF server, Fragment, ServerInv
<1>c. call.frag \in Fragment /\ call.work \in Interval /\ \A req \in late : req.frag \in Fragment /\ req.work \in Interval
  BY <1>0 DEF Calls
<1>e. \A f \in Fragment : \A i \in 1..Len(log[f]) : log[f][i] \in Interval
  BY <1>0
<1>a. /\ \A req \in late : req.kind = "push" => \A i \in 1..Len(log[req.frag]) : Disjoint(req.work, log[req.frag][i])
      /\ \A req, other \in late : req.kind = "push" /\ other.kind = "push" /\ other.frag = req.frag /\ other # req
            => Disjoint(req.work, other.work)
      /\ Pushing => DoneBy(call.frag, call.work.from)
  BY DEF ApartInv
<1>d. ASSUME Pushing
      PROVE  /\ \A i \in 1..Len(log[call.frag]) : Disjoint(call.work, log[call.frag][i])
             /\ \A req \in late : req.kind = "push" /\ req.frag = call.frag
                  => Disjoint(req.work, call.work) /\ Disjoint(call.work, req.work)
  BY <1>a, <1>c, <1>d, <1>e, DisjointEitherWay DEF DoneBy
<1>1. ASSUME NEW req \in late' PROVE req \in late \/ (req = call /\ call.state = "running")
  BY <1>1, AbandonedIsCall
<1>2. ASSUME NEW req \in late', req.kind = "push", NEW i \in 1..Len(log[req.frag])
      PROVE  Disjoint(req.work, log[req.frag][i])
  <2>1. CASE req \in late
    BY <1>a, <1>2, <2>1
  <2>2. CASE req = call /\ call.state = "running"
    BY <1>d, <1>2, <2>2 DEF Pushing
  <2> QED
    BY <1>1, <2>1, <2>2
<1>3. ASSUME NEW req \in late', NEW other \in late', req.kind = "push", other.kind = "push", other.frag = req.frag, other # req
      PROVE  Disjoint(req.work, other.work)
  <2>1. CASE req \in late /\ other \in late
    BY <1>a, <1>3, <2>1
  <2>2. CASE req \in late /\ other = call /\ call.state = "running"
    BY <1>d, <1>3, <2>2 DEF Pushing
  <2>3. CASE other \in late /\ req = call /\ call.state = "running"
    BY <1>d, <1>3, <2>3 DEF Pushing
  <2> QED
    BY <1>1, <1>3, <2>1, <2>2, <2>3
<1>4. Pushing' => DoneBy(call.frag, call.work.from)'
  <2>1. CASE Pushing' /\ call' = call
    <3>1. Pushing /\ late' = late
      BY <2>1 DEF Pushing
    <3> QED
      BY <1>0, <1>a, <2>1, <3>1 DEF DoneBy
  <2> QED
    BY <2>1
<1> QED
  BY <1>0, <1>2, <1>3, <1>4 DEF ApartInv

\* Nor does a client take from what was there when its exchanges began.
LEMMA ClientGrown ==
  ASSUME ServerInv, Grown, UNCHANGED <<fragments, log>>, late' \subseteq late \cup Abandoned,
         call'.kind = "push" => call' = call \/ IsPrefix(call'.basis, log[call'.frag]),
         call'.state = "answered" => call' = call
  PROVE  Grown'
<1>1. ASSUME NEW req \in late' \cup {call'}, req.kind = "push" PROVE IsPrefix(req.basis, log[req.frag])
  <2>1. CASE req \in late \cup {call}
    BY <1>1, <2>1 DEF Grown
  <2>2. CASE req = call'
    BY <1>1, <2>1, <2>2
  <2>3. req \in late \cup {call} \cup {call'}
    BY <1>1, AbandonedIsCall
  <2> QED
    BY <2>1, <2>2, <2>3
<1> QED
  BY <1>1 DEF Grown, Fragment

\* A step of the server spends no restore, or one.
LEMMA RestoresSpent ==
  ASSUME ServerNext, faults \in [FaultKinds -> Nat]
  PROVE  \/ faults'["server"] = faults["server"]
         \/ faults'["server"] < faults["server"] /\ faults'["server"] \in Nat
<1>1. CASE CallFails \/ ServerRestart
  <2>1. PICK kind \in FaultKinds : faults[kind] > 0 /\ faults' = [faults EXCEPT ![kind] = faults[kind] - 1]
    BY <1>1 DEF CallFails, ServerRestart, Spend, FaultKinds
  <2>2. faults'["server"] = IF kind = "server" THEN faults["server"] - 1 ELSE faults["server"]
    BY <2>1 DEF FaultKinds
  <2>3. faults["server"] \in Nat
    BY DEF FaultKinds
  <2> QED
    BY <2>1, <2>2, <2>3
<1>2. CASE UNCHANGED faults
  BY <1>2
<1> QED
  BY <1>1, <1>2 DEF ServerNext, Serve, ServeLate, OtherCommits, Save

\* What is in the server's model once is counted once.
LEMMA ApartCountsOnce ==
  ASSUME ServerInv, ApartInv PROVE CountedOnce
<1>1. \A f \in Fragment : DOMAIN log[f] = 1..Len(log[f])
  BY DEF ServerInv
<1> QED
  BY <1>1 DEF ApartInv, CountedOnce

\* Nothing has been pushed to a new server.
LEMMA NothingPushed ==
  ASSUME log = [f \in Fragment |-> <<>>], disk.log = log, late = {}, call = NoCall
  PROVE  /\ ApartInv /\ Grown /\ call.kind = "pull" /\ call.state = "none"
         /\ \A f \in Fragment : \A s : DoneBy(f, s)
<1>1. \A f \in Fragment : log[f] = <<>> /\ Len(log[f]) = 0
  OBVIOUS
<1>2. call.kind = "pull" /\ call.state = "none"
  BY DEF NoCall
<1>3. \A f \in Fragment : IsPrefix(disk.log[f], log[f])
  <2>1. <<>> \in Seq(Interval)
    OBVIOUS
  <2> QED
    BY <1>1, <2>1, PrefixOfItself
<1>4. \A f \in Fragment : 1..Len(log[f]) = {}
  BY <1>1
<1> QED
  BY <1>2, <1>3, <1>4 DEF ApartInv, Grown, DoneBy, Pushing

-----------------------------------------------------------------------------
(* The island: its exchange. *)

LEMMA IslandConstants ==
  /\ Lead \in Ranks /\ SyncEvery \in Nat \ {0} /\ MaxSteps \in Nat \ {0}
BY FragmentAssumption

\* What the client does to its exchange keeps the server's invariant.
LEMMA ClientStep ==
  ASSUME ServerInv, UNCHANGED <<fragments, server>>, call' \in Calls, late' \subseteq Calls,
         call'.state = "answered" => call' = call, faults' \in [FaultKinds -> Nat]
  PROVE  ServerInv'
BY DEF ServerInv, Calls, Fragment, server

\* The requests an island leaves behind are requests.
LEMMA AbandonedTyped ==
  ASSUME ServerInv PROVE late \cup Abandoned \subseteq Calls
BY DEF ServerInv, Abandoned

LEMMA NewPull ==
  ASSUME NEW c \in Calls, NEW n \in Nat, NEW d, d = [c EXCEPT !.state = "running", !.rev = n]
  PROVE  d \in Calls /\ d.state = "running"
BY DEF Calls

\* Every step of an island keeps the server's invariant.
LEMMA IslandServer ==
  ASSUME IslandInv, [Next]_vars
  PROVE  ServerInv' /\ fragments' = fragments
<1> USE IslandConstants DEF IslandInv
<1>0. faults \in [FaultKinds -> Nat] /\ call \in Calls /\ late \subseteq Calls
  BY DEF ServerInv
<1>1. NoCall \in Calls /\ NoCall.state = "none"
  <2>1. fragments \in Nat \ {0}
    BY FragmentServerTypes DEF ServerInv
  <2> QED
    BY <2>1, NoCallTyped DEF NoCall
<1>2. late \cup Abandoned \subseteq Calls
  BY AbandonedTyped
<1>3. CASE GateFails
  <2>1. faults' \in [FaultKinds -> Nat]
    BY <1>0, <1>3, SpendTyped DEF GateFails, FaultKinds
  <2> QED
    BY <1>0, <1>1, <1>2, <1>3, <2>1, ClientStep DEF GateFails
<1>4. ASSUME NEW r \in Ranks, Exit(r) PROVE ServerInv' /\ fragments' = fragments
  BY <1>0, <1>1, <1>2, <1>4, ClientStep DEF Exit
<1>5. CASE Join
  BY <1>0, <1>1, <1>5, ClientStep DEF Join
<1>6. CASE AdoptFragment
  BY <1>0, <1>1, <1>6, ClientStep DEF AdoptFragment
<1>7. CASE AdoptAll
  BY <1>0, <1>1, <1>7, ClientStep DEF AdoptAll
<1>8. CASE Pull
  <2>1. call' = [NoCall EXCEPT !.state = "running", !.rev = baseRev] /\ baseRev \in Nat
    BY <1>8 DEF Pull, EqualInv
  <2>2. call' \in Calls /\ call'.state = "running"
    BY <1>1, <2>1, NewPull
  <2> QED
    BY <1>0, <1>8, <2>2, ClientStep DEF Pull
<1>9. CASE Answered
  BY <1>0, <1>1, <1>9, ClientStep DEF Answered
<1>10. CASE Gather
  <2>1. fragIdx[Lead] \in Fragment /\ baseline[fragIdx[Lead]] \in Seq(Interval) /\ baseRev \in Nat
    BY DEF EqualInv
  <2>2. [from |-> shard[Lead][fragIdx[Lead]].since, to |-> trained[Lead]] \in Interval
    BY <2>1 DEF EqualInv, Interval
  <2>3. call' = [state |-> "running", kind |-> "push", frag |-> fragIdx[Lead],
                 work |-> [from |-> shard[Lead][fragIdx[Lead]].since, to |-> trained[Lead]],
                 basis |-> baseline[fragIdx[Lead]], rev |-> baseRev, applied |-> NoCall.applied,
                 model |-> NoCall.model, newRev |-> NoCall.newRev, steps |-> NoCall.steps]
    BY <1>1, <1>10 DEF Gather, Calls
  <2>4. call' \in Calls /\ call'.state = "running"
    BY <1>1, <2>1, <2>2, <2>3 DEF Calls
  <2> QED
    BY <1>0, <1>10, <2>4, ClientStep DEF Gather
<1>11. CASE UNCHANGED <<fragments, call, late, server, faults>>
  BY <1>0, <1>11, ClientStep
<1>12. CASE ServerNext
  BY <1>12, ServerStep
<1>13. CASE Train \/ PassGate \/ Decide \/ BroadcastOut \/ BroadcastOutcome \/ UNCHANGED vars
  BY <1>11, <1>13 DEF Train, PassGate, Decide, BroadcastOut, BroadcastOutcome, vars
<1>14. ASSUME NEW r \in Ranks, CollectiveAborts(r) PROVE ServerInv' /\ fragments' = fragments
  BY <1>11, <1>14 DEF CollectiveAborts
<1>15. UNCHANGED fragments
  BY <1>12, ServerStep DEF Next, LeadStep, Collective, GateFails, Exit, Join, AdoptFragment, AdoptAll, Pull,
     Answered, Gather, Train, PassGate, Decide, BroadcastOut, BroadcastOutcome, CollectiveAborts, vars
<1> QED
  BY <1>3, <1>4, <1>5, <1>6, <1>7, <1>8, <1>9, <1>10, <1>12, <1>13, <1>14, <1>15 DEF Next, LeadStep, Collective

-----------------------------------------------------------------------------
(* The island: where its ranks are. *)

\* With equal counters, the ranks take the same turn in a window.
LEMMA WindowsAlike ==
  ASSUME EqualInv, NEW r \in Ranks
  PROVE  WindowLength(r) = WindowLength(Lead) /\ localStep[r] = localStep[Lead]
BY DEF EqualInv, WindowLength

LEMMA IslandPlaces ==
  ASSUME IslandInv, [Next]_vars
  PROVE  PlaceInv'
<1> USE IslandConstants DEF IslandInv
<1> USE DEF Phases, Meeting, Alone, Meet, Goto
<1>0. /\ pc \in [Ranks -> Phases]
      /\ \A r \in Ranks \ {Lead} : pc[r] \notin Alone
      /\ \/ \A r \in Ranks : pc[r] \in {"act", "lost"}
         \/ \A r \in Ranks : pc[r] \in {"train", "left"}
         \/ \A r \in Ranks : pc[r] \notin {"left", "lost"} /\ Partner(pc[r]) = Partner(pc[Lead])
  BY DEF PlaceInv
<1>1. CASE Train
  <2>1. \A r \in Ranks : localStep[r] + 1 < WindowLength(r) <=> localStep[Lead] + 1 < WindowLength(Lead)
    BY WindowsAlike
  <2>2. \/ pc' = [r \in Ranks |-> "train"]
        \/ pc' = [r \in Ranks |-> IF r = Lead THEN "gate" ELSE "act"]
    <3>1. CASE localStep[Lead] + 1 < WindowLength(Lead)
      BY <1>1, <2>1, <3>1 DEF Train
    <3>2. CASE ~(localStep[Lead] + 1 < WindowLength(Lead))
      BY <1>1, <2>1, <3>2 DEF Train
    <3> QED
      BY <3>1, <3>2
  <2> QED
    BY <2>2 DEF PlaceInv, Partner
<1>2. CASE PassGate
  BY <1>0, <1>2 DEF PassGate, PlaceInv, Partner
<1>3. CASE GateFails
  BY <1>0, <1>3 DEF GateFails, PlaceInv, Partner
<1>4. ASSUME NEW r \in Ranks, CollectiveAborts(r) PROVE PlaceInv'
  BY <1>0, <1>4 DEF CollectiveAborts, PlaceInv, Partner
<1>5. ASSUME NEW r \in Ranks, Exit(r) PROVE PlaceInv'
  BY <1>0, <1>5 DEF Exit, PlaceInv, Partner
<1>6. CASE Decide
  <2>1. PICK act \in Actions : pc' = [r \in Ranks |-> AfterAct(r, act)]
    BY <1>6 DEF Decide
  <2>2. act \in {"skip", "sync", "resync"}
    BY DEF Actions
  <2> QED
    BY <2>1, <2>2 DEF PlaceInv, Partner, AfterAct
<1>7. CASE Join
  BY <1>0, <1>7 DEF Join, PlaceInv, Partner
<1>8. CASE BroadcastOut
  <2>1. words[Lead].out \in {"none", "adopt", "fail"}
    BY DEF WordsInv
  <2>2. pc' = [r \in Ranks |-> AfterOut(words[Lead])]
    BY <1>8 DEF BroadcastOut
  <2> QED
    BY <2>1, <2>2 DEF PlaceInv, Partner, AfterOut
<1>9. CASE AdoptFragment
  BY <1>9 DEF AdoptFragment, PlaceInv, Partner
<1>10. CASE Gather
  BY <1>10 DEF Gather, PlaceInv, Partner
<1>11. CASE Pull
  BY <1>0, <1>11 DEF Pull, PlaceInv, Partner
<1>12. CASE Answered
  BY <1>0, <1>12 DEF Answered, PlaceInv, Partner
<1>13. CASE BroadcastOutcome
  <2>1. words[Lead].out \in {"adopt", "fail"}
    BY <1>13 DEF WordsInv, BroadcastOutcome
  <2>2. pc' = [r \in Ranks |-> AfterOutcome(r, words[Lead])]
    BY <1>13 DEF BroadcastOutcome
  <2>3. \A r \in Ranks : trained[r] = trained[Lead]
    BY DEF EqualInv
  <2>4. \/ pc' = [r \in Ranks |-> "adoptAll"]
        \/ pc' = [r \in Ranks |-> "lost"]
        \/ pc' = [r \in Ranks |-> "train"]
    BY <2>1, <2>2, <2>3 DEF AfterOutcome
  <2> QED
    BY <2>4 DEF PlaceInv, Partner
<1>14. CASE AdoptAll
  BY <1>14 DEF AdoptAll, PlaceInv, Partner
<1>15. CASE UNCHANGED pc
  BY <1>0, <1>15 DEF PlaceInv
<1> QED
  BY <1>1, <1>2, <1>3, <1>4, <1>5, <1>6, <1>7, <1>8, <1>9, <1>10, <1>11, <1>12, <1>13, <1>14, <1>15
  DEF Next, LeadStep, Collective, vars, island

-----------------------------------------------------------------------------
(* The island: what the lead has said. *)

\* The words of the lead about its exchange.
LEMMA SayTyped ==
  ASSUME IslandInv, NEW out \in {"none", "adopt", "fail"}, Say(out)
  PROVE  /\ words' \in [Ranks -> [out: {"none", "adopt", "fail"}, steps: Advice, frag: Fragment]]
         /\ words'[Lead].out = out /\ words'[Lead].frag = call.frag
<1>1. [out |-> out, steps |-> call.steps, frag |-> call.frag]
        \in [out: {"none", "adopt", "fail"}, steps: Advice, frag: Fragment]
  BY DEF IslandInv, ServerInv, Calls
<1> QED
  BY <1>1, IslandConstants DEF Say, IslandInv, WordsInv

\* What the server does leaves an answer alone.
LEMMA AnswerStays ==
  ASSUME ServerInv, ServerNext, call.state = "answered"
  PROVE  call' = call
BY DEF ServerNext, Serve, ServeLate, CallFails, OtherCommits, Save, ServerRestart

LEMMA IslandWords ==
  ASSUME IslandInv, [Next]_vars
  PROVE  WordsInv'
<1> USE IslandConstants DEF IslandInv
<1>f. fragments' = fragments /\ Fragment' = Fragment
  BY IslandServer DEF Fragment
<1>0. /\ words \in [Ranks -> [out: {"none", "adopt", "fail"}, steps: Advice, frag: Fragment]]
      /\ pc[Lead] \in {"out", "outcome"} /\ words[Lead].out = "adopt" =>
           call.state = "answered" /\ words[Lead].frag = call.frag
      /\ pc[Lead] = "outcome" => words[Lead].out # "none"
      /\ pc[Lead] \in {"adopt", "adoptAll"} =>
           /\ call.state = "answered" /\ words[Lead].frag = call.frag
           /\ \A r \in Ranks : words[r] = words[Lead]
      /\ pc \in [Ranks -> Phases]
  BY DEF WordsInv, PlaceInv
<1>1. CASE Join
  <2>1. PICK out \in {"none", "adopt", "fail"} : Say(out) /\ (out = "adopt" => Usable)
    <3>1. CASE call.state = "none"
      BY <1>1, <3>1 DEF Join
    <3>2. CASE call.state # "none" /\ Usable
      BY <1>1, <3>2 DEF Join
    <3>3. CASE call.state # "none" /\ ~Usable
      BY <1>1, <3>3 DEF Join
    <3> QED
      BY <3>1, <3>2, <3>3
  <2>2. /\ words' \in [Ranks -> [out: {"none", "adopt", "fail"}, steps: Advice, frag: Fragment]]
        /\ words'[Lead].out = out /\ words'[Lead].frag = call.frag
    BY <2>1, SayTyped
  <2>3. Usable => call' = call /\ call.state = "answered"
    BY <1>1 DEF Join, Usable
  <2>4. pc'[Lead] = "out"
    BY <1>0, <1>1 DEF Join, Goto
  <2> QED
    BY <1>f, <2>1, <2>2, <2>3, <2>4 DEF WordsInv
<1>2. CASE Answered
  <2>1. PICK out \in {"adopt", "fail"} : Say(out) /\ (out = "adopt" => call.state = "answered")
    <3>1. CASE call.state = "answered"
      BY <1>2, <3>1 DEF Answered
    <3>2. CASE call.state # "answered"
      BY <1>2, <3>2 DEF Answered
    <3> QED
      BY <3>1, <3>2
  <2>2. /\ words' \in [Ranks -> [out: {"none", "adopt", "fail"}, steps: Advice, frag: Fragment]]
        /\ words'[Lead].out = out /\ words'[Lead].frag = call.frag
    BY <2>1, SayTyped
  <2>3. call.state = "answered" => call' = call
    BY <1>2 DEF Answered
  <2>4. pc'[Lead] = "outcome"
    BY <1>0, <1>2 DEF Answered, Goto
  <2> QED
    BY <1>f, <2>1, <2>2, <2>3, <2>4 DEF WordsInv
<1>3. CASE BroadcastOut
  <2>1. words' = [r \in Ranks |-> words[Lead]] /\ call' = call
    BY <1>3 DEF BroadcastOut
  <2>2. pc'[Lead] = AfterOut(words[Lead])
    BY <1>3, <2>1 DEF BroadcastOut
  <2>3. pc'[Lead] \in {"adopt", "train", "gather"}
    BY <1>0, <2>2 DEF AfterOut
  <2>4. pc'[Lead] = "adopt" => words[Lead].out = "adopt"
    BY <1>0, <2>2 DEF AfterOut
  <2>5. pc[Lead] = "out"
    BY <1>3 DEF BroadcastOut, Meet
  <2> QED
    BY <1>f, <1>0, <2>1, <2>3, <2>4, <2>5 DEF WordsInv
<1>4. CASE BroadcastOutcome
  <2>1. words' = [r \in Ranks |-> words[Lead]] /\ call' = call
    BY <1>4 DEF BroadcastOutcome
  <2>2. pc'[Lead] = AfterOutcome(Lead, words[Lead])
    BY <1>4, <2>1 DEF BroadcastOutcome
  <2>3. pc[Lead] = "outcome"
    BY <1>4 DEF BroadcastOutcome, Meet
  <2>4. pc'[Lead] \in {"adoptAll", "train", "lost"}
    BY <1>0, <2>2, <2>3 DEF AfterOutcome
  <2>5. pc'[Lead] = "adoptAll" => words[Lead].out = "adopt"
    BY <1>0, <2>2, <2>3 DEF AfterOutcome
  <2> QED
    BY <1>f, <1>0, <2>1, <2>3, <2>4, <2>5 DEF WordsInv
<1>5. CASE ServerNext /\ UNCHANGED island
  <2>1. call.state = "answered" => call' = call
    BY <1>5, AnswerStays
  <2> QED
    BY <1>f, <1>0, <1>5, <2>1 DEF WordsInv, island, ranks
<1>6. CASE UNCHANGED words /\ pc'[Lead] \notin {"out", "outcome", "adopt", "adoptAll"}
  BY <1>f, <1>0, <1>6 DEF WordsInv
<1>7. CASE UNCHANGED <<words, call>> /\ pc'[Lead] = pc[Lead]
  BY <1>f, <1>0, <1>7 DEF WordsInv
<1>8. CASE Train
  BY <1>6, <1>8 DEF Train
<1>9. CASE PassGate \/ GateFails \/ Pull
  BY <1>0, <1>6, <1>9 DEF PassGate, GateFails, Pull, Goto, ranks
<1>10. ASSUME NEW r \in Ranks, CollectiveAborts(r) \/ Exit(r) PROVE WordsInv'
  <2>1. CASE r = Lead
    BY <1>0, <1>6, <1>10, <2>1 DEF CollectiveAborts, Exit, Goto, ranks
  <2>2. CASE r # Lead
    BY <1>0, <1>7, <1>10, <2>2 DEF CollectiveAborts, Exit, Goto, ranks
  <2> QED
    BY <2>1, <2>2
<1>11. CASE Decide
  <2>1. PICK act \in Actions : pc' = [r \in Ranks |-> AfterAct(r, act)]
    BY <1>11 DEF Decide
  <2>2. pc'[Lead] \notin {"outcome", "adopt", "adoptAll", "out"}
    BY <2>1 DEF AfterAct, Actions
  <2> QED
    BY <1>6, <1>11, <2>2 DEF Decide
<1>12. CASE AdoptFragment \/ Gather \/ AdoptAll
  BY <1>6, <1>12 DEF AdoptFragment, Gather, AdoptAll
<1>13. CASE UNCHANGED vars
  BY <1>7, <1>13 DEF vars, ranks
<1> QED
  BY <1>1, <1>2, <1>3, <1>4, <1>5, <1>8, <1>9, <1>10, <1>11, <1>12, <1>13 DEF Next, LeadStep, Collective

-----------------------------------------------------------------------------
(* The island: what its ranks count, and the model they hold. *)

\* The next fragment is a fragment.
LEMMA NextFragmentTyped ==
  ASSUME ServerInv, NEW f \in Fragment PROVE NextFragment(f) \in Fragment
<1>1. fragments \in Nat \ {0} /\ f \in Nat
  BY FragmentServerTypes DEF ServerInv, Fragment
<1> QED
  BY <1>1 DEF NextFragment, Fragment

\* The window's length stays positive, whatever the server advises.
LEMMA AdvisedTyped ==
  ASSUME ServerInv, NEW r \in Ranks, syncEvery[r] \in Nat \ {0}, NEW n \in Advice
  PROVE  Advised(r, n) \in Nat \ {0}
<1>1. fragments \in Nat \ {0} /\ n \in Nat
  BY FragmentServerTypes DEF ServerInv
<1>2. CASE n = 0
  BY <1>2 DEF Advised
<1>3. CASE n # 0 /\ fragments > 1 /\ n < fragments
  BY <1>1, <1>3 DEF Advised
<1>4. CASE n # 0 /\ ~(fragments > 1 /\ n < fragments)
  <2>1. (n \div fragments) * fragments \in Nat \ {0}
    BY <1>1, <1>4, DivisibleWindow
  <2> QED
    BY <1>4, <2>1 DEF Advised
<1> QED
  BY <1>2, <1>3, <1>4

\* Ranks that go to the same place start a window together.
LEMMA WindowsStartTogether ==
  ASSUME EqualInv, NewWindow, UNCHANGED trained,
         \A r \in Ranks : pc'[r] = "train" <=> pc'[Lead] = "train"
  PROVE  /\ localStep' \in [Ranks -> 0..MaxSteps]
         /\ \A r \in Ranks : localStep'[r] = localStep'[Lead] /\ localStep'[r] <= trained'[r]
BY IslandConstants DEF EqualInv, NewWindow

LEMMA IslandEqual ==
  ASSUME IslandInv, [Next]_vars
  PROVE  EqualInv'
<1> USE IslandConstants DEF IslandInv
<1>f. fragments' = fragments /\ Fragment' = Fragment
  BY IslandServer DEF Fragment
<1>0. EqualInv
  OBVIOUS
<1>1. CASE UNCHANGED <<shard, fragIdx, localStep, trained, syncEvery, baseline, baseRev>> /\ resync' \in BOOLEAN
  BY <1>f, <1>0, <1>1 DEF EqualInv
<1>2. CASE Train
  <2>1. /\ trained' = [r \in Ranks |-> trained[r] + 1] /\ localStep' = [r \in Ranks |-> localStep[r] + 1]
        /\ \A r \in Ranks : trained[r] < MaxSteps
        /\ UNCHANGED <<shard, fragIdx, syncEvery, baseline, baseRev, resync>>
    BY <1>2 DEF Train, lead
  <2> QED
    BY <1>f, <1>0, <2>1 DEF EqualInv
<1>3. CASE Decide
  <2>1. PICK act \in Actions : pc' = [r \in Ranks |-> AfterAct(r, act)]
    BY <1>3 DEF Decide
  <2>2. \A r \in Ranks : pc'[r] = "train" <=> pc'[Lead] = "train"
    BY <2>1 DEF AfterAct, Actions
  <2> QED
    BY <1>f, <1>0, <1>3, <2>2, WindowsStartTogether DEF Decide, EqualInv, lead
<1>4. CASE BroadcastOut
  <2>1. \A r \in Ranks : pc'[r] = "train" <=> pc'[Lead] = "train"
    BY <1>4 DEF BroadcastOut
  <2> QED
    BY <1>f, <1>0, <1>4, <2>1, WindowsStartTogether DEF BroadcastOut, EqualInv, lead
<1>5. CASE BroadcastOutcome
  <2>1. \A r \in Ranks : pc'[r] = AfterOutcome(r, words[Lead])
    BY <1>5 DEF BroadcastOutcome
  <2>2. \A r \in Ranks : pc'[r] = "train" <=> pc'[Lead] = "train"
    BY <1>0, <2>1, SMTT(30) DEF AfterOutcome, EqualInv
  <2> QED
    BY <1>f, <1>0, <1>5, <2>2, WindowsStartTogether DEF BroadcastOutcome, EqualInv, lead
<1>6. CASE Gather
  <2>1. \A r \in Ranks : pc'[r] = "train" <=> pc'[Lead] = "train"
    BY <1>6 DEF Gather
  <2>2. fragIdx' = [r \in Ranks |-> NextFragment(fragIdx[Lead])]
    BY <1>0, <1>6 DEF Gather, EqualInv
  <2>3. NextFragment(fragIdx[Lead]) \in Fragment
    BY <1>0, NextFragmentTyped DEF EqualInv
  <2>4. UNCHANGED <<shard, trained, syncEvery, baseline, baseRev, resync>> /\ NewWindow
    BY <1>6 DEF Gather, lead
  <2> QED
    BY <1>f, <1>0, <2>1, <2>2, <2>3, <2>4, WindowsStartTogether DEF EqualInv
<1>7. CASE AdoptFragment
  <2>1. /\ call.state = "answered" /\ words[Lead].frag = call.frag
        /\ \A r \in Ranks : words[r] = words[Lead]
        /\ words[Lead].steps \in Advice
    BY <1>7 DEF AdoptFragment, Meet, WordsInv
  <2>2. call.frag \in Fragment /\ call.model[call.frag] \in Seq(Interval) /\ call.newRev \in Nat
    BY <2>1 DEF ServerInv, Calls
  <2>3. \A r \in Ranks : Advised(r, words[r].steps) = Advised(Lead, words[Lead].steps)
    BY <1>0, <2>1 DEF EqualInv, Advised
  <2>4. Advised(Lead, words[Lead].steps) \in Nat \ {0}
    BY <1>0, <2>1, AdvisedTyped DEF EqualInv
  <2>5. syncEvery' = [r \in Ranks |-> Advised(Lead, words[Lead].steps)]
    BY <1>7, <2>3 DEF AdoptFragment
  <2>. DEFINE slice1 == [model |-> call.model[call.frag], since |-> trained[Lead]]
  <2>6. slice1 \in [model: Seq(Interval), since: 0..MaxSteps]
    BY <1>0, <2>2 DEF EqualInv
  <2>7. \A r \in Ranks : Set(r, AdoptedFrag(r), call.model[call.frag]) = slice1 /\ AdoptedFrag(r) = call.frag
    BY <1>0, <2>1 DEF Set, AdoptedFrag, EqualInv
  <2>8. slice1.model = call.model[call.frag]
    OBVIOUS
  <2>. HIDE DEF slice1
  <2>9. shard' = [r \in Ranks |-> [shard[Lead] EXCEPT ![call.frag] = slice1]]
    <3>1. \A r \in Ranks : shard[r] = shard[Lead]
      BY <1>0 DEF EqualInv
    <3>2. shard' = [r \in Ranks |-> [shard[r] EXCEPT ![AdoptedFrag(r)] = Set(r, AdoptedFrag(r), call.model[call.frag])]]
      BY <1>7 DEF AdoptFragment
    <3> QED
      BY <2>7, <3>1, <3>2
  <2>10. baseline' = [baseline EXCEPT ![call.frag] = call.model[call.frag]]
    BY <1>7 DEF AdoptFragment, BackedUp
  <2>11. shard' \in [Ranks -> [Fragment -> [model: Seq(Interval), since: 0..MaxSteps]]]
    BY <1>0, <2>2, <2>6, <2>9 DEF EqualInv
  <2>12. baseline' \in [Fragment -> Seq(Interval)]
    BY <1>0, <2>2, <2>10 DEF EqualInv
  <2>13. \A f \in Fragment : shard'[Lead][f].model = baseline'[f]
    BY <1>0, <2>2, <2>8, <2>9, <2>10 DEF EqualInv
  <2>14. \A r \in Ranks : shard'[r] = shard'[Lead]
    BY <2>9
  <2>15. baseRev' \in Nat /\ UNCHANGED <<fragIdx, localStep, trained, resync>>
    BY <1>7, <2>2 DEF AdoptFragment
  <2> QED
    BY <1>f, <1>0, <2>4, <2>5, <2>11, <2>12, <2>13, <2>14, <2>15 DEF EqualInv
<1>8. CASE AdoptAll
  <2>1. /\ call.state = "answered"
        /\ \A r \in Ranks : words[r] = words[Lead]
        /\ words[Lead].steps \in Advice
    BY <1>8 DEF AdoptAll, Meet, WordsInv
  <2>2. call.model \in [Fragment -> Seq(Interval)] /\ call.newRev \in Nat
    BY <2>1 DEF ServerInv, Calls
  <2>3. \A r \in Ranks : Advised(r, words[r].steps) = Advised(Lead, words[Lead].steps)
    BY <1>0, <2>1 DEF EqualInv, Advised
  <2>4. Advised(Lead, words[Lead].steps) \in Nat \ {0}
    BY <1>0, <2>1, AdvisedTyped DEF EqualInv
  <2>5. syncEvery' = [r \in Ranks |-> Advised(Lead, words[Lead].steps)]
    BY <1>8, <2>3 DEF AdoptAll
  <2>6. shard' = [r \in Ranks |-> [f \in Fragment |-> [model |-> call.model[f], since |-> trained[Lead]]]]
    BY <1>0, <1>8 DEF AdoptAll, Set, EqualInv
  <2>7. trained[Lead] \in 0..MaxSteps
    BY <1>0 DEF EqualInv
  <2>8. /\ shard' \in [Ranks -> [Fragment -> [model: Seq(Interval), since: 0..MaxSteps]]]
        /\ \A r \in Ranks : shard'[r] = shard'[Lead]
        /\ \A f \in Fragment : shard'[Lead][f].model = call.model[f]
    BY <2>2, <2>6, <2>7
  <2>9. /\ baseline' = call.model /\ baseRev' = call.newRev /\ resync' = FALSE /\ NewWindow
        /\ UNCHANGED <<fragIdx, trained>> /\ \A r \in Ranks : pc'[r] = "train"
    BY <1>8 DEF AdoptAll
  <2>10. /\ localStep' \in [Ranks -> 0..MaxSteps]
         /\ \A r \in Ranks : localStep'[r] = localStep'[Lead] /\ localStep'[r] <= trained'[r]
    BY <1>0, <2>9, WindowsStartTogether
  <2> QED
    BY <1>f, <1>0, <2>2, <2>4, <2>5, <2>8, <2>9, <2>10 DEF EqualInv
<1>9. resync \in BOOLEAN
  BY DEF EqualInv
<1>10. CASE Join \/ Answered
  BY <1>1, <1>9, <1>10 DEF Join, Answered, MustResync
<1>11. CASE PassGate \/ GateFails \/ Pull \/ UNCHANGED vars
  BY <1>1, <1>9, <1>11 DEF PassGate, GateFails, Pull, vars, ranks, lead
<1>12. ASSUME NEW r \in Ranks, CollectiveAborts(r) \/ Exit(r) PROVE EqualInv'
  BY <1>1, <1>9, <1>12 DEF CollectiveAborts, Exit, ranks, lead
<1>13. CASE ServerNext /\ UNCHANGED island
  BY <1>1, <1>9, <1>13 DEF island, ranks, lead
<1> QED
  BY <1>2, <1>3, <1>4, <1>5, <1>6, <1>7, <1>8, <1>10, <1>11, <1>12, <1>13 DEF Next, LeadStep, Collective

-----------------------------------------------------------------------------

\* An island starts where the invariant holds.
LEMMA IslandStarts ==
  ASSUME Init PROVE IslandInv
<1>. USE IslandConstants, FragmentServerTypes
<1>1. fragments \in 1..MaxFragments /\ fragments \in Nat \ {0}
  BY DEF Init, ServerInit
<1>2. NoCall \in Calls /\ NoCall.state = "none"
  BY <1>1, NoCallTyped DEF NoCall
<1>3. 1 \in Fragment /\ <<>> \in Seq(Interval)
  BY <1>1 DEF Fragment
<1>4. ServerInv
  <2>1. log \in [Fragment -> Seq(Interval)]
    BY <1>3 DEF Init, ServerInit
  <2> QED
    BY <1>1, <1>2, <2>1 DEF Init, ServerInit, ServerInv
<1>5. PlaceInv
  BY DEF Init, PlaceInv, Partner, Phases, Meeting, Alone
<1>6. WordsInv
  BY <1>3 DEF Init, WordsInv, NoWords
<1>7. EqualInv
  <2>1. [model |-> <<>>, since |-> 0] \in [model: Seq(Interval), since: 0..MaxSteps]
    BY <1>3
  <2>2. shard \in [Ranks -> [Fragment -> [model: Seq(Interval), since: 0..MaxSteps]]]
    BY <2>1 DEF Init
  <2>3. baseline \in [Fragment -> Seq(Interval)]
    BY <1>3 DEF Init
  <2>4. \A f \in Fragment : shard[Lead][f].model = baseline[f]
    BY DEF Init
  <2>5. /\ fragIdx \in [Ranks -> Fragment] /\ syncEvery \in [Ranks -> Nat \ {0}]
        /\ localStep \in [Ranks -> 0..MaxSteps] /\ trained \in [Ranks -> 0..MaxSteps]
        /\ baseRev \in Nat /\ resync \in BOOLEAN
    <3>1. fragIdx = [r \in Ranks |-> 1] /\ fragIdx \in [Ranks -> Fragment]
      BY <1>3 DEF Init
    <3>2. syncEvery \in [Ranks -> Nat \ {0}]
      BY DEF Init
    <3>3. 0 \in 0..MaxSteps
      OBVIOUS
    <3> QED
      BY <3>1, <3>2, <3>3 DEF Init
  <2>6. \A r \in Ranks :
          /\ fragIdx[r] = fragIdx[Lead] /\ syncEvery[r] = syncEvery[Lead]
          /\ trained[r] = trained[Lead] /\ localStep[r] = localStep[Lead]
          /\ localStep[r] <= trained[r]
          /\ shard[r] = shard[Lead]
    BY DEF Init
  <2> QED
    BY <2>2, <2>3, <2>4, <2>5, <2>6 DEF EqualInv
<1> QED
  BY <1>4, <1>5, <1>6, <1>7 DEF IslandInv

\* The invariant says of an island that it is sound.
LEMMA IslandIsSound ==
  ASSUME IslandInv PROVE IslandSound
<1>. USE IslandConstants DEF IslandInv
<1>1. TypeOK
  BY DEF TypeOK, ServerInv, PlaceInv, WordsInv, EqualInv, Calls
<1>2. Lockstep
  <2>1. SUFFICES ASSUME NEW r \in Ranks, NEW s \in Ranks, Waiting(r), Waiting(s)
                 PROVE  Label(r) = Label(s)
    BY DEF Lockstep
  <2>2. pc[r] = pc[s] \/ {pc[r], pc[s]} \subseteq {"act", "train"}
    BY <2>1 DEF PlaceInv, Waiting, Meeting, Alone, Phases, Partner
  <2>3. fragIdx[r] = fragIdx[s]
    BY DEF EqualInv
  <2>4. pc[r] = "adopt" /\ pc[s] = "adopt" => words[r].frag = words[s].frag
    <3>1. pc[r] = "adopt" /\ pc[s] = "adopt" => pc[Lead] = "adopt"
      BY DEF PlaceInv, Alone, Phases, Meeting, Partner
    <3> QED
      BY <3>1 DEF WordsInv
  <2>5. pc[r] = pc[s]
    BY <2>1, <2>2 DEF PlaceInv, Waiting, Meeting, Alone, Phases, Partner
  <2> QED
    BY <2>3, <2>4, <2>5 DEF Label
<1>3. ShardsAgree
  BY DEF ShardsAgree, EqualInv
<1> QED
  BY <1>1, <1>2, <1>3 DEF IslandSound

LEMMA IslandSteps ==
  IslandInv /\ [Next]_vars => IslandInv'
<1>. SUFFICES ASSUME IslandInv, [Next]_vars PROVE IslandInv'
  OBVIOUS
<1>1. ServerInv'
  BY IslandServer
<1>2. PlaceInv' /\ WordsInv' /\ EqualInv'
  BY IslandPlaces, IslandWords, IslandEqual
<1> QED
  BY <1>1, <1>2 DEF IslandInv

\* However exchanges end, and whoever is lost, the ranks of an island never
\* wait for each other in different collectives, and while they train their
\* slices are slices of one model, the one the lead has a copy of: for any
\* number of ranks and fragments, any advice and any faults.
THEOREM IslandsAreSound == Spec => []IslandSound
<1>1. Init => IslandInv
  BY IslandStarts
<1>2. IslandInv /\ [Next]_vars => IslandInv'
  BY IslandSteps
<1>3. IslandInv => IslandSound
  BY IslandIsSound
<1> QED
  BY <1>1, <1>2, <1>3, PTL DEF Spec

-----------------------------------------------------------------------------
(* The replica: its windows. *)

LEMMA ReplicaConstants ==
  /\ Window \in Nat \ {0} /\ Prompts \in Nat \ {0} /\ Slots \in Nat /\ Slots >= Prompts
  /\ Slots % Prompts = 0 /\ \A p \in 1..MaxFragments : Window % p = 0
  /\ ReplicaRuns \subseteq [fragments: 1..MaxFragments, windows: Nat, faults: [FaultKinds -> Nat]]
BY ReplicaAssumption

\* The run chosen and the fragments stay what they are.
LEMMA RunStays ==
  ASSUME ServerInv, [ReplicaNext]_replicaVars
  PROVE  fragments' = fragments /\ plan' = plan /\ Fragment' = Fragment
<1>1. CASE ServerNext /\ UNCHANGED replica
  BY <1>1, ServerStep DEF replica, Fragment
<1>2. CASE Quiet
  BY <1>2 DEF Quiet, Fragment
<1>3. CASE UNCHANGED replicaVars
  BY <1>3 DEF replicaVars, replica, Fragment
<1> QED
  BY <1>1, <1>2, <1>3 DEF ReplicaNext

LEMMA ReplicaLoop ==
  ASSUME ReplicaInv, [ReplicaNext]_replicaVars
  PROVE  LoopInv'
<1> USE DEF ReplicaInv
<1>. USE DEF Places, InWindow, Over, MaxFailures
<1>f. fragments' = fragments /\ plan' = plan
  BY RunStays
<1>0. LoopInv /\ plan.windows \in Nat /\ fragments \in Nat \ {0}
  BY ReplicaConstants, FragmentServerTypes DEF LoopInv, ServerInv
<1>1. CASE UNCHANGED <<loop, merges>>
  BY <1>f, <1>0, <1>1 DEF LoopInv, DiesOnlyOfThree, loop
<1>2. CASE Background \/ Take \/ UNCHANGED replica \/ UNCHANGED replicaVars
  BY <1>1, <1>2 DEF Background, Admit, HandoffPushed, HandoffPulled, Take, weights, loop, replica, replicaVars
<1>3. CASE Connect
  BY <1>f, <1>0, <1>3 DEF Connect, Enter, LoopInv, DiesOnlyOfThree, weights
<1>4. CASE Connected
  <2>1. /\ UNCHANGED <<window, h, steps, outer, failures, lost, merges>> /\ at = "connecting"
        /\ ((at' = "start" /\ UNCHANGED ended) \/ (at' = "close" /\ ended' = "failed"))
    BY <1>4 DEF Connected, Enter, weights
  <2>2. steps = 0
    BY <1>0, <2>1 DEF LoopInv
  <2> QED
    BY <1>f, <1>0, <2>1, <2>2 DEF LoopInv, DiesOnlyOfThree
<1>5. CASE OpenWindow
  BY <1>f, <1>0, <1>5 DEF OpenWindow, LoopInv, DiesOnlyOfThree, weights
<1>6. CASE Finish
  BY <1>f, <1>0, <1>6 DEF Finish, Enter, LoopInv, DiesOnlyOfThree, weights
<1>7. CASE NextBatch
  BY <1>f, <1>0, <1>7 DEF NextBatch, Enter, LoopInv, DiesOnlyOfThree, weights
<1>8. CASE Optimize
  BY <1>f, <1>0, <1>8 DEF Optimize, Enter, LoopInv, DiesOnlyOfThree, weights
<1>9. CASE HandOver
  BY <1>f, <1>0, <1>9 DEF HandOver, Enter, AfterStep, LoopInv, DiesOnlyOfThree, weights
<1>10. CASE FragmentBoundary
  <2>1. at = "boundary" => fragments > 1
    BY DEF HandoffInv
  <2> QED
    BY <1>f, <1>0, <1>10, <2>1 DEF FragmentBoundary, AdoptAndPush, Enter, LoopInv, DiesOnlyOfThree, weights
<1>11. CASE Pause
  BY <1>f, <1>0, <1>11 DEF Pause, Enter, LoopInv, DiesOnlyOfThree, weights
<1>12. CASE LastPush
  BY <1>f, <1>0, <1>12 DEF LastPush, AdoptAndPush, LoopInv, DiesOnlyOfThree, weights
<1>13. CASE Merge
  <2>1. window' \in Nat \ {0}
    <3>1. call.steps \in Nat
      BY FragmentServerTypes DEF ServerInv, Calls
    <3>2. CASE call.steps = 0
      BY <1>0, <1>13, <3>2 DEF Merge, LoopInv
    <3>3. CASE call.steps > 0 /\ call.steps < fragments
      BY <1>0, <1>13, <3>3 DEF Merge, Rounded
    <3>4. CASE call.steps >= fragments
      <4>1. (call.steps \div fragments) * fragments \in Nat \ {0}
        BY <1>0, <3>1, <3>4, DivisibleWindow
      <4> QED
        BY <1>0, <1>13, <3>1, <3>4, <4>1 DEF Merge, Rounded
    <3> QED
      BY <1>0, <3>1, <3>2, <3>3, <3>4
  <2>2. failures' = 0 /\ outer' = outer + 1 /\ merges' = merges + 1 /\ at' = "start"
        /\ UNCHANGED <<ended, h, steps, lost>>
    BY <1>13 DEF Merge, AfterSuccess
  <2>3. at = "posting"
    BY <1>13 DEF Merge
  <2> QED
    BY <1>f, <1>0, <2>1, <2>2, <2>3 DEF LoopInv, DiesOnlyOfThree
<1>14. CASE SyncFails
  <2>1. /\ failures' = failures + 1 /\ lost' = lost \cup {outer} /\ UNCHANGED <<window, h, steps, merges>>
        /\ at \in {"settle", "posting"}
    BY <1>14 DEF SyncFails, weights
  <2>2. failures < 3 /\ outer < plan.windows /\ \A k \in 1..failures : outer - k \in lost
    BY <1>0, <2>1 DEF LoopInv
  <2>3. CASE failures' >= 3
    <3>1. at' = "stop" /\ ended' = "failed" /\ UNCHANGED outer
      BY <1>14, <2>3 DEF SyncFails
    <3>2. {outer - 2, outer - 1, outer} \subseteq lost'
      BY <1>0, <2>1, <2>2, <2>3 DEF LoopInv
    <3> QED
      BY <1>f, <1>0, <2>1, <2>2, <2>3, <3>1, <3>2 DEF LoopInv, DiesOnlyOfThree
  <2>4. CASE ~(failures' >= 3)
    <3>1. at' = "start" /\ outer' = outer + 1 /\ UNCHANGED ended
      BY <1>14, <2>4 DEF SyncFails
    <3>2. \A k \in 1..failures' : outer' - k \in lost'
      <4>1. SUFFICES ASSUME NEW k \in 1..failures' PROVE outer' - k \in lost'
        OBVIOUS
      <4>2. CASE k = 1
        BY <1>0, <2>1, <3>1, <4>2 DEF LoopInv
      <4>3. CASE k # 1
        <5>1. k - 1 \in 1..failures /\ outer' - k = outer - (k - 1)
          BY <1>0, <2>1, <3>1, <4>3 DEF LoopInv
        <5> QED
          BY <2>1, <2>2, <5>1
      <4> QED
        BY <4>2, <4>3
    <3> QED
      BY <1>f, <1>0, <2>1, <2>2, <2>4, <3>1, <3>2 DEF LoopInv, DiesOnlyOfThree
  <2> QED
    BY <2>3, <2>4
<1>15. CASE StopProducers
  BY <1>f, <1>0, <1>15 DEF StopProducers, Enter, LoopInv, DiesOnlyOfThree, weights
<1>16. CASE Close
  BY <1>f, <1>0, <1>16 DEF Close, Enter, LoopInv, DiesOnlyOfThree, weights
<1> QED
  BY <1>2, <1>3, <1>4, <1>5, <1>6, <1>7, <1>8, <1>9, <1>10, <1>11, <1>12, <1>13, <1>14, <1>15, <1>16
  DEF ReplicaNext, TrainLoop

-----------------------------------------------------------------------------
(* The replica: its handoffs. *)

LEMMA ReplicaHandoff ==
  ASSUME ReplicaInv, [ReplicaNext]_replicaVars
  PROVE  HandoffInv'
<1> USE DEF ReplicaInv
<1>f. fragments' = fragments
  BY RunStays
<1>0. HandoffInv /\ steps \in Nat /\ merges \in Nat /\ at \in Places
  BY ReplicaConstants DEF LoopInv, ServerInv
<1>. USE DEF Places, Unsent, Sending
<1>1. CASE UNCHANGED <<at, steps, paused, weights>>
  BY <1>f, <1>0, <1>1 DEF HandoffInv, weights
<1>2. CASE Admit \/ Take \/ UNCHANGED replica \/ UNCHANGED replicaVars
  BY <1>1, <1>2 DEF Admit, Take, loop, rollouts, replica, replicaVars
<1>3. CASE HandoffPushed
  <2>1. handoff' = [phase |-> "pulling", version |-> handoff.version, merges |-> handoff.merges]
        /\ handoff.phase = "pushing"
    BY <1>0, <1>3 DEF HandoffPushed, HandoffInv
  <2> QED
    BY <1>f, <1>0, <1>3, <2>1 DEF HandoffPushed, HandoffInv, loop, rollouts
<1>4. CASE HandoffPulled
  BY <1>f, <1>0, <1>4 DEF HandoffPulled, HandoffInv, NoHandoff, loop
<1>5. CASE Connect
  BY <1>f, <1>0, <1>5 DEF Connect, Enter, HandoffInv, rollouts, weights
<1>6. CASE Connected
  <2>1. at' \in {"start", "close"} /\ at = "connecting" /\ UNCHANGED <<steps, paused, weights>>
    BY <1>6 DEF Connected, Enter, rollouts
  <2> QED
    BY <1>f, <1>0, <2>1 DEF HandoffInv, weights
<1>7. CASE OpenWindow
  BY <1>f, <1>0, <1>7 DEF OpenWindow, HandoffInv, weights
<1>8. CASE Finish
  BY <1>f, <1>0, <1>8 DEF Finish, Enter, HandoffInv, rollouts, weights
<1>9. CASE NextBatch
  BY <1>f, <1>0, <1>9 DEF NextBatch, Enter, HandoffInv, weights
<1>10. CASE Optimize
  BY <1>f, <1>0, <1>10 DEF Optimize, Enter, HandoffInv, rollouts, weights
<1>11. CASE HandOver
  <2>1. /\ at = "handing" /\ handoff.phase = "none" /\ UNCHANGED <<steps, paused, gen, merges>>
        /\ handoff' = [phase |-> "pushing", version |-> steps, merges |-> merges]
        /\ at' \in {"merge", "boundary", "collect", "stop"} /\ (at' = "boundary" => fragments > 1)
    BY <1>11 DEF HandOver, Enter, AfterStep
  <2> QED
    BY <1>f, <1>0, <2>1 DEF HandoffInv
<1>12. CASE FragmentBoundary
  <2>1. at' \in {"stop", "collect"} /\ at = "boundary" /\ UNCHANGED <<steps, paused, weights>>
    BY <1>12 DEF FragmentBoundary, Enter
  <2> QED
    BY <1>f, <1>0, <2>1 DEF HandoffInv, weights
<1>13. CASE Pause
  BY <1>f, <1>0, <1>13 DEF Pause, Enter, AdmitsInMerge, HandoffInv, weights
<1>14. CASE LastPush
  BY <1>f, <1>0, <1>14 DEF LastPush, Settled, HandoffInv, rollouts, weights
<1>15. CASE Merge
  <2>1. /\ at = "posting" /\ at' = "start" /\ paused' = FALSE /\ merges' = merges + 1
        /\ gen' = [version |-> steps, merges |-> merges + 1] /\ UNCHANGED <<steps, handoff>>
    BY <1>15 DEF Merge
  <2>2. handoff.phase = "none"
    BY <1>0, <2>1 DEF HandoffInv
  <2>3. /\ gen' \in [version: Nat, merges: Nat] /\ gen'.merges = merges'
        /\ gen'.version + Unsent' + Sending' = steps'
    BY <1>0, <2>1, <2>2
  <2> QED
    BY <1>f, <1>0, <2>1, <2>2, <2>3 DEF HandoffInv
<1>16. CASE SyncFails
  <2>1. /\ handoff.phase = "none" /\ at' \in {"stop", "start"} /\ UNCHANGED <<steps, weights>>
        /\ at \in {"settle", "posting"} /\ paused' \in {paused, FALSE}
    BY <1>0, <1>16 DEF SyncFails, Settled, HandoffInv
  <2> QED
    BY <1>f, <1>0, <2>1 DEF HandoffInv, weights
<1>17. CASE StopProducers
  BY <1>f, <1>0, <1>17 DEF StopProducers, Enter, HandoffInv, weights
<1>18. CASE Close
  BY <1>f, <1>0, <1>18 DEF Close, Enter, HandoffInv, rollouts, weights
<1> QED
  BY <1>2, <1>3, <1>4, <1>5, <1>6, <1>7, <1>8, <1>9, <1>10, <1>11, <1>12, <1>13, <1>14, <1>15, <1>16, <1>17, <1>18
  DEF ReplicaNext, TrainLoop, Background

-----------------------------------------------------------------------------
(* The replica: the slots and the ages of its groups. *)

\* A batch's slots are given back.
LEMMA BatchReleased ==
  ASSUME NEW t \in Nat, NEW g \in Nat, NEW p \in Nat, NEW b \in Nat, t >= g + p * (b + 1)
  PROVE  t - p \in Nat /\ t - p >= g + p * b
<1>1. p * (b + 1) = p * b + p /\ p * b \in Nat
  OBVIOUS
<1>2. ASSUME NEW q \in Nat, t >= g + (q + p) PROVE t - p \in Nat /\ t - p >= g + q
  BY <1>2
<1> QED
  BY <1>1, <1>2

\* A collection that is given up has no groups.
LEMMA NothingPending ==
  ASSUME pending \in [on: BOOLEAN, got: Seq(Nat)], ~pending.on => pending.got = <<>>, NEW x \in {pending, NoPending}
  PROVE  /\ x \in [on: BOOLEAN, got: Seq(Nat)] /\ Len(x.got) \in Nat /\ Len(x.got) <= Len(pending.got)
         /\ ~x.on => x.got = <<>>
<1>1. Len(pending.got) \in Nat
  OBVIOUS
<1>2. CASE x = pending
  BY <1>1, <1>2
<1>3. CASE x = NoPending
  BY <1>1, <1>3 DEF NoPending
<1> QED
  BY <1>2, <1>3

LEMMA ReplicaSlots ==
  ASSUME ReplicaInv, [ReplicaNext]_replicaVars
  PROVE  SlotInv'
<1> USE DEF ReplicaInv
<1>0. /\ SlotInv /\ at \in Places /\ Prompts \in Nat \ {0} /\ Slots \in Nat
      /\ handoff.phase \in {"none", "pushing", "pulling"} /\ gen.version \in Nat
      /\ {Training, Unsent, Sending} \subseteq Nat
  BY ReplicaConstants DEF LoopInv, HandoffInv, Training, Unsent, Sending
<1>1. CASE UNCHANGED <<rollouts, Training, Unsent, Sending>>
  BY <1>0, <1>1 DEF SlotInv, rollouts, Held
<1>2. CASE Admit
  BY <1>0, <1>2 DEF Admit, Held, SlotInv, loop, weights, Training, Unsent, Sending
<1>3. CASE Take
  <2>1. PICK got \in {TRUE, FALSE} :
          /\ pending.on /\ Len(pending.got) < Prompts /\ buffer # <<>>
          /\ buffer' = Tail(buffer) /\ UNCHANGED <<at, handoff>>
          /\ IF got THEN pending' = [pending EXCEPT !.got = Append(pending.got, Head(buffer))] /\ taken' = taken + 1
                    ELSE UNCHANGED <<pending, taken>>
    BY <1>3 DEF Take, loop, weights
  <2>2. /\ Head(buffer) \in Nat /\ Tail(buffer) \in Seq(Nat) /\ Len(Tail(buffer)) = Len(buffer) - 1
        /\ Len(buffer) \in Nat
    <3>1. buffer \in Seq(Nat) /\ buffer # <<>>
      BY <1>0, <2>1 DEF SlotInv
    <3> QED
      BY <3>1, HeadTailProperties
  <2>3. CASE got
    <3>1. pending' = [on |-> pending.on, got |-> Append(pending.got, Head(buffer))]
      BY <1>0, <2>1, <2>3 DEF SlotInv
    <3>2. /\ Append(pending.got, Head(buffer)) \in Seq(Nat)
          /\ Len(Append(pending.got, Head(buffer))) = Len(pending.got) + 1
      BY <1>0, <2>2 DEF SlotInv
    <3> QED
      BY <1>0, <2>1, <2>2, <2>3, <3>1, <3>2, SMTT(30) DEF SlotInv, Held, Training, Unsent, Sending
  <2>4. CASE ~got
    BY <1>0, <2>1, <2>2, <2>4 DEF SlotInv, Held, Training, Unsent, Sending
  <2> QED
    BY <2>3, <2>4
<1>4. CASE UNCHANGED replica \/ UNCHANGED replicaVars
  BY <1>1, <1>4 DEF replica, replicaVars, loop, weights, Training, Unsent, Sending
<1>5. CASE HandoffPushed
  <2>1. handoff'.phase = "pulling"
    BY <1>5 DEF HandoffPushed, ReplicaInv, HandoffInv
  <2> QED
    BY <1>1, <1>5, <2>1 DEF HandoffPushed, loop, Training, Unsent, Sending
<1>6. CASE HandoffPulled
  <2>1. /\ handoff.phase = "pulling" /\ taken' = taken - Prompts /\ handoff'.phase = "none"
        /\ UNCHANGED <<at, buffer, pending>>
    BY <1>6 DEF HandoffPulled, Released, NoHandoff, loop
  <2>2. taken' \in Nat /\ taken' >= Len(pending.got) + Prompts * (Training + Unsent)
    <3>1. Sending = 1 /\ Training + Unsent + Sending = (Training + Unsent) + 1 /\ Training + Unsent \in Nat
      BY <1>0, <2>1 DEF Sending
    <3>2. taken \in Nat /\ Len(pending.got) \in Nat /\ taken >= Len(pending.got) + Prompts * ((Training + Unsent) + 1)
      BY <1>0, <3>1 DEF SlotInv
    <3> QED
      BY <1>0, <2>1, <3>1, <3>2, BatchReleased
  <2> QED
    BY <1>0, <2>1, <2>2 DEF SlotInv, Held, Training, Unsent, Sending
<1>7. CASE Connect \/ Finish \/ FragmentBoundary \/ Pause \/ LastPush \/ Merge \/ SyncFails \/ Connected \/ Close
  <2>1. Training = 0 /\ Training' = 0 /\ Unsent = 0 /\ Unsent' = 0
    BY <1>7 DEF Connect, Finish, FragmentBoundary, Pause, LastPush, Merge, SyncFails, Connected, Close, Enter,
       Training, Unsent
  <2>2. UNCHANGED <<buffer, taken, handoff>> /\ pending' \in {pending, NoPending}
    BY <1>7 DEF Connect, Finish, FragmentBoundary, Pause, LastPush, Merge, SyncFails, Connected, Close, rollouts, weights
  <2>3. /\ pending' \in [on: BOOLEAN, got: Seq(Nat)] /\ Len(pending'.got) <= Len(pending.got)
        /\ (~pending'.on => pending'.got = <<>>) /\ Len(pending'.got) \in Nat
    BY <1>0, NothingPending, <2>2 DEF SlotInv, NoPending
  <2>4. Sending' = Sending /\ Held' = Held
    BY <2>2 DEF Sending, Held
  <2> QED
    BY <1>0, <2>1, <2>2, <2>3, <2>4 DEF SlotInv
<1>8. CASE OpenWindow
  <2>1. pending' = [on |-> TRUE, got |-> <<>>] /\ UNCHANGED <<buffer, taken, handoff>>
        /\ Training = 0 /\ Training' = 0 /\ Unsent = 0 /\ Unsent' = 0
    BY <1>8 DEF OpenWindow, weights, Training, Unsent
  <2> QED
    BY <1>0, <2>1 DEF SlotInv, Held, Sending
<1>9. CASE NextBatch
  <2>1. /\ Len(pending.got) = Prompts /\ UNCHANGED <<buffer, taken, handoff>>
        /\ pending' = [on |-> h + 1 < window, got |-> <<>>] /\ at = "collect" /\ at' = "train"
    BY <1>9 DEF NextBatch, Enter, weights
  <2>2. (h + 1 < window) \in BOOLEAN
    BY DEF LoopInv
  <2>3. pending' \in [on: BOOLEAN, got: Seq(Nat)] /\ pending'.got = <<>>
    BY <2>1, <2>2
  <2> QED
    BY <1>0, <2>1, <2>3 DEF SlotInv, Held, Training, Unsent, Sending
<1>10. CASE Optimize
  BY <1>0, <1>10 DEF Optimize, Enter, SlotInv, rollouts, weights, Held, Training, Unsent, Sending
<1>11. CASE HandOver
  <2>1. /\ at = "handing" /\ handoff.phase = "none" /\ handoff'.phase = "pushing"
        /\ at' \notin {"handing", "train"} /\ pending' \in {pending, NoPending} /\ UNCHANGED <<buffer, taken>>
    BY <1>11 DEF HandOver, Enter, AfterStep
  <2>2. /\ pending' \in [on: BOOLEAN, got: Seq(Nat)] /\ Len(pending'.got) <= Len(pending.got)
        /\ (~pending'.on => pending'.got = <<>>) /\ Len(pending'.got) \in Nat
    BY <1>0, NothingPending, <2>1 DEF SlotInv, NoPending
  <2>3. (Training + Unsent + Sending)' = Training + Unsent + Sending /\ Held' = Held
    BY <2>1 DEF Training, Unsent, Sending, Held
  <2>4. taken' >= Len(pending'.got) + Prompts * (Training + Unsent + Sending)
    <3>1. ASSUME NEW t \in Nat, NEW g \in Nat, NEW b \in Nat, NEW n \in Nat, t >= g + Prompts * b, n <= g
          PROVE  t >= n + Prompts * b
      BY <1>0, <3>1
    <3>2. Training + Unsent + Sending \in Nat /\ Len(pending.got) \in Nat
      BY <1>0 DEF SlotInv
    <3> QED
      BY <1>0, <2>1, <2>2, <3>1, <3>2 DEF SlotInv
  <2>5. taken' >= Len(pending'.got) + Prompts * (Training + Unsent + Sending)'
    BY <2>3, <2>4
  <2> QED
    BY <1>0, <2>1, <2>2, <2>3, <2>5 DEF SlotInv
<1>12. CASE StopProducers
  BY <1>0, <1>12 DEF StopProducers, Enter, SlotInv, weights, Held, Training, Unsent, Sending
<1> QED
  BY <1>2, <1>3, <1>4, <1>5, <1>6, <1>7, <1>8, <1>9, <1>10, <1>11, <1>12
  DEF ReplicaNext, TrainLoop, Background

\* What fits goes on to fit when fewer groups are to come.
LEMMA FitsLess ==
  ASSUME NEW p \in Nat, NEW b \in Int, NEW c \in Int, NEW n \in Nat, NEW m \in Nat, NEW k \in Nat,
         b = c, m <= n, p * b + n <= k
  PROVE  p * c + m <= k
<1>1. p * b \in Int
  OBVIOUS
<1>2. ASSUME NEW q \in Int, q + n <= k PROVE q + m <= k
  BY <1>2
<1> QED
  BY <1>1, <1>2

\* What is taken and what is in the buffer leave a slot for one more.
LEMMA SlotLeft ==
  ASSUME NEW g \in Nat, NEW b \in Nat, NEW k \in Nat, NEW t \in Nat, b + t < k, NEW q \in Int, t >= g + q
  PROVE  q + (g + (b + 1)) <= k
OBVIOUS

\* Fits, after a step.
FitsNext(v, n) == v <= steps' /\ Prompts * (steps' - v + Training') + n <= Slots

LEMMA FitsOn ==
  ASSUME steps \in Nat, steps' \in Nat, steps' >= steps, steps' + Training' = steps + Training,
         NEW v \in Nat, NEW n \in Nat, NEW m \in Nat, m <= n, Fits(v, n)
  PROVE  FitsNext(v, m)
<1>. Prompts \in Nat /\ Slots \in Nat
  BY ReplicaConstants
<1>1. Training \in Nat /\ Training' \in Nat
  BY DEF Training
<1>2. ASSUME NEW t \in Nat, NEW s \in Nat, s + t = steps + Training PROVE s - v + t = steps - v + Training
  BY <1>1, <1>2
<1>3. steps' - v + Training' = steps - v + Training
  BY <1>1, <1>2
<1>4. steps' - v + Training' \in Int /\ steps - v + Training \in Int
  BY <1>1
<1>5. v <= steps /\ Prompts * (steps - v + Training) + n <= Slots
  BY DEF Fits
<1>6. Prompts * (steps' - v + Training') + m <= Slots
  BY <1>3, <1>4, <1>5, FitsLess
<1> QED
  BY <1>5, <1>6 DEF FitsNext

\* The smallest of some versions is one of them.
LEMMA OldestIsOne ==
  ASSUME NEW S \in SUBSET Nat, S # {} PROVE Min(S) \in S
<1>1. PICK x \in S : \A y \in S : ~ (<<y, x>> \in OpToRel(<, Nat))
  BY NatLessThanWellFounded, WFMin
<1>2. \A y \in S : x <= y
  <2>1. \A y \in S : y \in Nat /\ x \in Nat /\ ~(y < x)
    BY <1>1 DEF OpToRel
  <2> QED
    BY <2>1
<1> QED
  BY <1>2 DEF Min

LEMMA ReplicaAges ==
  ASSUME ReplicaInv, [ReplicaNext]_replicaVars
  PROVE  AgeInv'
<1> USE DEF ReplicaInv
<1>0. /\ AgeInv /\ SlotInv /\ at \in Places /\ Prompts \in Nat \ {0} /\ Slots \in Nat /\ steps \in Nat
      /\ gen.version \in Nat
  BY ReplicaConstants DEF LoopInv, HandoffInv
<1>a. /\ Len(buffer) \in Nat /\ Len(pending.got) \in Nat
      /\ \A i \in 1..Len(buffer) : buffer[i] \in Nat
      /\ \A j \in 1..Len(pending.got) : pending.got[j] \in Nat
  BY <1>0 DEF SlotInv
<1>e. Len(buffer) \in Nat /\ Len(pending.got) \in Nat
  BY <1>a
<1>b. /\ \A i \in 1..Len(buffer) : Fits(buffer[i], Len(pending.got) + i)
      /\ \A j \in 1..Len(pending.got) : Fits(pending.got[j], j)
  BY <1>0 DEF AgeInv
<1>c. ASSUME \A i \in 1..Len(buffer') : FitsNext(buffer'[i], Len(pending'.got) + i),
             \A j \in 1..Len(pending'.got) : FitsNext(pending'.got[j], j),
             batch' \in 0..steps', at' = "train" => Prompts * (steps' - batch') < Slots
      PROVE  AgeInv'
  BY <1>c DEF AgeInv, Fits, FitsNext
<1>d. ASSUME steps' \in {steps, steps + 1}, steps' + Training' = steps + Training
      PROVE  /\ \A v \in Nat, n \in Nat, m \in Nat : m <= n /\ Fits(v, n) => FitsNext(v, m)
             /\ \A v \in Nat, n \in Nat : Fits(v, n) => FitsNext(v, n)
  <2>1. steps' \in Nat /\ steps' >= steps
    BY <1>0, <1>d
  <2>2. \A n \in Nat : n <= n
    OBVIOUS
  <2> QED
    BY <1>0, <1>d, <2>1, <2>2, FitsOn
\* Steps that take no batch and admit nothing.
<1>1. ASSUME UNCHANGED batch, steps' + Training' = steps + Training, steps' \in {steps, steps + 1},
             buffer' \in {buffer, <<>>}, pending'.got \in {pending.got, <<>>}, at' = "train" => UNCHANGED <<at, steps>>
      PROVE  AgeInv'
  <2>1. \A v \in Nat, n \in Nat, m \in Nat : m <= n /\ Fits(v, n) => FitsNext(v, m)
    BY <1>1, <1>d
  <2>2. Len(pending'.got) \in Nat /\ Len(pending'.got) <= Len(pending.got)
    BY <1>1, <1>a
  <2>3. ASSUME NEW i \in 1..Len(buffer') PROVE FitsNext(buffer'[i], Len(pending'.got) + i)
    <3>1. i \in 1..Len(buffer) /\ buffer' = buffer
      BY <1>1, <1>a
    <3>2. Fits(buffer[i], Len(pending.got) + i) /\ buffer[i] \in Nat
      BY <1>a, <1>b, <3>1
    <3>3. Len(pending'.got) + i \in Nat /\ Len(pending.got) + i \in Nat /\ Len(pending'.got) + i <= Len(pending.got) + i
      BY <1>a, <2>2, <3>1
    <3> QED
      BY <2>1, <3>1, <3>2, <3>3
  <2>4. ASSUME NEW j \in 1..Len(pending'.got) PROVE FitsNext(pending'.got[j], j)
    <3>1. j \in 1..Len(pending.got) /\ pending'.got = pending.got /\ j \in Nat
      BY <1>1, <1>a
    <3> QED
      BY <1>a, <1>b, <2>1, <3>1
  <2>5. batch' \in 0..steps' /\ (at' = "train" => Prompts * (steps' - batch') < Slots)
    <3>1. batch \in 0..steps /\ (at = "train" => Prompts * (steps - batch) < Slots) /\ batch' = batch
      BY <1>0, <1>1 DEF AgeInv
    <3>2. batch' \in 0..steps'
      BY <1>0, <1>1, <3>1
    <3> QED
      BY <1>1, <3>1, <3>2
  <2> QED
    BY <1>c, <2>3, <2>4, <2>5
<1>2. CASE Admit
  <2>1. /\ buffer' = Append(buffer, gen.version) /\ Len(buffer) + taken < Slots
        /\ UNCHANGED <<at, steps, pending, batch>>
    BY <1>2 DEF Admit, Held, loop
  <2>2. /\ gen.version <= steps /\ steps - gen.version + Training = Training + Unsent + Sending
        /\ Training + Unsent + Sending \in Nat
    BY <1>0 DEF HandoffInv, Unsent, Sending, Training
  <2>3. Prompts * (Training + Unsent + Sending) + (Len(pending.got) + (Len(buffer) + 1)) <= Slots
    <3>1. taken >= Len(pending.got) + Prompts * (Training + Unsent + Sending) /\ taken \in Nat
      BY <1>0 DEF SlotInv
    <3>2. ASSUME NEW q \in Int, taken >= Len(pending.got) + q
          PROVE  q + (Len(pending.got) + (Len(buffer) + 1)) <= Slots
      <4>1. Slots \in Nat /\ taken \in Nat /\ Len(buffer) + taken < Slots
        BY <1>0, <2>1, <3>1
      <4> QED
        BY <1>e, <3>2, <4>1, SlotLeft
    <3>3. Prompts * (Training + Unsent + Sending) \in Int
      BY <1>0, <2>2
    <3> QED
      BY <3>1, <3>2, <3>3
  <2>4. Fits(gen.version, Len(pending.got) + (Len(buffer) + 1))
    BY <2>2, <2>3 DEF Fits
  <2>5. /\ Len(buffer') = Len(buffer) + 1 /\ buffer'[Len(buffer) + 1] = gen.version
        /\ \A i \in 1..Len(buffer) : buffer'[i] = buffer[i]
    BY <1>0, <2>1 DEF SlotInv
  <2>6. Training' = Training
    BY <2>1 DEF Training
  <2>7. \A v \in Nat, n \in Nat : Fits(v, n) => FitsNext(v, n)
    BY <1>d, <2>1, <2>6
  <2>8. ASSUME NEW i \in 1..Len(buffer') PROVE FitsNext(buffer'[i], Len(pending'.got) + i)
    <3>1. CASE i = Len(buffer) + 1
      <4>1. ASSUME NEW a \in Nat, NEW b \in Nat PROVE a + (b + 1) \in Nat
        BY <4>1
      <4>2. Len(pending.got) + (Len(buffer) + 1) \in Nat
        BY <1>e, <4>1
      <4> QED
        BY <1>0, <2>1, <2>4, <2>5, <2>7, <3>1, <4>2
    <3>2. CASE i \in 1..Len(buffer)
      <4>1. Len(pending.got) + i \in Nat
        BY <1>a, <3>2
      <4> QED
        BY <1>a, <1>b, <2>1, <2>5, <2>7, <3>2, <4>1
    <3> QED
      BY <1>a, <2>5, <3>1, <3>2
  <2>9. ASSUME NEW j \in 1..Len(pending'.got) PROVE FitsNext(pending'.got[j], j)
    <3>1. j \in Nat /\ j <= j /\ j \in 1..Len(pending.got)
      BY <1>a, <2>1
    <3> QED
      BY <1>a, <1>b, <2>1, <2>7, <3>1
  <2>10. batch' \in 0..steps' /\ (at' = "train" => Prompts * (steps' - batch') < Slots)
    BY <1>0, <2>1 DEF AgeInv
  <2> QED
    BY <1>c, <2>8, <2>9, <2>10
<1>3. CASE Take
  <2>1. PICK got \in {TRUE, FALSE} :
          /\ pending.on /\ Len(pending.got) < Prompts /\ buffer # <<>>
          /\ buffer' = Tail(buffer) /\ UNCHANGED <<at, steps, batch>>
          /\ IF got THEN pending' = [pending EXCEPT !.got = Append(pending.got, Head(buffer))] /\ taken' = taken + 1
                    ELSE UNCHANGED <<pending, taken>>
    BY <1>3 DEF Take, loop, weights
  <2>2. /\ Len(buffer) >= 1 /\ Head(buffer) = buffer[1] /\ Head(buffer) \in Nat
        /\ Len(buffer') = Len(buffer) - 1
        /\ \A i \in 1..Len(buffer') : buffer'[i] = buffer[i + 1]
    BY <1>0, <2>1, HeadTailProperties DEF SlotInv
  <2>3. \A i \in 1..Len(buffer') : i + 1 \in 1..Len(buffer) /\ i \in Nat
    BY <1>a, <2>2
  <2>4. \A v \in Nat, n \in Nat, m \in Nat : m <= n /\ Fits(v, n) => FitsNext(v, m)
    BY <1>d, <2>1 DEF Training
  <2>5. batch' \in 0..steps' /\ (at' = "train" => Prompts * (steps' - batch') < Slots)
    BY <1>0, <2>1 DEF AgeInv
  <2>6. ASSUME NEW n \in Nat, n <= Len(pending.got) + 1, NEW i \in 1..Len(buffer')
        PROVE  FitsNext(buffer'[i], n + i)
    <3>1. Fits(buffer[i + 1], Len(pending.got) + (i + 1)) /\ buffer[i + 1] \in Nat /\ buffer'[i] = buffer[i + 1]
      BY <1>a, <1>b, <2>2, <2>3
    <3>2. n + i \in Nat /\ Len(pending.got) + (i + 1) \in Nat /\ n + i <= Len(pending.got) + (i + 1)
      <4>1. ASSUME NEW k \in Nat, NEW g \in Nat, n <= g + 1 PROVE n + k \in Nat /\ n + k <= g + (k + 1) /\ g + (k + 1) \in Nat
        BY <4>1
      <4>2. i \in Nat
        BY <2>3
      <4> QED
        BY <1>e, <2>6, <4>1, <4>2
    <3> QED
      BY <2>4, <3>1, <3>2
  <2>7. CASE got
    <3>1. pending'.got = Append(pending.got, Head(buffer))
      BY <1>0, <2>1, <2>7 DEF SlotInv
    <3>2. /\ Len(pending'.got) = Len(pending.got) + 1 /\ pending'.got[Len(pending.got) + 1] = buffer[1]
          /\ \A j \in 1..Len(pending.got) : pending'.got[j] = pending.got[j]
      BY <1>0, <2>2, <3>1 DEF SlotInv
    <3>3. ASSUME NEW j \in 1..Len(pending'.got) PROVE FitsNext(pending'.got[j], j)
      <4>1. j \in Nat /\ j <= j
        BY <1>a, <3>2
      <4>2. CASE j \in 1..Len(pending.got)
        BY <1>a, <1>b, <2>4, <3>2, <4>1, <4>2
      <4>3. CASE j = Len(pending.got) + 1
        <5>1. 1 \in 1..Len(buffer)
          BY <1>a, <2>2
        <5>2. Fits(buffer[1], Len(pending.got) + 1) /\ buffer[1] \in Nat
          BY <1>a, <1>b, <5>1
        <5> QED
          BY <2>4, <3>2, <4>1, <4>3, <5>2
      <4> QED
        BY <1>a, <3>2, <4>2, <4>3
    <3>4. \A i \in 1..Len(buffer') : FitsNext(buffer'[i], Len(pending'.got) + i)
      <4>1. Len(pending.got) + 1 \in Nat /\ Len(pending.got) + 1 <= Len(pending.got) + 1
        BY <1>e
      <4>2. \A i \in 1..Len(buffer') : FitsNext(buffer'[i], (Len(pending.got) + 1) + i)
        BY <2>6, <4>1
      <4> QED
        BY <3>2, <4>2
    <3> QED
      BY <1>c, <2>5, <3>3, <3>4
  <2>8. CASE ~got
    <3>1. pending' = pending
      BY <2>1, <2>8
    <3>2. \A i \in 1..Len(buffer') : FitsNext(buffer'[i], Len(pending'.got) + i)
      <4>1. Len(pending.got) \in Nat /\ Len(pending.got) <= Len(pending.got) + 1
        BY <1>e
      <4> QED
        BY <2>6, <3>1, <4>1
    <3>3. ASSUME NEW j \in 1..Len(pending'.got) PROVE FitsNext(pending'.got[j], j)
      <4>1. j \in Nat /\ j <= j /\ j \in 1..Len(pending.got)
        BY <1>a, <3>1
      <4> QED
        BY <1>a, <1>b, <2>4, <3>1, <4>1
    <3> QED
      BY <1>c, <2>5, <3>2, <3>3
  <2> QED
    BY <2>7, <2>8
<1>4. CASE UNCHANGED replica \/ UNCHANGED replicaVars \/ HandoffPushed \/ HandoffPulled
  <2>1. UNCHANGED <<at, steps, buffer, pending, batch>>
    BY <1>4 DEF replica, replicaVars, loop, rollouts, HandoffPushed, HandoffPulled
  <2> QED
    BY <1>1, <2>1 DEF Training
<1>5. CASE Connect \/ Finish \/ FragmentBoundary \/ Pause \/ LastPush \/ Merge \/ SyncFails \/ Connected \/ Close \/ HandOver
  <2>1. Training = 0 /\ Training' = 0 /\ at' # "train"
    BY <1>5 DEF Connect, Finish, FragmentBoundary, Pause, LastPush, Merge, SyncFails, Connected, Close, HandOver,
       Enter, AfterStep, Training
  <2>2. UNCHANGED <<buffer, steps, batch>> /\ pending' \in {pending, NoPending}
    BY <1>5 DEF Connect, Finish, FragmentBoundary, Pause, LastPush, Merge, SyncFails, Connected, Close, HandOver, rollouts
  <2>3. pending'.got \in {pending.got, <<>>}
    BY <2>2 DEF NoPending
  <2> QED
    BY <1>1, <2>1, <2>2, <2>3
<1>6. CASE StopProducers
  BY <1>1, <1>6 DEF StopProducers, Enter, Training
<1>7. CASE OpenWindow
  BY <1>1, <1>7 DEF OpenWindow, Training
<1>8. CASE NextBatch
  <2>1. /\ Len(pending.got) = Prompts /\ UNCHANGED <<buffer, steps>> /\ at = "collect" /\ at' = "train"
        /\ pending'.got = <<>> /\ batch' = Min(ToSet(pending.got))
    BY <1>8 DEF NextBatch, Enter
  <2>2. Training = 0 /\ Training' = 1
    BY <2>1 DEF Training
  <2>3. ASSUME NEW i \in 1..Len(buffer') PROVE FitsNext(buffer'[i], Len(pending'.got) + i)
    <3>1. i \in 1..Len(buffer) /\ i \in Nat /\ buffer'[i] = buffer[i] /\ buffer[i] \in Nat
      BY <1>a, <2>1
    <3>2. buffer[i] <= steps /\ Prompts * (steps - buffer[i] + 0) + (Prompts + i) <= Slots
      BY <1>b, <2>1, <2>2, <3>1 DEF Fits
    <3>3. Prompts * (steps - buffer[i] + 1) + (0 + i) <= Slots
      <4>1. Prompts * (steps - buffer[i] + 1) = Prompts * (steps - buffer[i] + 0) + Prompts
        BY <1>0, <3>1
      <4>2. ASSUME NEW q \in Int, q + (Prompts + i) <= Slots PROVE (q + Prompts) + (0 + i) <= Slots
        BY <1>0, <3>1, <4>2
      <4>3. Prompts * (steps - buffer[i] + 0) \in Int
        BY <1>0, <3>1
      <4> QED
        BY <3>2, <4>1, <4>2, <4>3
    <3>4. Len(pending'.got) = 0
      BY <2>1
    <3> QED
      BY <2>1, <2>2, <3>1, <3>2, <3>3, <3>4 DEF FitsNext
  <2>4. PICK j \in 1..Len(pending.got) : batch' = pending.got[j]
    <3>1. ToSet(pending.got) \in SUBSET Nat /\ pending.got[1] \in ToSet(pending.got)
      BY <1>0, <1>a, <2>1 DEF ToSet, SlotInv
    <3>2. batch' \in ToSet(pending.got)
      BY <2>1, <3>1, OldestIsOne
    <3> QED
      BY <1>0, <3>2 DEF ToSet, SlotInv
  <2>5. batch' \in 0..steps' /\ Prompts * (steps' - batch') < Slots
    <3>1. pending.got[j] <= steps /\ Prompts * (steps - pending.got[j] + 0) + j <= Slots /\ pending.got[j] \in Nat
      BY <1>a, <1>b, <2>2 DEF Fits
    <3>2. Prompts * (steps - pending.got[j] + 0) = Prompts * (steps - batch') /\ j \in Nat /\ j >= 1
      BY <1>0, <1>a, <2>4, <3>1
    <3>3. ASSUME NEW q \in Int, q + j <= Slots PROVE q < Slots
      BY <1>0, <3>2, <3>3
    <3>4. Prompts * (steps - batch') \in Int
      BY <1>0, <2>4, <3>1
    <3> QED
      BY <1>0, <2>1, <2>4, <3>1, <3>2, <3>3, <3>4
  <2>6. \A k \in 1..Len(pending'.got) : FitsNext(pending'.got[k], k)
    BY <2>1
  <2> QED
    BY <1>c, <2>3, <2>5, <2>6
<1>9. CASE Optimize
  <2>1. /\ steps' = steps + 1 /\ UNCHANGED <<buffer, pending, batch>> /\ at = "train" /\ at' = "handing"
    BY <1>9 DEF Optimize, Enter, rollouts
  <2>2. Training = 1 /\ Training' = 0
    BY <2>1 DEF Training
  <2> QED
    BY <1>0, <1>1, <2>1, <2>2
<1> QED
  BY <1>2, <1>3, <1>4, <1>5, <1>6, <1>7, <1>8, <1>9 DEF ReplicaNext, TrainLoop, Background

-----------------------------------------------------------------------------
(* The replica: its exchange. *)

\* What a reply makes of the client and of the trainer's weights.
LEMMA AdoptedTyped ==
  ASSUME ServerInv, ClientInv, steps \in Nat
  PROVE  /\ Adopted.slice \in [Fragment -> [model: Seq(Interval), since: Nat]]
         /\ \A f \in Fragment : Adopted.slice[f].since <= steps
         /\ Adopted.origin \in [Fragment -> Seq(Interval)] /\ Adopted.rev \in Nat
<1>1. CASE call.state = "answered"
  <2>1. call.frag \in Fragment /\ call.model[call.frag] \in Seq(Interval) /\ call.newRev \in Nat
    BY <1>1 DEF ServerInv, Calls
  <2>. DEFINE new == [model |-> call.model[call.frag], since |-> steps]
  <2>2. Adopted = [slice |-> [slice EXCEPT ![call.frag] = new],
                   origin |-> [origin EXCEPT ![call.frag] = call.model[call.frag]], rev |-> call.newRev]
    BY <1>1 DEF Adopted, Loaded, PushedFragment
  <2>3. new \in [model: Seq(Interval), since: Nat] /\ new.since <= steps
    BY <2>1
  <2>. HIDE DEF new
  <2>4. [slice EXCEPT ![call.frag] = new] \in [Fragment -> [model: Seq(Interval), since: Nat]]
    BY <2>1, <2>3 DEF ClientInv
  <2>5. \A f \in Fragment : [slice EXCEPT ![call.frag] = new][f].since <= steps
    BY <2>1, <2>3 DEF ClientInv
  <2>6. [origin EXCEPT ![call.frag] = call.model[call.frag]] \in [Fragment -> Seq(Interval)]
    BY <2>1 DEF ClientInv
  <2> QED
    BY <2>1, <2>2, <2>4, <2>5, <2>6
<1>2. CASE call.state # "answered"
  BY <1>2 DEF Adopted, ClientInv
<1> QED
  BY <1>1, <1>2

\* The rotation goes on to a fragment.
LEMMA NextTurnTyped ==
  ASSUME ServerInv, turn \in Fragment PROVE NextTurn \in Fragment
<1>1. fragments \in Nat \ {0} /\ turn \in Nat
  BY FragmentServerTypes DEF ServerInv, Fragment
<1> QED
  BY <1>1 DEF NextTurn, Fragment

LEMMA AdoptAndPushTyped ==
  ASSUME ServerInv, ClientInv, steps \in Nat, steps' = steps, fragments' = fragments, AdoptAndPush
  PROVE  /\ ClientInv' /\ call' \in Calls /\ call'.state = "running"
         /\ turn' = NextTurn /\ cycle' = [cycle EXCEPT ![turn] = cycle[turn] + 1]
<1>1. /\ Adopted.slice \in [Fragment -> [model: Seq(Interval), since: Nat]]
      /\ \A f \in Fragment : Adopted.slice[f].since <= steps
      /\ Adopted.origin \in [Fragment -> Seq(Interval)] /\ Adopted.rev \in Nat
  BY AdoptedTyped
<1>2. slice' = Adopted.slice /\ origin' = Adopted.origin /\ originRev' = Adopted.rev /\ turn' = NextTurn
      /\ cycle' = [cycle EXCEPT ![turn] = cycle[turn] + 1]
  BY DEF AdoptAndPush
<1>3. turn \in Fragment /\ NextTurn \in Fragment
  BY NextTurnTyped DEF ClientInv
<1>4. ClientInv'
  BY <1>1, <1>2, <1>3 DEF ClientInv, Fragment
<1>5. NoCall \in Calls
  BY FragmentServerTypes, NoCallTyped DEF ServerInv
<1>6. /\ Adopted.origin[turn] \in Seq(Interval)
      /\ [from |-> Adopted.slice[turn].since, to |-> steps] \in Interval
  BY <1>1, <1>3 DEF Interval
<1>7. call' = [state |-> "running", kind |-> "push", frag |-> turn,
               work |-> [from |-> Adopted.slice[turn].since, to |-> steps],
               basis |-> Adopted.origin[turn], rev |-> Adopted.rev, applied |-> NoCall.applied,
               model |-> NoCall.model, newRev |-> NoCall.newRev, steps |-> NoCall.steps]
  BY <1>5 DEF AdoptAndPush, Calls
<1>8. call' \in Calls /\ call'.state = "running"
  BY <1>1, <1>3, <1>5, <1>6, <1>7 DEF Calls
<1> QED
  BY <1>2, <1>4, <1>8

LEMMA ReplicaExchange ==
  ASSUME ReplicaInv, [ReplicaNext]_replicaVars
  PROVE  ServerInv' /\ ClientInv'
<1> USE DEF ReplicaInv
<1>f. fragments' = fragments /\ Fragment' = Fragment
  BY RunStays
<1>0. /\ ServerInv /\ ClientInv /\ steps \in Nat /\ fragments \in Nat \ {0}
      /\ faults \in [FaultKinds -> Nat] /\ call \in Calls /\ late \subseteq Calls
  BY FragmentServerTypes DEF ServerInv, LoopInv
<1>n. NoCall \in Calls /\ NoCall.state = "none"
  BY <1>0, NoCallTyped DEF NoCall
<1>s. ASSUME UNCHANGED <<server, late, faults>>, call' \in Calls, call'.state = "answered" => call' = call PROVE ServerInv'
  BY <1>0, <1>f, <1>s, ClientStep
<1>k. ASSUME UNCHANGED client, steps' \in {steps, steps + 1} PROVE ClientInv'
  <2>1. ASSUME NEW s \in Nat, s <= steps PROVE s <= steps /\ s <= steps + 1
    BY <1>0, <2>1
  <2>2. \A f \in Fragment : slice[f].since <= steps'
    BY <1>0, <1>k, <2>1 DEF ClientInv
  <2> QED
    BY <1>0, <1>f, <1>k, <2>2 DEF ClientInv, client
<1>1. CASE ServerNext /\ UNCHANGED replica
  BY <1>k, <1>1, ServerStep DEF replica, loop
<1>2. CASE Take /\ Quiet
  <2>1. faults' \in [FaultKinds -> Nat] /\ UNCHANGED <<client, steps, call, late, server>>
    BY <1>0, <1>2, SpendTyped DEF Take, Quiet, loop, FaultKinds
  <2> QED
    BY <1>0, <1>f, <1>k, <2>1, ClientStep
<1>3. CASE UNCHANGED replicaVars
  BY <1>0, <1>k, <1>s, <1>3 DEF replicaVars, replica, loop
<1>4. ASSUME UNCHANGED <<client, call>>, steps' \in {steps, steps + 1}, Quiet, UNCHANGED faults PROVE ServerInv' /\ ClientInv'
  BY <1>0, <1>k, <1>s, <1>4 DEF Quiet
<1>5. CASE Quiet /\ UNCHANGED faults /\ (Background \/ OpenWindow \/ Finish \/ NextBatch \/ Optimize \/ HandOver \/ Pause \/ StopProducers)
  BY <1>4, <1>5 DEF Background, Admit, HandoffPushed, HandoffPulled, OpenWindow, Finish, NextBatch, Optimize, HandOver,
     Pause, StopProducers, Enter, loop
<1>6. CASE Quiet /\ UNCHANGED faults /\ Connect
  <2>1. call' = [state |-> "running", kind |-> NoCall.kind, frag |-> NoCall.frag, work |-> NoCall.work,
                 basis |-> NoCall.basis, rev |-> NoCall.rev, applied |-> NoCall.applied,
                 model |-> NoCall.model, newRev |-> NoCall.newRev, steps |-> NoCall.steps]
    BY <1>n, <1>6 DEF Connect, Calls
  <2>2. call' \in Calls /\ call'.state = "running"
    BY <1>n, <2>1 DEF Calls
  <2> QED
    BY <1>k, <1>s, <1>6, <2>2 DEF Connect, Quiet
<1>7. CASE Quiet /\ UNCHANGED faults /\ Connected
  <2>1. call' = NoCall /\ UNCHANGED <<steps, turn>>
        /\ \/ UNCHANGED <<slice, origin, originRev>>
           \/ /\ call.state = "answered"
              /\ slice' = [f \in Fragment |-> [model |-> call.model[f], since |-> 0]]
              /\ origin' = call.model /\ originRev' = call.newRev
    BY <1>7 DEF Connected
  <2>2. CASE UNCHANGED <<slice, origin, originRev>>
    BY <1>k, <1>n, <1>s, <1>7, <2>1, <2>2 DEF Quiet, client
  <2>3. CASE /\ call.state = "answered"
             /\ slice' = [f \in Fragment |-> [model |-> call.model[f], since |-> 0]]
             /\ origin' = call.model /\ originRev' = call.newRev
    <3>1. call.model \in [Fragment -> Seq(Interval)] /\ call.newRev \in Nat
      BY <2>3 DEF ServerInv, Calls
    <3>2. slice' \in [Fragment -> [model: Seq(Interval), since: Nat]] /\ \A f \in Fragment : slice'[f].since <= steps
      BY <1>0, <2>3, <3>1
    <3>3. ClientInv'
      BY <1>0, <1>f, <2>1, <2>3, <3>1, <3>2 DEF ClientInv
    <3> QED
      BY <1>n, <1>s, <1>7, <2>1, <3>3 DEF Quiet
  <2> QED
    BY <2>1, <2>2, <2>3
<1>8. CASE Quiet /\ UNCHANGED faults /\ FragmentBoundary
  <2>1. CASE call.state = "failed"
    BY <1>k, <1>n, <1>s, <1>8, <2>1 DEF FragmentBoundary, Quiet
  <2>2. CASE call.state # "failed"
    BY <1>0, <1>f, <1>s, <1>8, <2>2, AdoptAndPushTyped DEF FragmentBoundary, Quiet
  <2> QED
    BY <2>1, <2>2
<1>9. CASE Quiet /\ UNCHANGED faults /\ LastPush
  BY <1>0, <1>f, <1>s, <1>9, AdoptAndPushTyped DEF LastPush, Quiet
<1>10. CASE Quiet /\ UNCHANGED faults /\ Merge
  <2>1. /\ slice' = Adopted.slice /\ origin' = Adopted.origin /\ originRev' = Adopted.rev
        /\ UNCHANGED <<turn, steps>> /\ call' = NoCall
    BY <1>10 DEF Merge
  <2>2. ClientInv'
    BY <1>0, <1>f, <2>1, AdoptedTyped DEF ClientInv
  <2> QED
    BY <1>n, <1>s, <1>10, <2>1, <2>2 DEF Quiet
<1>11. CASE Quiet /\ UNCHANGED faults /\ (SyncFails \/ Close)
  BY <1>k, <1>n, <1>s, <1>11 DEF SyncFails, Close, Quiet
<1> QED
  BY <1>1, <1>2, <1>3, <1>5, <1>6, <1>7, <1>8, <1>9, <1>10, <1>11 DEF ReplicaNext, TrainLoop

-----------------------------------------------------------------------------
(* The replica: its rotation through the fragments. *)

\* A window is so many fragment windows, none of them empty.
LEMMA WindowOfFragments ==
  ASSUME ReplicaInv
  PROVE  /\ fragments \in Nat \ {0} /\ FragmentWindow \in Nat \ {0} /\ window \in Nat /\ h \in Nat
         /\ window = fragments * FragmentWindow
<1>1. /\ fragments \in Nat \ {0} /\ window \in Nat \ {0} /\ h \in Nat /\ window = fragments * FragmentWindow
  BY FragmentServerTypes DEF ReplicaInv, ServerInv, LoopInv, CycleInv
<1>2. FragmentWindow \in Nat
  BY <1>1 DEF FragmentWindow
<1>3. FragmentWindow # 0
  BY <1>1
<1> QED
  BY <1>1, <1>2, <1>3

\* A whole number of shares is that number of shares.
LEMMA SharesOfProduct ==
  ASSUME NEW p \in Nat \ {0}, NEW k \in Nat
  PROVE  (p * k) \div p = k
OBVIOUS

\* The step of a fragment's boundary is found at its multiple, and nowhere
\* before it in the fragment's share of the window.
LEMMA BoundaryFound ==
  ASSUME NEW w \in Nat \ {0}, NEW n \in Nat, NEW x \in Nat, n * w < x, x <= (n + 1) * w
  PROVE  x % w = 0 <=> x = (n + 1) * w
<1>1. (n + 1) * w = n * w + w /\ n * w \in Nat
  OBVIOUS
<1>2. ((n + 1) * w) % w = 0
  OBVIOUS
<1>3. ASSUME x < (n + 1) * w PROVE x % w # 0
  <2>1. PICK r \in 1 .. (w - 1) : x = n * w + r
    <3>1. ASSUME NEW q \in Nat, q < x, x < q + w PROVE \E r \in 1 .. (w - 1) : x = q + r
      <4>1. x - q \in 1 .. (w - 1) /\ x = q + (x - q)
        BY <3>1
      <4> QED
        BY <4>1
    <3> QED
      BY <1>1, <1>3, <3>1
  <2>2. (n * w + r) % w = r
    OBVIOUS
  <2> QED
    BY <2>1, <2>2
<1> QED
  BY <1>1, <1>2, <1>3

\* The last share ends where the window does, and no other.
LEMMA LastShare ==
  ASSUME NEW w \in Nat \ {0}, NEW p \in Nat \ {0}, NEW n \in Nat, n < p
  PROVE  /\ (n + 1) * w <= p * w
         /\ (n + 1) * w = p * w <=> n + 1 = p
         /\ (n + 1) * w < (n + 2) * w
<1>1. PICK d \in Nat : p = n + 1 + d
  <2>1. p - (n + 1) \in Nat /\ p = n + 1 + (p - (n + 1))
    OBVIOUS
  <2> QED
    BY <2>1
<1>2. p * w = (n + 1) * w + d * w /\ (n + 2) * w = (n + 1) * w + w /\ (n + 1) * w \in Nat /\ d * w \in Nat
  BY <1>1
<1>3. d * w = 0 <=> d = 0
  OBVIOUS
<1> QED
  BY <1>1, <1>2, <1>3

\* A push moves every fragment one back, and the one pushed to the front.
LEMMA PushShifts ==
  ASSUME fragments \in Nat \ {0}, turn \in Fragment, fragments' = fragments, turn' = NextTurn, NEW f \in Fragment
  PROVE  /\ Behind(f) \in 0 .. (fragments - 1)
         /\ f = turn => Behind(f) = fragments - 1 /\ Behind(f)' = 0
         /\ f # turn => Behind(f)' = Behind(f) + 1
<1>1. turn \in Nat /\ f \in Nat /\ 1 <= turn /\ turn <= fragments /\ 1 <= f /\ f <= fragments
  BY DEF Fragment
<1>2. turn' = IF turn = fragments THEN 1 ELSE turn + 1
  BY <1>1 DEF NextTurn
<1>3. Behind(f)' = IF f < turn' THEN turn' - 1 - f ELSE turn' - 1 - f + fragments
  BY DEF Behind
<1>4. CASE turn = fragments
  <2>1. Behind(f)' = 0 - f + fragments
    BY <1>1, <1>2, <1>3, <1>4
  <2> QED
    BY <1>1, <1>4, <2>1 DEF Behind
<1>5. CASE turn # fragments
  <2>1. turn' = turn + 1
    BY <1>2, <1>5
  <2>2. Behind(f)' = IF f < turn + 1 THEN turn - f ELSE turn - f + fragments
    BY <1>1, <1>3, <2>1
  <2> QED
    BY <1>1, <1>5, <2>2 DEF Behind
<1> QED
  BY <1>4, <1>5

\* With n fragments pushed in the window, the next push makes them n + 1.
LEMMA OneMorePushed ==
  ASSUME fragments \in Nat \ {0}, turn \in Fragment, fragments' = fragments, turn' = NextTurn,
         cycle \in [Fragment -> Nat], cycle' = [cycle EXCEPT ![turn] = cycle[turn] + 1],
         NEW n \in Nat, n < fragments, Pushed(n)
  PROVE  cycle' \in [Fragment' -> Nat] /\ Pushed(n + 1)'
<1>1. Fragment' = Fragment
  BY DEF Fragment
<1>2. cycle' \in [Fragment -> Nat]
  OBVIOUS
<1>3. ASSUME NEW f \in Fragment PROVE cycle'[f] = IF Behind(f)' < n + 1 THEN 1 ELSE 0
  <2>1. cycle[f] = IF Behind(f) < n THEN 1 ELSE 0
    BY DEF Pushed
  <2>2. CASE f = turn
    <3>1. Behind(f) = fragments - 1 /\ Behind(f)' = 0
      BY <2>2, PushShifts
    <3>2. cycle[f] = 0
      BY <2>1, <3>1
    <3> QED
      BY <2>2, <3>1, <3>2
  <2>3. CASE f # turn
    <3>1. Behind(f)' = Behind(f) + 1 /\ Behind(f) \in Int
      BY <2>3, PushShifts
    <3>2. Behind(f) < n <=> Behind(f)' < n + 1
      BY <3>1
    <3> QED
      BY <2>1, <2>3, <3>2
  <2> QED
    BY <2>2, <2>3
<1> QED
  BY <1>1, <1>2, <1>3 DEF Pushed

LEMMA ReplicaCycle ==
  ASSUME ReplicaInv, [ReplicaNext]_replicaVars
  PROVE  CycleInv'
<1>f. fragments' = fragments /\ Fragment' = Fragment
  BY RunStays DEF ReplicaInv
<1>w. /\ fragments \in Nat \ {0} /\ FragmentWindow \in Nat \ {0} /\ window \in Nat /\ h \in Nat
      /\ window = fragments * FragmentWindow
  BY WindowOfFragments
<1>0. /\ cycle \in [Fragment -> Nat] /\ turn \in Fragment /\ at \in Places /\ outer \in Nat /\ failures \in Nat
      /\ (at = "start" /\ outer > 0 /\ failures = 0 => call.state = "none")
      /\ (at \in {"setup", "connecting"} => outer = 0)
  BY ReplicaConstants DEF ReplicaInv, CycleInv, ClientInv, LoopInv, MaxFailures
<1>p. PICK n \in 0..fragments : Pushed(n) /\ Passed(n)
  BY DEF ReplicaInv, CycleInv
<1>n. n \in Nat /\ n <= fragments
  BY <1>w
<1>. USE DEF Places
\* What the steps that push nothing leave to show.
<1>k. ASSUME UNCHANGED <<window, cycle, turn>>, Passed(n)',
             at' = "start" /\ outer' > 0 /\ failures' = 0 => call'.state = "none"
      PROVE  CycleInv'
  <2>1. Pushed(n)'
    BY <1>f, <1>p, <1>k DEF Pushed, Behind
  <2>2. n \in 0 .. fragments'
    BY <1>f
  <2>3. window' = fragments' * FragmentWindow' /\ cycle' \in [Fragment' -> Nat]
    BY <1>f, <1>w, <1>0, <1>k DEF FragmentWindow
  <2> QED
    BY <1>k, <2>1, <2>2, <2>3 DEF CycleInv
\* And those that push: n + 1 fragments are pushed.
<1>m. ASSUME UNCHANGED window, n < fragments, AdoptAndPush, Passed(n + 1)', at' # "start"
      PROVE  CycleInv'
  <2>1. turn' = NextTurn /\ cycle' = [cycle EXCEPT ![turn] = cycle[turn] + 1]
    BY <1>m DEF AdoptAndPush
  <2>2. cycle' \in [Fragment' -> Nat] /\ Pushed(n + 1)'
    BY <1>f, <1>w, <1>0, <1>n, <1>p, <1>m, <2>1, OneMorePushed
  <2>3. n + 1 \in 0 .. fragments'
    BY <1>f, <1>w, <1>n, <1>m
  <2>4. window' = fragments' * FragmentWindow'
    BY <1>f, <1>w, <1>m DEF FragmentWindow
  <2> QED
    BY <1>m, <2>2, <2>3, <2>4 DEF CycleInv
<1>g. ASSUME UNCHANGED window PROVE FragmentWindow' = FragmentWindow
  BY <1>f, <1>g DEF FragmentWindow
<1>1. CASE UNCHANGED <<loop, turn>> /\ (call'.state = call.state \/ call.state # "none")
  <2>1. UNCHANGED <<at, ended, window, h, outer, failures, cycle, turn>>
    BY <1>1 DEF loop
  <2>2. Passed(n)'
    BY <1>f, <1>g, <1>p, <2>1 DEF Passed
  <2> QED
    BY <1>0, <1>1, <1>k, <2>1, <2>2
<1>2. CASE ServerNext /\ UNCHANGED replica
  <2>1. call'.state = call.state \/ call.state # "none"
    BY <1>2 DEF ServerNext, Serve, ServeLate, CallFails, OtherCommits, Save, ServerRestart
  <2> QED
    BY <1>1, <1>2, <2>1 DEF replica, client
<1>3. CASE Background \/ Take \/ UNCHANGED replicaVars
  BY <1>1, <1>3 DEF Background, Admit, HandoffPushed, HandoffPulled, Take, replicaVars, replica, client
<1>4. CASE Connect \/ Finish \/ StopProducers \/ Close
  <2>1. at' \notin {"start"} \cup InWindow /\ UNCHANGED <<window, cycle, turn>>
    BY <1>4 DEF Connect, Finish, StopProducers, Close, Enter, client, InWindow
  <2> QED
    BY <1>k, <2>1 DEF Passed, InWindow
<1>5. CASE Connected
  <2>1. at' \in {"start", "close"} /\ outer' = 0 /\ UNCHANGED <<window, cycle, turn>>
    BY <1>0, <1>5 DEF Connected, Enter
  <2> QED
    BY <1>k, <2>1 DEF Passed
<1>6. CASE OpenWindow
  <2>1. at' = "collect" /\ h' = 0 /\ cycle' = [f \in Fragment |-> 0] /\ UNCHANGED <<window, turn>>
    BY <1>6 DEF OpenWindow, client
  <2>2. Pushed(0)'
    <3>1. ASSUME NEW f \in Fragment PROVE ~(Behind(f)' < 0)
      BY <1>f, <1>w, <1>0, <2>1 DEF Behind, Fragment
    <3> QED
      BY <1>f, <2>1, <3>1 DEF Pushed
  <2>3. 0 * FragmentWindow <= 0 /\ 0 < (0 + 1) * FragmentWindow /\ 0 < fragments /\ 0 \in 0..fragments
    BY <1>w
  <2>4. Passed(0)'
    BY <1>f, <1>g, <2>1, <2>3 DEF Passed
  <2>5. window' = fragments' * FragmentWindow' /\ cycle' \in [Fragment' -> Nat]
    BY <1>f, <1>g, <1>w, <2>1
  <2> QED
    BY <1>f, <2>1, <2>2, <2>3, <2>4, <2>5 DEF CycleInv
<1>7. CASE NextBatch
  <2>1. at = "collect" /\ at' = "train" /\ UNCHANGED <<window, h, cycle, turn>>
    BY <1>7 DEF NextBatch, Enter, client
  <2>2. Passed(n)'
    BY <1>f, <1>g, <1>p, <2>1 DEF Passed
  <2> QED
    BY <1>k, <2>1, <2>2
<1>8. CASE Optimize
  <2>1. at = "train" /\ at' = "handing" /\ h' = h + 1 /\ UNCHANGED <<window, cycle, turn>>
    BY <1>8 DEF Optimize, Enter, client
  <2>2. n < fragments /\ n * FragmentWindow <= h /\ h < (n + 1) * FragmentWindow
    BY <1>p, <2>1 DEF Passed
  <2>3. n * FragmentWindow < h + 1 /\ h + 1 <= (n + 1) * FragmentWindow
    <3>1. n * FragmentWindow \in Nat /\ (n + 1) * FragmentWindow \in Nat
      BY <1>n, <1>w
    <3>2. ASSUME NEW a \in Nat, NEW b \in Nat, a <= h, h < b PROVE a < h + 1 /\ h + 1 <= b
      BY <1>w, <3>2
    <3> QED
      BY <2>2, <3>1, <3>2
  <2>4. Passed(n)'
    BY <1>f, <1>g, <2>1, <2>2, <2>3 DEF Passed
  <2> QED
    BY <1>k, <2>1, <2>4
<1>9. CASE HandOver
  <2>1. /\ at = "handing" /\ at' \in {AfterStep, "stop"} /\ UNCHANGED <<window, h, outer, failures, cycle, turn>>
    BY <1>9 DEF HandOver, Enter, client
  <2>2. n < fragments /\ n * FragmentWindow < h /\ h <= (n + 1) * FragmentWindow
    BY <1>p, <2>1 DEF Passed
  <2>3. h % FragmentWindow = 0 <=> h = (n + 1) * FragmentWindow
    BY <1>n, <1>w, <2>2, BoundaryFound
  <2>4. (n + 1) * FragmentWindow <= window /\ ((n + 1) * FragmentWindow = window <=> n + 1 = fragments)
    BY <1>n, <1>w, <2>2, LastShare
  <2>5. (n + 1) * FragmentWindow \in Nat
    BY <1>n, <1>w
  <2>6. CASE at' = "merge" /\ h = window
    <3>1. n + 1 = fragments
      BY <1>w, <2>2, <2>4, <2>5, <2>6
    <3>2. Passed(n)'
      BY <1>f, <2>6, <3>1 DEF Passed
    <3> QED
      BY <1>k, <2>1, <2>6, <3>2
  <2>7. CASE at' = "boundary" /\ h # window /\ h % FragmentWindow = 0
    <3>1. n + 1 < fragments /\ h = (n + 1) * FragmentWindow
      BY <1>n, <1>w, <2>2, <2>3, <2>4, <2>7
    <3>2. Passed(n)'
      BY <1>f, <1>g, <2>1, <2>7, <3>1 DEF Passed
    <3> QED
      BY <1>k, <2>1, <2>7, <3>2
  <2>8. CASE at' = "collect" /\ h # window /\ ~(fragments > 1 /\ h % FragmentWindow = 0)
    <3>1. h # (n + 1) * FragmentWindow
      <4>1. CASE fragments > 1
        BY <2>3, <2>8, <4>1
      <4>2. CASE ~(fragments > 1)
        <5>1. n + 1 = fragments
          BY <1>n, <1>w, <2>2, <4>2
        <5> QED
          BY <2>4, <2>8, <5>1
      <4> QED
        BY <4>1, <4>2
    <3>2. n * FragmentWindow <= h /\ h < (n + 1) * FragmentWindow
      <4>1. n * FragmentWindow \in Nat
        BY <1>n, <1>w
      <4>2. ASSUME NEW a \in Nat, NEW b \in Nat, a < h, h <= b, h # b PROVE a <= h /\ h < b
        BY <1>w, <4>2
      <4> QED
        BY <2>2, <2>5, <3>1, <4>1, <4>2
    <3>3. Passed(n)'
      BY <1>f, <1>g, <2>1, <2>2, <2>8, <3>2 DEF Passed
    <3> QED
      BY <1>k, <2>1, <2>8, <3>3
  <2>9. CASE at' = "stop"
    <3>1. Passed(n)'
      BY <2>9 DEF Passed
    <3> QED
      BY <1>k, <2>1, <2>9, <3>1
  <2> QED
    BY <2>1, <2>6, <2>7, <2>8, <2>9 DEF AfterStep
<1>10. CASE FragmentBoundary
  <2>1. at = "boundary" /\ UNCHANGED <<window, h>>
    BY <1>10 DEF FragmentBoundary, Enter
  <2>2. n + 1 < fragments /\ h = (n + 1) * FragmentWindow
    BY <1>p, <2>1 DEF Passed
  <2>3. CASE at' = "stop" /\ UNCHANGED <<cycle, client>>
    BY <1>k, <2>1, <2>3 DEF Passed, client
  <2>4. CASE at' = "collect" /\ AdoptAndPush
    <3>1. (n + 1) * FragmentWindow < (n + 2) * FragmentWindow /\ (n + 1) * FragmentWindow \in Nat
      BY <1>n, <1>w, <2>2, LastShare
    <3>2. n < fragments /\ (n + 1) + 1 = n + 2
      BY <1>n, <1>w, <2>2
    <3>3. Passed(n + 1)'
      BY <1>f, <1>g, <1>w, <2>1, <2>2, <2>4, <3>1, <3>2 DEF Passed
    <3> QED
      BY <1>m, <2>1, <2>4, <3>2, <3>3
  <2> QED
    BY <1>10, <2>3, <2>4 DEF FragmentBoundary, Enter
<1>11. CASE Pause
  <2>1. at = "merge" /\ at' = "settle" /\ UNCHANGED <<window, cycle, turn>>
    BY <1>11 DEF Pause, Enter, client
  <2>2. Passed(n)'
    BY <1>f, <1>p, <2>1 DEF Passed
  <2> QED
    BY <1>k, <2>1, <2>2
<1>12. CASE LastPush
  <2>1. at = "settle" /\ at' = "posting" /\ UNCHANGED window /\ AdoptAndPush
    BY <1>12 DEF LastPush
  <2>2. n + 1 = fragments
    BY <1>p, <2>1 DEF Passed
  <2>3. Passed(n + 1)' /\ n < fragments
    BY <1>f, <1>n, <2>1, <2>2 DEF Passed
  <2> QED
    BY <1>m, <2>1, <2>3
<1>13. CASE Merge
  <2>1. /\ at = "posting" /\ at' = "start" /\ UNCHANGED <<cycle, turn>> /\ call' = NoCall
        /\ window' = IF call.steps > 0 THEN Rounded(call.steps) ELSE window
    BY <1>13 DEF Merge
  <2>2. n = fragments
    BY <1>p, <2>1 DEF Passed
  <2>3. Pushed(n)' /\ Passed(n)' /\ n \in 0..fragments' /\ cycle' \in [Fragment' -> Nat]
    BY <1>f, <1>0, <1>p, <2>1, <2>2 DEF Pushed, Passed, Behind
  <2>4. PICK k \in Nat : window' = fragments * k
    <3>1. call.steps \in Nat
      BY FragmentServerTypes DEF ReplicaInv, ServerInv, Calls
    <3>2. CASE ~(call.steps > 0)
      BY <1>w, <2>1, <3>2
    <3>3. CASE call.steps > 0 /\ call.steps < fragments
      <4>1. window' = fragments * 1
        BY <1>w, <2>1, <3>3 DEF Rounded
      <4> QED
        BY <4>1
    <3>4. CASE call.steps > 0 /\ ~(call.steps < fragments)
      <4>1. call.steps \div fragments \in Nat
        BY <1>w, <3>1
      <4>2. window' = fragments * (call.steps \div fragments)
        BY <1>w, <2>1, <3>1, <3>4, <4>1 DEF Rounded
      <4> QED
        BY <4>1, <4>2
    <3> QED
      BY <3>2, <3>3, <3>4
  <2>5. window' = fragments' * FragmentWindow'
    BY <1>f, <1>w, <2>4, SharesOfProduct DEF FragmentWindow
  <2>6. call'.state = "none"
    BY <2>1 DEF NoCall
  <2> QED
    BY <2>3, <2>5, <2>6 DEF CycleInv
<1>14. CASE SyncFails
  <2>1. at' \in {"start", "stop"} /\ failures' = failures + 1 /\ UNCHANGED <<window, cycle, turn>>
    BY <1>14 DEF SyncFails, client
  <2>2. failures' # 0
    BY <1>0, <2>1
  <2>3. Passed(n)'
    BY <2>1, <2>2 DEF Passed
  <2> QED
    BY <1>k, <2>1, <2>2, <2>3
<1> QED
  BY <1>2, <1>3, <1>4, <1>5, <1>6, <1>7, <1>8, <1>9, <1>10, <1>11, <1>12, <1>13, <1>14 DEF ReplicaNext, TrainLoop

LEMMA ReplicaSteps ==
  ReplicaInv /\ [ReplicaNext]_replicaVars => ReplicaInv'
BY ReplicaLoop, ReplicaHandoff, ReplicaSlots, ReplicaAges, ReplicaExchange, ReplicaCycle DEF ReplicaInv

LEMMA ReplicaStarts ==
  ReplicaInit => ReplicaInv
<1>. SUFFICES ASSUME ReplicaInit PROVE ReplicaInv
  OBVIOUS
<1>0. /\ plan \in ReplicaRuns /\ fragments = plan.fragments /\ faults = plan.faults
      /\ call = NoCall /\ late = {} /\ log = [f \in Fragment |-> <<>>] /\ revision = 0
      /\ disk = [log |-> log, revision |-> 0] /\ commits = 0
      /\ at = "setup" /\ ended = "no" /\ window = Window /\ h = 0 /\ steps = 0 /\ outer = 0 /\ failures = 0
      /\ slice = [f \in Fragment |-> [model |-> <<>>, since |-> 0]]
      /\ origin = [f \in Fragment |-> <<>>] /\ originRev = 0 /\ turn = 1
      /\ buffer = <<>> /\ paused = FALSE /\ taken = 0 /\ pending = NoPending /\ batch = 0
      /\ handoff = NoHandoff /\ gen = [version |-> 0, merges |-> 0] /\ merges = 0
      /\ cycle = [f \in Fragment |-> 0] /\ lost = {}
  BY DEF ReplicaInit, ReplicaInitAs
<1>1. plan \in [fragments: 1..MaxFragments, windows: Nat, faults: [FaultKinds -> Nat]]
  BY <1>0, ReplicaConstants
<1>2. /\ fragments \in 1..MaxFragments /\ fragments \in Nat \ {0} /\ plan.windows \in Nat
      /\ faults \in [FaultKinds -> Nat]
  BY <1>0, <1>1, FragmentServerTypes
<1>3. <<>> \in Seq(Interval)
  OBVIOUS
<1>4. ServerInv
  <2>1. log \in [Fragment -> Seq(Interval)]
    BY <1>0, <1>3
  <2>2. call \in Calls /\ call.state = "none"
    BY <1>0, <1>2, NoCallTyped DEF NoCall
  <2> QED
    BY <1>0, <1>2, <2>1, <2>2, FragmentServerTypes DEF ServerInv
<1>5. LoopInv
  BY <1>0, <1>2, ReplicaConstants DEF LoopInv, Places, Over, InWindow, MaxFailures, DiesOnlyOfThree
<1>6. HandoffInv
  <2>1. handoff = [phase |-> "none", version |-> 0, merges |-> 0] /\ Unsent = 0 /\ Sending = 0
    BY <1>0 DEF NoHandoff, Unsent, Sending
  <2>2. gen.version + Unsent + Sending = steps
    BY <1>0, <2>1
  <2>3. handoff \in [phase: {"none", "pushing", "pulling"}, version: Nat, merges: Nat] /\ handoff.phase = "none"
    BY <2>1
  <2>4. gen \in [version: Nat, merges: Nat] /\ gen.merges = merges
    BY <1>0
  <2>5. at = "setup" /\ paused \in BOOLEAN
    BY <1>0
  <2> QED
    BY <2>2, <2>3, <2>4, <2>5 DEF HandoffInv
<1>7. SlotInv
  <2>1. Len(buffer) = 0 /\ Len(pending.got) = 0 /\ pending = [on |-> FALSE, got |-> <<>>]
    BY <1>0 DEF NoPending
  <2>2. Training = 0 /\ Unsent = 0 /\ Sending = 0
    BY <1>0 DEF Training, Unsent, Sending, NoHandoff
  <2> QED
    BY <1>0, <2>1, <2>2, ReplicaConstants DEF SlotInv, Held
<1>8. AgeInv
  BY <1>0 DEF AgeInv, NoPending
<1>9. ClientInv
  BY <1>0, <1>2, <1>3 DEF ClientInv, Fragment
<1>10. CycleInv
  <2>1. window = fragments * FragmentWindow
    <3>1. Window % fragments = 0 /\ Window \in Nat
      BY <1>2, ReplicaConstants
    <3>2. ASSUME NEW w \in Nat, NEW p \in Nat \ {0}, w % p = 0 PROVE w = p * (w \div p)
      BY <3>2
    <3> QED
      BY <1>0, <1>2, <3>1, <3>2 DEF FragmentWindow
  <2>2. Pushed(0)
    <3>1. ASSUME NEW f \in Fragment PROVE ~(Behind(f) < 0)
      BY <1>0, <1>2 DEF Behind, Fragment
    <3> QED
      BY <1>0, <3>1 DEF Pushed
  <2>3. Passed(0) /\ 0 \in 0..fragments
    BY <1>0, <1>2 DEF Passed
  <2> QED
    BY <1>0, <2>1, <2>2, <2>3 DEF CycleInv
<1> QED
  BY <1>4, <1>5, <1>6, <1>7, <1>8, <1>9, <1>10 DEF ReplicaInv

LEMMA ReplicaStays ==
  ReplicaSafety => []ReplicaInv
<1>1. ReplicaInit => ReplicaInv
  BY ReplicaStarts
<1>2. ReplicaInv /\ [ReplicaNext]_replicaVars => ReplicaInv'
  BY ReplicaSteps
<1> QED
  BY <1>1, <1>2, PTL DEF ReplicaSafety

\* What an age that fits in the slots is, in batches.
LEMMA AgeInBatches ==
  ASSUME NEW p \in Nat \ {0}, NEW s \in Nat, s % p = 0, NEW a \in Nat, p * a < s
  PROVE  a \in 0 .. (s \div p - 1)
<1>1. PICK k \in Nat : s = p * k /\ s \div p = k
  <2>1. s \div p \in Nat /\ s = p * (s \div p)
    OBVIOUS
  <2> QED
    BY <2>1
<1>2. a < k
  BY <1>1
<1> QED
  BY <1>1, <1>2

\* A batch is trained on at most Slots / Prompts - 1 versions after the oldest
\* of its groups was born, and no group is born under weights that a merge has
\* replaced, however many groups a batch has and slots there are: the
\* controller's born-fresh invariant.
THEOREM RolloutsStayFresh == ReplicaSafety => []RolloutsFresh
<1>1. ReplicaInv => RolloutsFresh
  <2>. SUFFICES ASSUME ReplicaInv PROVE RolloutsFresh
    OBVIOUS
  <2>1. BornOnMerged
    BY DEF ReplicaInv, HandoffInv, BornOnMerged
  <2>2. StalenessBounded
    <3>. SUFFICES ASSUME at = "train" PROVE steps - batch \in 0 .. (Slots \div Prompts - 1)
      BY DEF StalenessBounded
    <3>1. steps - batch \in Nat /\ Prompts * (steps - batch) < Slots
      BY DEF ReplicaInv, AgeInv, LoopInv
    <3> QED
      BY <3>1, ReplicaConstants, AgeInBatches
  <2> QED
    BY <2>1, <2>2 DEF RolloutsFresh
<1> QED
  BY <1>1, ReplicaStays, PTL

\* While a window is merged no group is born, and with whole-model exchanges
\* the weights that a handoff reads do not change: buffer.pause, wait_prev_push
\* and wait_inflight_push_pull keep them apart, whatever fails.
THEOREM MergesStayApart == ReplicaSafety => MergesApart
<1>1. ReplicaInv /\ [ReplicaNext]_replicaVars =>
        /\ [(at \in {"settle", "posting"}) => Len(buffer') <= Len(buffer)]_replicaVars
        /\ [fragments = 1 /\ handoff.phase = "pushing" => UNCHANGED <<steps, slice>>]_replicaVars
  <2>. SUFFICES ASSUME ReplicaInv, ReplicaNext
                PROVE  /\ at \in {"settle", "posting"} => Len(buffer') <= Len(buffer)
                       /\ fragments = 1 /\ handoff.phase = "pushing" => UNCHANGED <<steps, slice>>
    BY DEF replicaVars, replica, loop, client, rollouts
  <2>1. /\ buffer \in Seq(Nat) /\ (at \in {"settle", "posting"} => paused)
        /\ (at \in {"setup", "connecting", "start", "posting"} => handoff.phase = "none")
        /\ (at = "boundary" => fragments > 1)
    BY DEF ReplicaInv, SlotInv, HandoffInv
  <2>2. at \in {"settle", "posting"} => Len(buffer') <= Len(buffer)
    <3>1. CASE UNCHANGED buffer
      BY <2>1, <3>1
    <3>2. CASE Take
      <4>1. buffer # <<>> /\ buffer' = Tail(buffer)
        BY <3>2 DEF Take
      <4> QED
        BY <2>1, <4>1, HeadTailProperties
    <3>3. CASE Admit \/ StopProducers
      BY <2>1, <3>3 DEF Admit, StopProducers
    <3>4. CASE (ServerNext /\ UNCHANGED replica) \/ HandoffPushed \/ HandoffPulled
      BY <3>1, <3>4 DEF replica, rollouts, HandoffPushed, HandoffPulled
    <3>5. CASE TrainLoop /\ ~StopProducers
      BY <3>1, <3>5 DEF TrainLoop, Connect, Connected, OpenWindow, Finish, NextBatch, Optimize, HandOver,
         FragmentBoundary, Pause, LastPush, Merge, SyncFails, Close, rollouts
    <3> QED
      BY <3>2, <3>3, <3>4, <3>5 DEF ReplicaNext, Background
  <2>3. ASSUME fragments = 1, handoff.phase = "pushing" PROVE UNCHANGED <<steps, slice>>
    <3>1. CASE (ServerNext /\ UNCHANGED replica) \/ Background \/ Take
      BY <3>1 DEF replica, loop, client, Background, Admit, HandoffPushed, HandoffPulled, Take
    <3>2. CASE Optimize
      BY <2>3, <3>2 DEF Optimize, PushLanded
    <3>3. CASE Connected \/ FragmentBoundary \/ LastPush \/ Merge
      BY <2>1, <2>3, <3>3 DEF Connected, FragmentBoundary, LastPush, Settled, Merge
    <3>4. CASE Connect \/ OpenWindow \/ Finish \/ NextBatch \/ HandOver \/ Pause \/ SyncFails \/ StopProducers \/ Close
      BY <3>4 DEF Connect, OpenWindow, Finish, NextBatch, HandOver, Pause, SyncFails, StopProducers, Close, client
    <3> QED
      BY <3>1, <3>2, <3>3, <3>4 DEF ReplicaNext, TrainLoop
  <2> QED
    BY <2>2, <2>3
<1> QED
  BY <1>1, ReplicaStays, PTL DEF MergesApart, NoneBornInMerge, PushUntorn, ReplicaSafety

\* A window that is merged has exchanged each fragment once, with nothing in
\* flight when the next one begins; and a whole-model run dies of failed
\* exchanges only when the last three windows' syncs failed.
LEMMA CycleIsWhole ==
  ASSUME ReplicaInv PROVE CycleWhole /\ DiesOnlyOfThree
<1>1. DiesOnlyOfThree
  BY DEF ReplicaInv, LoopInv
<1>2. ASSUME at = "start", outer > 0, failures = 0 PROVE call.state = "none" /\ \A f \in Fragment : cycle[f] = 1
  <2>1. Pushed(fragments) /\ call.state = "none"
    BY <1>2 DEF ReplicaInv, CycleInv, Passed
  <2>2. fragments \in Nat \ {0} /\ turn \in Fragment
    BY FragmentServerTypes DEF ReplicaInv, ServerInv, ClientInv
  <2>3. ASSUME NEW f \in Fragment PROVE Behind(f) < fragments
    BY <2>2 DEF Behind, Fragment
  <2> QED
    BY <2>1, <2>3 DEF Pushed
<1> QED
  BY <1>1, <1>2 DEF CycleWhole

-----------------------------------------------------------------------------
(* The replica: what it pushes. *)

LEMMA AdoptedDone ==
  ASSUME ServerInv, ClientInv, steps \in Nat, call.state \in {"none", "answered"}, call.state = "none" => call.kind = "pull",
         \A f \in Fragment : DoneBy(f, steps),
         \A f \in Fragment : ~(call.kind = "push" /\ call.frag = f) => DoneBy(f, slice[f].since),
         NEW f \in Fragment
  PROVE  DoneBy(f, Adopted.slice[f].since)
<1>1. CASE call.state = "answered"
  <2>1. Adopted.slice = [slice EXCEPT ![call.frag] = [model |-> call.model[call.frag], since |-> steps]]
    BY <1>1 DEF Adopted, Loaded, PushedFragment
  <2>2. call.frag = f => Adopted.slice[f].since = steps
    BY <2>1 DEF ClientInv
  <2>3. call.frag # f => Adopted.slice[f] = slice[f]
    BY <2>1 DEF ClientInv
  <2> QED
    BY <2>2, <2>3
<1>2. CASE call.state = "none"
  BY <1>2 DEF Adopted
<1> QED
  BY <1>1, <1>2

LEMMA AdoptedGrown ==
  ASSUME ServerInv, ClientInv, Grown, \A f \in Fragment : IsPrefix(origin[f], log[f]), NEW f \in Fragment
  PROVE  IsPrefix(Adopted.origin[f], log[f])
<1>1. CASE call.state = "answered"
  <2>1. Adopted.origin = [origin EXCEPT ![call.frag] = call.model[call.frag]]
    BY <1>1 DEF Adopted, PushedFragment
  <2>2. IsPrefix(call.model[f], log[f])
    BY <1>1 DEF Grown
  <2>3. Adopted.origin[f] = IF f = call.frag THEN call.model[f] ELSE origin[f]
    BY <2>1 DEF ClientInv
  <2> QED
    BY <2>2, <2>3
<1>2. CASE call.state # "answered"
  BY <1>2 DEF Adopted
<1> QED
  BY <1>1, <1>2

\* What the next push says.
LEMMA NextPush ==
  ASSUME ServerInv, AdoptAndPush
  PROVE  /\ call'.state = "running" /\ call'.kind = "push" /\ call'.frag = turn
         /\ call'.work = [from |-> Adopted.slice[turn].since, to |-> steps] /\ call'.basis = Adopted.origin[turn]
         /\ slice' = Adopted.slice /\ origin' = Adopted.origin
<1>1. NoCall \in Calls
  BY FragmentServerTypes, NoCallTyped DEF ServerInv
<1>2. call' = [state |-> "running", kind |-> "push", frag |-> turn,
               work |-> [from |-> Adopted.slice[turn].since, to |-> steps],
               basis |-> Adopted.origin[turn], rev |-> Adopted.rev, applied |-> NoCall.applied,
               model |-> NoCall.model, newRev |-> NoCall.newRev, steps |-> NoCall.steps]
  BY <1>1 DEF AdoptAndPush, Calls
<1> QED
  BY <1>2 DEF AdoptAndPush

LEMMA ReplicaOnce ==
  ASSUME ReplicaInv, OnceInv, [ReplicaNext]_replicaVars
  PROVE  OnceInv'
<1>f. fragments' = fragments /\ Fragment' = Fragment
  BY RunStays DEF ReplicaInv
<1>0. /\ ServerInv /\ ClientInv /\ steps \in Nat /\ at \in Places
      /\ (at \notin Over => ended = "no") /\ (at \in {"setup", "connecting"} => steps = 0)
      /\ \A f \in Fragment : slice[f].since \in Nat
  BY DEF ReplicaInv, LoopInv, ClientInv
<1>n. NoCall.kind = "pull" /\ NoCall.state = "none"
  BY DEF NoCall
<1>o. call.state = "none" => call.kind = "pull"
  BY DEF OnceInv
<1>. DEFINE Unfailed == lost = {} /\ ended # "failed"
<1>b. ASSUME Unfailed
      PROVE  /\ ApartInv /\ (\A f \in Fragment : DoneBy(f, steps)) /\ (call.kind = "push" => call.work.to <= steps)
             /\ (at # "left" => \A f \in Fragment : ~(call.kind = "push" /\ call.frag = f) => DoneBy(f, slice[f].since))
  BY <1>b DEF OnceInv
\* Steps that leave the exchange and the server alone.
<1>k. ASSUME UNCHANGED <<call, late, server, slice>>, steps' \in {steps, steps + 1}, Unfailed' => Unfailed,
             at' # "left" => at # "left"
      PROVE  OnceInv'
  <2>1. SUFFICES ASSUME Unfailed'
        PROVE  /\ ApartInv' /\ (\A f \in Fragment : DoneBy(f, steps)') /\ (call'.kind = "push" => call'.work.to <= steps')
               /\ (at' # "left" => \A f \in Fragment : ~(call'.kind = "push" /\ call'.frag = f) => DoneBy(f, slice[f].since)')
    BY <1>f, <1>k, <1>o DEF OnceInv
  <2>2. ApartInv'
    BY <1>0, <1>b, <1>f, <1>k, <2>1, ClientApart
  <2>3. ASSUME NEW f \in Fragment PROVE DoneBy(f, steps)'
    <3>1. DoneBy(f, steps) /\ steps' \in Nat /\ steps <= steps'
      BY <1>0, <1>b, <1>k, <2>1
    <3>2. (\A i \in 1..Len(log[f]) : log[f][i].to <= steps') /\ \A req \in late : req.kind = "push" /\ req.frag = f => req.work.to <= steps'
      BY <1>0, <3>1, DoneLater DEF DoneBy
    <3> QED
      BY <1>k, <3>2 DEF DoneBy, server
  <2>4. call'.kind = "push" => call'.work.to <= steps'
    <3>1. call.work.to \in Nat
      BY <1>0 DEF ServerInv, Calls, Interval
    <3>2. \A m \in Nat : m <= steps => m <= steps + 1
      BY <1>0
    <3> QED
      BY <1>b, <1>k, <2>1, <3>1, <3>2
  <2>5. ASSUME at' # "left", NEW f \in Fragment, ~(call'.kind = "push" /\ call'.frag = f) PROVE DoneBy(f, slice[f].since)'
    BY <1>b, <1>k, <2>1, <2>5 DEF DoneBy, server
  <2> QED
    BY <2>2, <2>3, <2>4, <2>5
\* Steps after which no push is under way.
<1>p. ASSUME UNCHANGED <<late, server, steps>>, call'.kind = "pull", call'.state # "answered", Unfailed' => Unfailed,
             Unfailed /\ at' # "left" => \A f \in Fragment : DoneBy(f, slice'[f].since)
      PROVE  OnceInv'
  <2>1. SUFFICES ASSUME Unfailed'
        PROVE  /\ ApartInv' /\ (\A f \in Fragment : DoneBy(f, steps)')
               /\ (at' # "left" => \A f \in Fragment : DoneBy(f, slice[f].since)')
    BY <1>f, <1>p DEF OnceInv
  <2>2. ApartInv'
    BY <1>0, <1>b, <1>f, <1>p, <2>1, ClientApart DEF Pushing
  <2>3. \A f \in Fragment : DoneBy(f, steps)'
    BY <1>b, <1>p, <2>1 DEF DoneBy, server
  <2>4. ASSUME at' # "left", NEW f \in Fragment PROVE DoneBy(f, slice[f].since)'
    BY <1>p, <2>1, <2>4 DEF DoneBy, server
  <2> QED
    BY <2>2, <2>3, <2>4
\* Steps that push.
<1>q. ASSUME UNCHANGED <<late, server, steps, lost, ended>>, call.state \in {"none", "answered"}, AdoptAndPush, at # "left"
      PROVE  OnceInv'
  <2>0. /\ call'.state = "running" /\ call'.kind = "push" /\ call'.frag = turn
        /\ call'.work = [from |-> Adopted.slice[turn].since, to |-> steps] /\ slice' = Adopted.slice
    BY <1>0, <1>q, NextPush
  <2>1. SUFFICES ASSUME Unfailed
        PROVE  /\ ApartInv' /\ (\A f \in Fragment : DoneBy(f, steps)') /\ (\A f \in Fragment : DoneBy(f, slice[f].since)')
    BY <1>0, <1>f, <1>q, <2>0 DEF OnceInv
  <2>2. \A f \in Fragment : DoneBy(f, Adopted.slice[f].since)
    BY <1>0, <1>b, <1>o, <1>q, <2>1, AdoptedDone
  <2>3. \A f \in Fragment : DoneBy(f, slice[f].since)'
    BY <1>q, <2>0, <2>2 DEF DoneBy, server
  <2>4. \A f \in Fragment : DoneBy(f, steps)'
    BY <1>b, <1>q, <2>1 DEF DoneBy, server
  <2>5. DoneBy(call.frag, call.work.from)'
    <3>1. turn \in Fragment
      BY <1>0 DEF ClientInv
    <3>2. call'.work.from = Adopted.slice[turn].since
      BY <2>0
    <3> QED
      BY <1>q, <2>0, <2>2, <3>1, <3>2 DEF DoneBy, server
  <2>6. ApartInv'
    BY <1>0, <1>b, <1>f, <1>q, <2>1, <2>5, ClientApart
  <2> QED
    BY <2>3, <2>4, <2>6
<1>1. CASE ServerNext /\ UNCHANGED replica
  <2>0. /\ UNCHANGED <<slice, steps, lost, ended, at>> /\ call'.kind = call.kind /\ call'.frag = call.frag /\ call'.work = call.work
        /\ (call'.state = "none" <=> call.state = "none")
    BY <1>0, <1>1, ServerCalls DEF replica, loop, client
  <2>1. SUFFICES ASSUME Unfailed
        PROVE  /\ ApartInv' /\ (\A f \in Fragment : DoneBy(f, steps)')
               /\ (at # "left" => \A f \in Fragment : ~(call.kind = "push" /\ call.frag = f) => DoneBy(f, slice[f].since)')
    BY <1>b, <1>f, <1>o, <2>0 DEF OnceInv
  <2>2. ApartInv'
    BY <1>0, <1>1, <1>b, <2>1, ServerApart
  <2>3. ASSUME NEW f \in Fragment PROVE DoneBy(f, steps)'
    <3>1. ASSUME NEW s \in Nat, DoneBy(f, s), call.kind = "push" => call.work.to <= s PROVE DoneBy(f, s)'
      BY <1>0, <1>1, <1>b, <2>1, <3>1, ServerDone DEF Pushing
    <3>2. steps \in Nat /\ DoneBy(f, steps) /\ (call.kind = "push" => call.work.to <= steps) /\ steps' = steps
      BY <1>0, <1>b, <2>0, <2>1
    <3> QED
      BY <3>1, <3>2 DEF DoneBy
  <2>4. ASSUME at # "left", NEW f \in Fragment, ~(call.kind = "push" /\ call.frag = f) PROVE DoneBy(f, slice[f].since)'
    <3>1. ASSUME NEW s \in Nat, DoneBy(f, s) PROVE DoneBy(f, s)'
      BY <1>0, <1>1, <1>b, <2>1, <2>4, <3>1, ServerDone DEF Pushing
    <3>2. slice[f].since \in Nat /\ DoneBy(f, slice[f].since) /\ slice' = slice
      BY <1>0, <1>b, <2>0, <2>1, <2>4
    <3> QED
      BY <3>1, <3>2 DEF DoneBy
  <2> QED
    BY <2>2, <2>3, <2>4
<1>2. CASE UNCHANGED replicaVars
  BY <1>k, <1>2 DEF replicaVars, replica, loop, client
<1>3. CASE Take /\ Quiet
  BY <1>k, <1>3 DEF Take, Quiet, loop, client
<1>4. CASE Background /\ Quiet
  BY <1>k, <1>4 DEF Background, Admit, HandoffPushed, HandoffPulled, Quiet, loop, client
<1>5. CASE Quiet /\ (OpenWindow \/ NextBatch \/ Optimize \/ Pause)
  BY <1>k, <1>5 DEF OpenWindow, NextBatch, Optimize, Pause, Enter, Quiet, client
<1>6. CASE Quiet /\ (Finish \/ HandOver \/ StopProducers)
  <2>1. /\ UNCHANGED <<call, slice, steps, lost>> /\ at # "left"
        /\ (ended' = ended \/ at \notin Over)
    BY <1>6 DEF Finish, HandOver, StopProducers, Enter, client, Over
  <2> QED
    BY <1>0, <1>k, <1>6, <2>1 DEF Quiet
<1>7. CASE Quiet /\ Connect
  <2>1. at = "setup" /\ UNCHANGED <<steps, slice, lost, ended>> /\ call'.kind = "pull" /\ call'.state = "running"
    BY <1>7 DEF Connect, Enter, client, NoCall
  <2>2. ASSUME Unfailed, NEW f \in Fragment PROVE DoneBy(f, slice[f].since)
    BY <1>0, <1>b, <2>1, <2>2, DoneLater
  <2> QED
    BY <1>7, <1>p, <2>1, <2>2 DEF Quiet
<1>8. CASE Quiet /\ Connected
  <2>1. at = "connecting" /\ UNCHANGED <<steps, lost>> /\ call' = NoCall
        /\ (ended' = "failed" \/ (UNCHANGED ended /\ slice' = [f \in Fragment |-> [model |-> call.model[f], since |-> 0]]))
    BY <1>8 DEF Connected, Enter
  <2>2. CASE ended' = "failed"
    BY <1>n, <2>1, <2>2 DEF OnceInv
  <2>3. CASE UNCHANGED ended /\ slice' = [f \in Fragment |-> [model |-> call.model[f], since |-> 0]]
    <3>1. ASSUME Unfailed, NEW f \in Fragment PROVE DoneBy(f, slice'[f].since)
      BY <1>0, <1>b, <2>1, <2>3, <3>1
    <3> QED
      BY <1>8, <1>n, <1>p, <2>1, <2>3, <3>1 DEF Quiet
  <2> QED
    BY <2>1, <2>2, <2>3
<1>9. CASE Quiet /\ FragmentBoundary
  <2>1. CASE call.state = "failed"
    BY <1>9, <1>n, <2>1 DEF FragmentBoundary, OnceInv
  <2>2. CASE call.state # "failed"
    <3>1. call.state \in {"none", "answered"} /\ AdoptAndPush /\ UNCHANGED <<steps, lost, ended>> /\ at = "boundary"
      BY <1>0, <1>9, <2>2 DEF FragmentBoundary, ServerInv, Calls
    <3> QED
      BY <1>9, <1>q, <3>1 DEF Quiet
  <2> QED
    BY <2>1, <2>2
<1>10. CASE Quiet /\ LastPush
  BY <1>10, <1>q DEF LastPush, Quiet
<1>11. CASE Quiet /\ Merge
  <2>1. call.state = "answered" /\ slice' = Adopted.slice /\ call' = NoCall /\ UNCHANGED <<steps, lost, ended>> /\ at = "posting"
    BY <1>11 DEF Merge
  <2>2. ASSUME Unfailed, NEW f \in Fragment PROVE DoneBy(f, slice'[f].since)
    BY <1>0, <1>b, <1>o, <2>1, <2>2, AdoptedDone
  <2> QED
    BY <1>11, <1>n, <1>p, <2>1, <2>2 DEF Quiet
<1>12. CASE Quiet /\ SyncFails
  BY <1>12, <1>n DEF SyncFails, OnceInv
<1>13. CASE Quiet /\ Close
  BY <1>13, <1>n, <1>p DEF Close, Enter, Quiet
<1> QED
  BY <1>1, <1>2, <1>3, <1>4, <1>5, <1>6, <1>7, <1>8, <1>9, <1>10, <1>11, <1>12, <1>13
  DEF ReplicaNext, TrainLoop

LEMMA ReplicaOrigin ==
  ASSUME ReplicaInv, OriginInv, [ReplicaNext]_replicaVars
  PROVE  OriginInv'
<1>f. fragments' = fragments /\ Fragment' = Fragment /\ plan' = plan
  BY RunStays DEF ReplicaInv
<1>0. /\ ServerInv /\ ClientInv /\ faults \in [FaultKinds -> Nat] /\ call \in Calls
      /\ log \in [Fragment -> Seq(Interval)] /\ origin \in [Fragment -> Seq(Interval)]
  BY DEF ReplicaInv, ServerInv, ClientInv
<1>n. NoCall.kind = "pull" /\ NoCall.state = "none"
  BY DEF NoCall
<1>. DEFINE Never == faults["server"] = plan.faults["server"]
            Meets == Grown /\ \A f \in Fragment : IsPrefix(origin[f], log[f])
\* Steps of the client: the faults, the late and the server stay what they are.
<1>k. ASSUME UNCHANGED <<late, server>>, faults'["server"] = faults["server"],
             call'.kind = "push" => call' = call \/ (Never => IsPrefix(call'.basis, log[call'.frag])),
             call'.state = "answered" => call' = call,
             Never => \A f \in Fragment : IsPrefix(origin'[f], log[f])
      PROVE  OriginInv'
  <2>1. Never => Grown'
    BY <1>0, <1>f, <1>k, ClientGrown DEF OriginInv, server
  <2> QED
    BY <1>f, <1>k, <2>1 DEF OriginInv, server
<1>o. Never => Meets
  BY DEF OriginInv
<1>q. ASSUME UNCHANGED <<late, server, faults>>, AdoptAndPush PROVE OriginInv'
  <2>1. /\ call'.state = "running" /\ call'.kind = "push" /\ call'.frag = turn
        /\ call'.basis = Adopted.origin[turn] /\ origin' = Adopted.origin /\ turn \in Fragment
    BY <1>0, <1>q, NextPush DEF ClientInv
  <2>2. ASSUME Never PROVE \A f \in Fragment : IsPrefix(Adopted.origin[f], log[f])
    BY <1>0, <1>o, <2>2, AdoptedGrown
  <2> QED
    BY <1>k, <1>q, <2>1, <2>2
<1>1. CASE ServerNext /\ UNCHANGED replica
  <2>1. UNCHANGED <<origin, plan>>
    BY <1>1 DEF replica, client
  <2>2. faults'["server"] = faults["server"] \/ (faults'["server"] < faults["server"] /\ faults'["server"] \in Nat)
    BY <1>0, <1>1, RestoresSpent
  <2>3. CASE faults'["server"] = faults["server"]
    <3>1. ASSUME Never PROVE Grown' /\ \A f \in Fragment : IsPrefix(origin[f], log'[f])
      <4>1. Grown' /\ (\A f \in Fragment : IsPrefix(log[f], log'[f])) /\ \A f \in Fragment : IsPrefix(origin[f], log[f])
        BY <1>0, <1>1, <1>o, <2>3, <3>1, ServerGrows
      <4>2. log' \in [Fragment -> Seq(Interval)]
        BY <1>0, <1>1, ServerStep DEF ServerInv, Fragment
      <4> QED
        BY <1>0, <4>1, <4>2, PrefixOfPrefix
    <3> QED
      BY <1>f, <2>1, <2>3, <3>1 DEF OriginInv
  <2>4. CASE faults'["server"] < faults["server"] /\ faults'["server"] \in Nat
    <3>1. faults["server"] \in Nat /\ plan.faults["server"] \in Nat
      <4>1. plan \in ReplicaRuns
        BY DEF ReplicaInv, LoopInv
      <4>2. plan.faults \in [FaultKinds -> Nat]
        BY <4>1, ReplicaConstants
      <4> QED
        BY <1>0, <4>2 DEF FaultKinds
    <3>2. faults["server"] <= plan.faults["server"]
      BY DEF OriginInv
    <3>3. faults'["server"] <= plan.faults["server"] /\ faults'["server"] # plan.faults["server"]
      BY <2>4, <3>1, <3>2
    <3> QED
      BY <1>f, <3>3 DEF OriginInv
  <2> QED
    BY <2>2, <2>3, <2>4
<1>2. CASE UNCHANGED replicaVars
  BY <1>k, <1>o, <1>2 DEF replicaVars, replica, client
<1>3. CASE Take /\ Quiet
  <2>1. faults'["server"] = faults["server"]
    <3>1. faults' = faults \/ faults' = [faults EXCEPT !["dud"] = faults["dud"] - 1]
      BY <1>3 DEF Take, Spend
    <3> QED
      BY <1>0, <3>1 DEF FaultKinds
  <2> QED
    BY <1>k, <1>o, <1>3, <2>1 DEF Take, Quiet, client
<1>4. CASE Quiet /\ UNCHANGED faults /\ (Background \/ OpenWindow \/ NextBatch \/ Optimize \/ Pause \/ Finish \/ HandOver \/ StopProducers)
  <2>1. UNCHANGED <<call, origin>>
    BY <1>4 DEF Background, Admit, HandoffPushed, HandoffPulled, OpenWindow, NextBatch, Optimize, Pause, Finish, HandOver,
       StopProducers, client
  <2> QED
    BY <1>k, <1>o, <1>4, <2>1 DEF Quiet
<1>5. CASE Quiet /\ UNCHANGED faults /\ Connect
  <2>1. UNCHANGED origin /\ call'.kind = "pull" /\ call'.state = "running"
    BY <1>5 DEF Connect, client, NoCall
  <2> QED
    BY <1>k, <1>o, <1>5, <2>1 DEF Quiet
<1>6. CASE Quiet /\ UNCHANGED faults /\ Connected
  <2>1. call' = NoCall /\ (origin' = origin \/ (call.state = "answered" /\ origin' = call.model))
    BY <1>6 DEF Connected
  <2>2. Never => \A f \in Fragment : IsPrefix(origin'[f], log[f])
    BY <1>o, <2>1 DEF Grown
  <2> QED
    BY <1>k, <1>n, <1>6, <2>1, <2>2 DEF Quiet
<1>7. CASE Quiet /\ UNCHANGED faults /\ FragmentBoundary
  <2>1. CASE call.state = "failed"
    BY <1>k, <1>n, <1>o, <1>7, <2>1 DEF FragmentBoundary, Quiet, client
  <2>2. CASE call.state # "failed"
    BY <1>q, <1>7, <2>2 DEF FragmentBoundary, Quiet
  <2> QED
    BY <2>1, <2>2
<1>8. CASE Quiet /\ UNCHANGED faults /\ LastPush
  BY <1>q, <1>8 DEF LastPush, Quiet
<1>9. CASE Quiet /\ UNCHANGED faults /\ Merge
  <2>1. call' = NoCall /\ origin' = Adopted.origin
    BY <1>9 DEF Merge
  <2>2. ASSUME Never PROVE \A f \in Fragment : IsPrefix(Adopted.origin[f], log[f])
    BY <1>0, <1>o, <2>2, AdoptedGrown
  <2> QED
    BY <1>k, <1>n, <1>9, <2>1, <2>2 DEF Quiet
<1>10. CASE Quiet /\ UNCHANGED faults /\ (SyncFails \/ Close)
  BY <1>k, <1>n, <1>o, <1>10 DEF SyncFails, Close, Quiet, client
<1> QED
  BY <1>1, <1>2, <1>3, <1>4, <1>5, <1>6, <1>7, <1>8, <1>9, <1>10 DEF ReplicaNext, TrainLoop

LEMMA ReplicaPushStarts ==
  ReplicaInit => PushInv
<1>. SUFFICES ASSUME ReplicaInit PROVE PushInv
  OBVIOUS
<1>1. /\ log = [f \in Fragment |-> <<>>] /\ disk.log = log /\ late = {} /\ call = NoCall
      /\ origin = [f \in Fragment |-> <<>>] /\ faults = plan.faults /\ plan \in ReplicaRuns
  BY DEF ReplicaInit, ReplicaInitAs
<1>2. /\ ApartInv /\ Grown /\ call.kind = "pull" /\ \A f \in Fragment : \A s : DoneBy(f, s)
  BY <1>1, NothingPushed
<1>3. OnceInv
  BY <1>2 DEF OnceInv
<1>4. OriginInv
  <2>1. plan.faults \in [FaultKinds -> Nat]
    BY <1>1, ReplicaConstants
  <2>2. faults["server"] \in Nat
    BY <1>1, <2>1 DEF FaultKinds
  <2>3. <<>> \in Seq(Interval)
    OBVIOUS
  <2>4. \A f \in Fragment : origin[f] = <<>> /\ log[f] = <<>>
    BY <1>1
  <2>5. \A f \in Fragment : IsPrefix(origin[f], log[f])
    BY <2>3, <2>4, PrefixOfItself
  <2> QED
    BY <1>1, <1>2, <2>2, <2>5 DEF OriginInv
<1> QED
  BY <1>3, <1>4, ReplicaStarts DEF PushInv

LEMMA ReplicaPushSteps ==
  PushInv /\ [ReplicaNext]_replicaVars => PushInv'
BY ReplicaSteps, ReplicaOnce, ReplicaOrigin DEF PushInv

\* What the invariant means for what the replica pushes.
LEMMA ReplicaPushesSound ==
  ASSUME PushInv PROVE ReplicaContinuity /\ ReplicaCountedOnce
<1>1. ReplicaContinuity
  BY AbandonedIsCall DEF PushInv, OriginInv, Grown, ReplicaContinuity
<1>2. ReplicaCountedOnce
  BY ApartCountsOnce DEF PushInv, ReplicaInv, OnceInv, ReplicaCountedOnce
<1> QED
  BY <1>1, <1>2

-----------------------------------------------------------------------------
(* The island: what it pushes. *)

\* A new exchange: a pull, or the push of the fragment whose turn it is.
LEMMA NewExchange ==
  ASSUME ServerInv
  PROVE  /\ NoCall.kind = "pull" /\ NoCall.state = "none"
         /\ Pull => call'.kind = "pull" /\ call'.state = "running"
         /\ Gather => /\ call'.kind = "push" /\ call'.state = "running" /\ call'.frag = fragIdx[Lead]
                      /\ call'.work = [from |-> shard[Lead][fragIdx[Lead]].since, to |-> trained[Lead]]
                      /\ call'.basis = baseline[fragIdx[Lead]]
<1>1. NoCall \in Calls /\ NoCall.kind = "pull" /\ NoCall.state = "none"
  BY FragmentServerTypes, NoCallTyped DEF ServerInv, NoCall
<1>2. ASSUME Pull PROVE call'.kind = "pull" /\ call'.state = "running"
  BY <1>2 DEF Pull, NoCall
<1>3. ASSUME Gather
      PROVE  /\ call'.kind = "push" /\ call'.state = "running" /\ call'.frag = fragIdx[Lead]
             /\ call'.work = [from |-> shard[Lead][fragIdx[Lead]].since, to |-> trained[Lead]]
             /\ call'.basis = baseline[fragIdx[Lead]]
  <2>1. call' = [state |-> "running", kind |-> "push", frag |-> fragIdx[Lead],
                 work |-> [from |-> shard[Lead][fragIdx[Lead]].since, to |-> trained[Lead]],
                 basis |-> baseline[fragIdx[Lead]], rev |-> baseRev, applied |-> NoCall.applied,
                 model |-> NoCall.model, newRev |-> NoCall.newRev, steps |-> NoCall.steps]
    BY <1>1, <1>3 DEF Gather, Calls
  <2> QED
    BY <2>1
<1> QED
  BY <1>1, <1>2, <1>3

LEMMA IslandFlight ==
  ASSUME IslandInv, FlightInv, [Next]_vars
  PROVE  FlightInv'
<1> USE IslandConstants DEF IslandInv
<1>f. fragments' = fragments
  BY IslandServer
<1>0. /\ call.state = "none" => call.kind = "pull"
      /\ resync => call.kind = "pull" /\ pc[Lead] \notin {"join", "adopt", "gather", "posting"}
      /\ pc[Lead] \in {"out", "outcome"} /\ words[Lead].out # "adopt" => call.kind = "pull"
      /\ pc[Lead] = "out" /\ words[Lead].out # "fail" => ~resync
      /\ pc[Lead] \in {"gather", "pull"} => call.kind = "pull"
      /\ fragments = 1 /\ pc[Lead] \in {"train", "gate", "act"} => call.kind = "pull"
      /\ pc \in [Ranks -> Phases] /\ resync \in BOOLEAN
      /\ words[Lead].out \in {"none", "adopt", "fail"}
  BY DEF FlightInv, PlaceInv, EqualInv, WordsInv
<1>n. NoCall.kind = "pull" /\ NoCall.state = "none"
  BY NewExchange
<1>1. CASE ServerNext /\ UNCHANGED island
  <2>1. call'.kind = call.kind /\ (call'.state = "none" <=> call.state = "none")
    BY <1>1, ServerCalls
  <2> QED
    BY <1>f, <1>0, <1>1, <2>1 DEF FlightInv, island, ranks, lead
<1>2. CASE UNCHANGED <<words, resync, call>> /\ pc'[Lead] = pc[Lead]
  BY <1>f, <1>0, <1>2 DEF FlightInv
<1>3. CASE UNCHANGED resync /\ call' \in {call, NoCall} /\ pc'[Lead] \in {"lost", "left"}
  BY <1>f, <1>0, <1>n, <1>3 DEF FlightInv
<1>4. CASE UNCHANGED vars
  BY <1>2, <1>4 DEF vars, ranks, lead
<1>5. ASSUME NEW r \in Ranks, CollectiveAborts(r) \/ Exit(r) PROVE FlightInv'
  <2>1. CASE r = Lead
    BY <1>0, <1>3, <1>5, <2>1 DEF CollectiveAborts, Exit, Goto, ranks, lead
  <2>2. CASE r # Lead
    BY <1>0, <1>2, <1>5, <2>2 DEF CollectiveAborts, Exit, Goto, ranks, lead
  <2> QED
    BY <2>1, <2>2
<1>6. CASE GateFails
  BY <1>0, <1>3, <1>6 DEF GateFails, Goto, lead
<1>7. CASE Train
  <2>1. pc[Lead] = "train" /\ pc'[Lead] \in {"train", "gate"} /\ UNCHANGED <<call, resync>>
    BY <1>7 DEF Train, Meet, lead
  <2> QED
    BY <1>f, <1>0, <2>1 DEF FlightInv
<1>8. CASE PassGate
  <2>1. pc[Lead] = "gate" /\ pc'[Lead] = "act" /\ UNCHANGED <<call, resync>>
    BY <1>0, <1>8 DEF PassGate, Goto, lead
  <2> QED
    BY <1>f, <1>0, <2>1 DEF FlightInv
<1>9. CASE Decide
  <2>1. PICK act \in Actions : pc' = [r \in Ranks |-> AfterAct(r, act)]
    BY <1>9 DEF Decide
  <2>2. pc[Lead] = "act" /\ UNCHANGED <<call, resync>>
    BY <1>9 DEF Decide, Meet, lead
  <2>3. \/ pc'[Lead] = "train"
        \/ pc'[Lead] = "gather" /\ fragments = 1 /\ ~resync
        \/ pc'[Lead] = "join" /\ ~resync
        \/ pc'[Lead] = "pull" /\ resync
    BY <1>0, <2>1 DEF AfterAct, Actions
  <2> QED
    BY <1>f, <1>0, <2>2, <2>3 DEF FlightInv
<1>10. CASE Join
  <2>1. pc[Lead] = "join" /\ pc'[Lead] = "out" /\ ~resync
    BY <1>0, <1>10 DEF Join, Goto
  <2>2. CASE call.state = "none"
    <3>1. Say("none") /\ UNCHANGED resync /\ call' \in {call, NoCall}
      BY <1>10, <2>2 DEF Join
    <3>2. words'[Lead].out = "none"
      BY <3>1, SayTyped
    <3> QED
      BY <1>f, <1>0, <1>n, <2>1, <2>2, <3>1, <3>2 DEF FlightInv
  <2>3. CASE call.state # "none" /\ Usable
    <3>1. Say("adopt") /\ UNCHANGED <<resync, call>>
      BY <1>10, <2>3 DEF Join
    <3>2. words'[Lead].out = "adopt"
      BY <3>1, SayTyped
    <3> QED
      BY <1>f, <1>0, <2>1, <3>1, <3>2 DEF FlightInv
  <2>4. CASE call.state # "none" /\ ~Usable
    <3>1. Say("fail") /\ call' = NoCall
      BY <1>10, <2>4 DEF Join
    <3>2. words'[Lead].out = "fail"
      BY <3>1, SayTyped
    <3> QED
      BY <1>f, <1>n, <2>1, <3>1, <3>2 DEF FlightInv
  <2> QED
    BY <2>2, <2>3, <2>4
<1>11. CASE BroadcastOut
  <2>1. /\ pc[Lead] = "out" /\ UNCHANGED <<call, resync>>
        /\ pc'[Lead] = AfterOut(words[Lead])
    BY <1>11 DEF BroadcastOut, Meet, lead
  <2>2. \/ pc'[Lead] = "adopt" /\ words[Lead].out = "adopt"
        \/ pc'[Lead] = "train" /\ words[Lead].out = "fail"
        \/ pc'[Lead] = "gather" /\ words[Lead].out = "none"
    BY <1>0, <2>1 DEF AfterOut
  <2> QED
    BY <1>f, <1>0, <2>1, <2>2 DEF FlightInv
<1>12. CASE AdoptFragment
  <2>1. pc[Lead] = "adopt" /\ pc'[Lead] = "gather" /\ call' = NoCall /\ UNCHANGED resync
    BY <1>12 DEF AdoptFragment, Meet
  <2> QED
    BY <1>f, <1>0, <1>n, <2>1 DEF FlightInv
<1>13. CASE Gather
  <2>1. /\ pc[Lead] = "gather" /\ UNCHANGED resync /\ call'.state = "running"
        /\ pc'[Lead] = IF fragments > 1 THEN "train" ELSE "posting"
    BY <1>13, NewExchange DEF Gather, Meet, lead
  <2> QED
    BY <1>f, <1>0, <2>1 DEF FlightInv
<1>14. CASE Pull
  <2>1. pc'[Lead] = "pulling" /\ UNCHANGED resync /\ call'.kind = "pull"
    BY <1>0, <1>14, NewExchange DEF Pull, Goto, lead
  <2> QED
    BY <1>f, <1>0, <2>1 DEF FlightInv
<1>15. CASE Answered
  <2>1. pc[Lead] \in {"pulling", "posting"} /\ pc'[Lead] = "outcome" /\ call.state \in {"answered", "failed"}
    BY <1>0, <1>15 DEF Answered, Goto
  <2>2. CASE call.state = "answered"
    <3>1. Say("adopt") /\ resync' = resync /\ call' = call
      BY <1>0, <1>15, <2>2 DEF Answered
    <3>2. words'[Lead].out = "adopt"
      BY <3>1, SayTyped
    <3> QED
      BY <1>f, <1>0, <2>1, <3>1, <3>2 DEF FlightInv
  <2>3. CASE call.state = "failed"
    <3>1. Say("fail") /\ call' = NoCall
      BY <1>15, <2>3 DEF Answered
    <3>2. words'[Lead].out = "fail"
      BY <3>1, SayTyped
    <3> QED
      BY <1>f, <1>n, <2>1, <3>1, <3>2 DEF FlightInv
  <2> QED
    BY <2>1, <2>2, <2>3
<1>16. CASE BroadcastOutcome
  <2>1. /\ pc[Lead] = "outcome" /\ UNCHANGED <<call, resync>>
        /\ pc'[Lead] = AfterOutcome(Lead, words[Lead])
    BY <1>16 DEF BroadcastOutcome, Meet, lead
  <2>2. words[Lead].out # "none"
    BY <2>1 DEF WordsInv
  <2>3. pc'[Lead] = "adoptAll" \/ (pc'[Lead] \in {"lost", "train"} /\ words[Lead].out = "fail")
    BY <1>0, <2>1, <2>2 DEF AfterOutcome
  <2> QED
    BY <1>f, <1>0, <2>1, <2>3 DEF FlightInv
<1>17. CASE AdoptAll
  <2>1. pc'[Lead] = "train" /\ call' = NoCall /\ resync' = FALSE
    BY <1>17 DEF AdoptAll
  <2> QED
    BY <1>f, <1>n, <2>1 DEF FlightInv
<1> QED
  BY <1>1, <1>4, <1>5, <1>6, <1>7, <1>8, <1>9, <1>10, <1>11, <1>12, <1>13, <1>14, <1>15, <1>16, <1>17
  DEF Next, LeadStep, Collective

LEMMA IslandCount ==
  ASSUME IslandInv, FlightInv, CountInv, [Next]_vars
  PROVE  CountInv'
<1> USE IslandConstants
<1>f. fragments' = fragments /\ Fragment' = Fragment
  BY IslandServer DEF Fragment
<1>0. /\ ServerInv /\ pc \in [Ranks -> Phases] /\ trained[Lead] \in Nat /\ resync \in BOOLEAN
      /\ call \in Calls /\ call.frag \in Fragment /\ call.work.to \in Nat /\ fragIdx[Lead] \in Fragment
      /\ \A f \in Fragment : shard[Lead][f].since \in Nat
  <2>1. ServerInv /\ PlaceInv /\ EqualInv /\ call \in Calls
    BY DEF IslandInv, ServerInv
  <2>2. call.frag \in Fragment /\ call.work.to \in Nat
    BY <2>1 DEF Calls, Interval
  <2> QED
    BY <2>1, <2>2 DEF PlaceInv, EqualInv
<1>n. NoCall.kind = "pull" /\ NoCall.state = "none"
  BY <1>0, NewExchange
<1>. DEFINE Here == pc[Lead] \notin {"left", "lost"}
<1>c. /\ ApartInv /\ (\A f \in Fragment : DoneBy(f, trained[Lead])) /\ (call.kind = "push" => call.work.to <= trained[Lead])
      /\ (~resync /\ Here => \A f \in Fragment : ~(call.kind = "push" /\ call.frag = f) => DoneBy(f, shard[Lead][f].since))
  BY DEF CountInv
\* Steps of the client that send nothing: what remains to be shown is where the lead counts from.
<1>k. ASSUME UNCHANGED <<server, late>>, trained'[Lead] = trained[Lead], call' = call \/ call'.kind = "pull",
             ~resync' /\ Here' => \A f \in Fragment : ~(call'.kind = "push" /\ call'.frag = f) => DoneBy(f, shard'[Lead][f].since)
      PROVE  CountInv'
  <2>1. ApartInv'
    BY <1>0, <1>c, <1>f, <1>k, ClientApart DEF Pushing
  <2> QED
    BY <1>c, <1>f, <1>k, <2>1 DEF CountInv, DoneBy, server
\* Those that moreover count from where they did, and give up no push but to resync.
<1>j. ASSUME UNCHANGED <<server, late, shard>>, trained'[Lead] = trained[Lead], call' = call \/ call'.kind = "pull",
             ~resync' /\ Here' => ~resync /\ Here /\ (call' = call \/ call.kind = "pull")
      PROVE  CountInv'
  BY <1>c, <1>j, <1>k
\* The lead leaves, and what it had in flight is late.
<1>l. ASSUME UNCHANGED <<server, trained>>, call' = NoCall, late' = late \cup Abandoned, ~Here' PROVE CountInv'
  <2>1. ApartInv'
    BY <1>0, <1>c, <1>f, <1>l, <1>n, ClientApart DEF Pushing
  <2>2. ASSUME NEW f \in Fragment PROVE DoneBy(f, trained[Lead])'
    <3>1. DoneBy(f, trained[Lead]) /\ (Pushing /\ call.frag = f => call.work.to <= trained[Lead])
      BY <1>c DEF Pushing
    <3>2. (\A i \in 1..Len(log'[f]) : log'[f][i].to <= trained[Lead])
      BY <1>l, <3>1 DEF DoneBy, server
    <3>3. ASSUME NEW req \in late', req.kind = "push", req.frag = f PROVE req.work.to <= trained[Lead]
      BY <1>l, <3>1, <3>3, AbandonedIsCall DEF DoneBy, Pushing
    <3> QED
      BY <1>l, <3>2, <3>3 DEF DoneBy
  <2> QED
    BY <1>f, <1>l, <1>n, <2>1, <2>2 DEF CountInv
<1>1. CASE ServerNext /\ UNCHANGED island
  <2>1. /\ call'.kind = call.kind /\ call'.frag = call.frag /\ call'.work = call.work
        /\ UNCHANGED <<shard, trained, resync, pc>>
    BY <1>0, <1>1, ServerCalls DEF island, ranks, lead
  <2>2. ApartInv'
    BY <1>0, <1>1, <1>c, ServerApart
  <2>3. ASSUME NEW f \in Fragment PROVE DoneBy(f, trained[Lead])'
    <3>. DEFINE t == trained[Lead]
    <3>1. t \in Nat /\ DoneBy(f, t) /\ (Pushing => call.work.to <= t) /\ t' = t
      BY <1>0, <1>c, <2>1 DEF Pushing
    <3>. HIDE DEF t
    <3>2. DoneBy(f, t)'
      BY <1>0, <1>1, <1>c, <3>1, ServerDone
    <3> QED
      BY <3>2 DEF t
  <2>4. ASSUME ~resync, Here, NEW f \in Fragment, ~(call.kind = "push" /\ call.frag = f) PROVE DoneBy(f, shard[Lead][f].since)'
    <3>. DEFINE t == shard[Lead][f].since
    <3>1. t \in Nat /\ DoneBy(f, t) /\ ~(Pushing /\ call.frag = f) /\ t' = t
      BY <1>0, <1>c, <2>1, <2>4 DEF Pushing
    <3>. HIDE DEF t
    <3>2. DoneBy(f, t)'
      BY <1>0, <1>1, <1>c, <3>1, ServerDone
    <3> QED
      BY <3>2 DEF t
  <2> QED
    BY <1>c, <1>f, <2>1, <2>2, <2>3, <2>4 DEF CountInv
<1>2. CASE Train
  <2>1. /\ UNCHANGED <<call, late, server, shard, resync>> /\ trained'[Lead] = trained[Lead] + 1 /\ Here
    BY <1>2 DEF Train, Meet, lead
  <2>2. ApartInv'
    BY <1>0, <1>c, <1>f, <2>1, ClientApart
  <2>3. ASSUME NEW f \in Fragment PROVE DoneBy(f, trained[Lead] + 1)
    BY <1>0, <1>c, DoneLater
  <2>4. call.kind = "push" => call.work.to <= trained[Lead] + 1
    BY <1>0, <1>c
  <2> QED
    BY <1>c, <1>f, <2>1, <2>2, <2>3, <2>4 DEF CountInv, DoneBy, server
<1>3. CASE Gather
  <2>1. /\ call'.kind = "push" /\ call'.state = "running" /\ call'.frag = fragIdx[Lead]
        /\ call'.work = [from |-> shard[Lead][fragIdx[Lead]].since, to |-> trained[Lead]]
        /\ pc[Lead] = "gather" /\ UNCHANGED <<trained, shard, late, server, resync>>
    BY <1>0, <1>3, NewExchange DEF Gather, Meet, lead
  <2>2. ~resync /\ call.kind = "pull"
    BY <2>1 DEF FlightInv
  <2>3. \A f \in Fragment : DoneBy(f, shard[Lead][f].since)
    BY <1>c, <2>1, <2>2
  <2>4. call'.work.from = shard[Lead][fragIdx[Lead]].since /\ call'.work.to = trained[Lead]
    BY <2>1
  <2>5. DoneBy(call.frag, call.work.from)'
    BY <1>0, <2>1, <2>3, <2>4 DEF DoneBy, server
  <2>6. ApartInv'
    BY <1>0, <1>c, <1>f, <2>1, <2>5, ClientApart
  <2> QED
    BY <1>0, <1>c, <1>f, <2>1, <2>3, <2>4, <2>6 DEF CountInv, DoneBy, server
<1>4. CASE AdoptFragment
  <2>1. /\ pc[Lead] = "adopt" /\ call' = NoCall /\ UNCHANGED <<server, late, trained, resync>>
        /\ words[Lead].frag = call.frag
    BY <1>4 DEF AdoptFragment, Meet, IslandInv, WordsInv
  <2>2. shard'[Lead] = [shard[Lead] EXCEPT ![call.frag] = [model |-> call.model[call.frag], since |-> trained[Lead]]]
    <3>1. shard'[Lead] = [shard[Lead] EXCEPT ![AdoptedFrag(Lead)] = Set(Lead, AdoptedFrag(Lead), call.model[call.frag])]
      BY <1>4 DEF AdoptFragment
    <3> QED
      BY <2>1, <3>1 DEF AdoptedFrag, Set
  <2>3. shard[Lead] \in [Fragment -> [model: Seq(Interval), since: 0..MaxSteps]]
    BY DEF IslandInv, EqualInv
  <2>4. ASSUME ~resync, NEW f \in Fragment PROVE DoneBy(f, shard'[Lead][f].since)
    <3>1. CASE f = call.frag
      <4>1. shard'[Lead][f].since = trained[Lead]
        BY <2>2, <2>3, <3>1
      <4> QED
        BY <1>c, <4>1
    <3>2. CASE f # call.frag
      <4>1. shard'[Lead][f] = shard[Lead][f]
        BY <2>2, <2>3, <3>2
      <4> QED
        BY <1>c, <2>1, <2>4, <3>2, <4>1
    <3> QED
      BY <3>1, <3>2
  <2> QED
    BY <1>k, <1>n, <2>1, <2>4
<1>5. CASE AdoptAll
  <2>1. /\ call' = NoCall /\ UNCHANGED <<server, late, trained>>
        /\ \A f \in Fragment : shard'[Lead][f].since = trained[Lead]
    BY <1>5 DEF AdoptAll, Set
  <2> QED
    BY <1>c, <1>k, <1>n, <2>1
<1>6. CASE Join
  <2>1. /\ UNCHANGED <<server, late, shard, trained>> /\ pc[Lead] = "join"
        /\ \/ call.state = "none" /\ call' = NoCall /\ UNCHANGED resync
           \/ UNCHANGED <<call, resync>>
           \/ call' = NoCall /\ resync'
    BY <1>6 DEF Join, MustResync, Usable
  <2>2. call.state = "none" => call.kind = "pull"
    BY DEF FlightInv
  <2> QED
    BY <1>j, <1>n, <2>1, <2>2
<1>7. CASE Answered
  <2>1. /\ UNCHANGED <<server, late, shard, trained>> /\ Here
        /\ \/ UNCHANGED <<call, resync>>
           \/ call' = NoCall /\ (call.kind = "push" => resync') /\ (resync => resync')
    BY <1>0, <1>7 DEF Answered
  <2>2. call.kind \in {"pull", "push"}
    BY <1>0 DEF Calls
  <2> QED
    BY <1>j, <1>n, <2>1, <2>2
<1>8. CASE Pull
  <2>1. /\ UNCHANGED <<server, late, shard, trained, resync>> /\ pc[Lead] = "pull" /\ call'.kind = "pull"
    BY <1>0, <1>8, NewExchange DEF Pull, ranks, lead
  <2>2. call.kind = "pull"
    BY <2>1 DEF FlightInv
  <2> QED
    BY <1>j, <2>1, <2>2
<1>9. CASE GateFails
  BY <1>0, <1>9, <1>l DEF GateFails, Goto, ranks
<1>10. ASSUME NEW r \in Ranks, Exit(r) PROVE CountInv'
  <2>1. CASE r = Lead
    BY <1>0, <1>10, <1>l, <2>1 DEF Exit, Goto, ranks
  <2>2. CASE r # Lead
    BY <1>0, <1>10, <1>j, <2>2 DEF Exit, Goto, ranks, lead
  <2> QED
    BY <2>1, <2>2
<1>11. ASSUME NEW r \in Ranks, CollectiveAborts(r) PROVE CountInv'
  <2>1. UNCHANGED <<server, late, shard, trained, resync, call>> /\ (Here' => Here)
    BY <1>0, <1>11 DEF CollectiveAborts, Goto, ranks, lead
  <2> QED
    BY <1>j, <2>1
<1>12. CASE PassGate \/ Decide \/ BroadcastOut \/ BroadcastOutcome \/ UNCHANGED vars
  <2>1. UNCHANGED <<server, late, shard, trained, resync, call>> /\ (Here' => Here)
    BY <1>0, <1>12 DEF PassGate, Decide, BroadcastOut, BroadcastOutcome, Meet, vars, ranks, lead
  <2> QED
    BY <1>j, <2>1
<1> QED
  BY <1>1, <1>2, <1>3, <1>4, <1>5, <1>6, <1>7, <1>8, <1>9, <1>10, <1>11, <1>12 DEF Next, LeadStep, Collective

LEMMA IslandGrowth ==
  ASSUME IslandInv, GrowthInv, [Next]_vars
  PROVE  GrowthInv'
<1> USE IslandConstants
<1>f. fragments' = fragments /\ Fragment' = Fragment
  BY IslandServer DEF Fragment
<1>0. /\ ServerInv /\ faults \in [FaultKinds -> Nat] /\ call \in Calls
      /\ log \in [Fragment -> Seq(Interval)] /\ baseline \in [Fragment -> Seq(Interval)] /\ fragIdx[Lead] \in Fragment
  BY DEF IslandInv, ServerInv, EqualInv
<1>n. NoCall.kind = "pull" /\ NoCall.state = "none"
  BY <1>0, NewExchange
<1>. DEFINE Never == faults["server"] = MaxFaults["server"]
            Bases == \A f \in Fragment : IsPrefix(baseline[f], log[f])
<1>o. Never => Grown /\ Bases
  BY DEF GrowthInv
\* Steps of the island: nothing is restored.
<1>k. ASSUME UNCHANGED server, late' \subseteq late \cup Abandoned, faults'["server"] = faults["server"],
             call'.kind = "push" => call' = call \/ (Never => IsPrefix(call'.basis, log[call'.frag])),
             call'.state = "answered" => call' = call,
             Never => \A f \in Fragment : IsPrefix(baseline'[f], log[f])
      PROVE  GrowthInv'
  <2>1. Never => Grown'
    BY <1>0, <1>f, <1>k, ClientGrown DEF GrowthInv, server
  <2> QED
    BY <1>f, <1>k, <2>1 DEF GrowthInv, server
<1>1. CASE ServerNext /\ UNCHANGED island
  <2>1. UNCHANGED baseline
    BY <1>1 DEF island, lead
  <2>2. CASE faults'["server"] = faults["server"]
    <3>1. ASSUME Never PROVE Grown' /\ \A f \in Fragment : IsPrefix(baseline[f], log'[f])
      <4>1. Grown' /\ (\A f \in Fragment : IsPrefix(log[f], log'[f])) /\ Bases
        BY <1>0, <1>1, <1>o, <2>2, <3>1, ServerGrows
      <4>2. log' \in [Fragment -> Seq(Interval)]
        BY <1>0, <1>1, ServerStep DEF ServerInv, Fragment
      <4> QED
        BY <1>0, <4>1, <4>2, PrefixOfPrefix
    <3> QED
      BY <1>f, <2>1, <2>2, <3>1 DEF GrowthInv
  <2>3. CASE faults'["server"] < faults["server"] /\ faults'["server"] \in Nat
    <3>1. faults["server"] \in Nat /\ MaxFaults["server"] \in Nat /\ faults["server"] <= MaxFaults["server"]
      BY <1>0, FragmentServerTypes DEF FaultKinds, GrowthInv
    <3>2. faults'["server"] <= MaxFaults["server"] /\ faults'["server"] # MaxFaults["server"]
      BY <2>3, <3>1
    <3> QED
      BY <3>2 DEF GrowthInv
  <2> QED
    BY <1>0, <1>1, <2>2, <2>3, RestoresSpent
<1>2. CASE UNCHANGED <<server, late, faults, call, baseline>>
  BY <1>0, <1>k, <1>o, <1>2
<1>3. CASE Train \/ Decide \/ BroadcastOut \/ BroadcastOutcome \/ PassGate \/ UNCHANGED vars
  BY <1>2, <1>3 DEF Train, Decide, BroadcastOut, BroadcastOutcome, PassGate, vars, lead
<1>4. ASSUME NEW r \in Ranks, CollectiveAborts(r) PROVE GrowthInv'
  BY <1>2, <1>4 DEF CollectiveAborts, lead
<1>5. CASE GateFails
  <2>1. faults'["server"] = faults["server"]
    BY <1>0, <1>5 DEF GateFails, Spend, FaultKinds
  <2> QED
    BY <1>k, <1>n, <1>o, <1>5, <2>1 DEF GateFails, lead
<1>6. ASSUME NEW r \in Ranks, Exit(r) PROVE GrowthInv'
  <2>1. /\ UNCHANGED <<server, faults, baseline>> /\ (call' = call \/ call' = NoCall)
        /\ late' \subseteq late \cup Abandoned
    BY <1>6 DEF Exit, lead
  <2> QED
    BY <1>k, <1>n, <1>o, <2>1
<1>7. CASE Join \/ Answered
  <2>1. UNCHANGED <<server, late, faults, baseline>> /\ (call' = call \/ call' = NoCall)
    BY <1>7 DEF Join, Answered
  <2> QED
    BY <1>k, <1>n, <1>o, <2>1
<1>8. CASE Pull
  <2>1. UNCHANGED <<server, late, faults, baseline>> /\ call'.kind = "pull" /\ call'.state = "running"
    BY <1>0, <1>8, NewExchange DEF Pull, lead
  <2> QED
    BY <1>k, <1>o, <2>1
<1>9. CASE Gather
  <2>1. /\ UNCHANGED <<server, late, faults, baseline>> /\ call'.kind = "push" /\ call'.state = "running"
        /\ call'.frag = fragIdx[Lead] /\ call'.basis = baseline[fragIdx[Lead]]
    BY <1>0, <1>9, NewExchange DEF Gather, lead
  <2>2. Never => IsPrefix(call'.basis, log[call'.frag])
    BY <1>0, <1>o, <2>1
  <2> QED
    BY <1>k, <1>o, <2>1, <2>2
<1>10. CASE AdoptFragment
  <2>1. /\ UNCHANGED <<server, late, faults>> /\ call' = NoCall /\ call.state = "answered"
        /\ baseline' = [baseline EXCEPT ![call.frag] = call.model[call.frag]]
    BY <1>10 DEF AdoptFragment, BackedUp, Meet, IslandInv, WordsInv
  <2>2. \A f \in Fragment : baseline'[f] = IF f = call.frag THEN call.model[f] ELSE baseline[f]
    BY <1>0, <2>1
  <2>3. Never => \A f \in Fragment : IsPrefix(call.model[f], log[f])
    BY <1>o, <2>1 DEF Grown
  <2>4. Never => \A f \in Fragment : IsPrefix(baseline'[f], log[f])
    BY <1>o, <2>2, <2>3
  <2> QED
    BY <1>k, <1>n, <2>1, <2>4
<1>11. CASE AdoptAll
  <2>1. UNCHANGED <<server, late, faults>> /\ call' = NoCall /\ call.state = "answered" /\ baseline' = call.model
    BY <1>11 DEF AdoptAll, Meet, IslandInv, WordsInv
  <2> QED
    BY <1>k, <1>n, <1>o, <2>1 DEF Grown
<1> QED
  BY <1>1, <1>3, <1>4, <1>5, <1>6, <1>7, <1>8, <1>9, <1>10, <1>11 DEF Next, LeadStep, Collective

LEMMA IslandExchangeStarts ==
  ASSUME Init PROVE ExchangeInv
<1>1. /\ log = [f \in Fragment |-> <<>>] /\ disk.log = log /\ late = {} /\ call = NoCall
      /\ baseline = [f \in Fragment |-> <<>>] /\ faults = MaxFaults /\ resync = FALSE
      /\ words[Lead] = NoWords /\ pc[Lead] = "pull"
  BY IslandConstants DEF Init, ServerInit
<1>2. ApartInv /\ Grown /\ call.kind = "pull" /\ \A f \in Fragment : \A s : DoneBy(f, s)
  BY <1>1, NothingPushed
<1>3. FlightInv
  BY <1>1, <1>2 DEF FlightInv
<1>4. CountInv
  BY <1>2 DEF CountInv
<1>5. GrowthInv
  <2>1. faults["server"] \in Nat /\ <<>> \in Seq(Interval)
    BY <1>1, FragmentServerTypes DEF FaultKinds
  <2>2. \A f \in Fragment : baseline[f] = <<>> /\ log[f] = <<>>
    BY <1>1
  <2>3. \A f \in Fragment : IsPrefix(baseline[f], log[f])
    BY <2>1, <2>2, PrefixOfItself
  <2> QED
    BY <1>1, <1>2, <2>1, <2>3 DEF GrowthInv
<1> QED
  BY <1>3, <1>4, <1>5, IslandStarts DEF ExchangeInv

LEMMA IslandExchangeSteps ==
  ExchangeInv /\ [Next]_vars => ExchangeInv'
BY IslandSteps, IslandFlight, IslandCount, IslandGrowth DEF ExchangeInv

\* What the invariant means for what the island pushes.
LEMMA IslandPushesSound ==
  ASSUME ExchangeInv PROVE FragmentContinuity /\ WorkCountedOnce
<1>1. FragmentContinuity
  BY AbandonedIsCall DEF ExchangeInv, GrowthInv, Grown, FragmentContinuity
<1>2. WorkCountedOnce
  BY ApartCountsOnce DEF ExchangeInv, IslandInv, CountInv, WorkCountedOnce
<1> QED
  BY <1>1, <1>2

-----------------------------------------------------------------------------
(* The two clients. *)

\* Every variable of a replica that runs has its type.
LEMMA ReplicaTyped ==
  ASSUME ReplicaInv PROVE ReplicaTypeOK
<1>. USE ReplicaConstants
<1>1. /\ at \in Places /\ ended \in {"no", "done", "diverged", "failed"}
      /\ window \in Nat \ {0} /\ h \in Nat /\ steps \in Nat
      /\ outer \in 0..plan.windows /\ failures \in 0..MaxFailures /\ lost \subseteq 0..plan.windows
      /\ merges \in 0..outer /\ plan.windows \in Nat
  <2>1. plan.windows \in Nat
    BY DEF ReplicaInv, LoopInv
  <2> QED
    BY <2>1 DEF ReplicaInv, LoopInv
<1>2. merges \in 0..plan.windows
  BY <1>1
<1>3. slice \in [Fragment -> [model: Seq(Interval), since: 0..steps]]
  <2>1. \A f \in Fragment : slice[f] \in [model: Seq(Interval), since: 0..steps]
    BY <1>1 DEF ReplicaInv, ClientInv
  <2> QED
    BY <2>1 DEF ReplicaInv, ClientInv
<1>4. origin \in [Fragment -> Seq(Interval)] /\ originRev \in Nat /\ turn \in Fragment
  BY DEF ReplicaInv, ClientInv
<1>5. ASSUME NEW s \in Seq(Nat), \A i \in 1..Len(s) : s[i] <= steps PROVE s \in Seq(0..steps)
  <2>1. \A i \in 1..Len(s) : s[i] \in 0..steps
    BY <1>1, <1>5
  <2>2. Len(s) \in Nat /\ s \in [1..Len(s) -> Nat]
    BY LenProperties
  <2>3. s \in [1..Len(s) -> 0..steps]
    BY <2>1, <2>2
  <2>4. [1..Len(s) -> 0..steps] \in {[1..n -> 0..steps] : n \in Nat}
    BY <2>2
  <2>5. Seq(0..steps) = UNION {[1..n -> 0..steps] : n \in Nat}
    BY SeqDef, Zenon
  <2> QED
    BY <2>3, <2>4, <2>5, Zenon
<1>6. buffer \in Seq(0..steps) /\ pending.got \in Seq(0..steps) /\ batch \in 0..steps
  <2>1. buffer \in Seq(Nat) /\ pending.got \in Seq(Nat)
    BY DEF ReplicaInv, SlotInv
  <2>2. /\ \A i \in 1..Len(buffer) : buffer[i] <= steps
        /\ \A j \in 1..Len(pending.got) : pending.got[j] <= steps
        /\ batch \in 0..steps
    BY DEF ReplicaInv, AgeInv, Fits
  <2> QED
    BY <1>5, <2>1, <2>2
<1>7. taken \in 0..Slots /\ Held <= Slots
  BY DEF ReplicaInv, SlotInv, Held
<1>8. pending.on \in BOOLEAN /\ Len(pending.got) <= Prompts
  BY DEF ReplicaInv, SlotInv
<1>9. handoff.phase \in {"none", "pushing", "pulling"} /\ paused \in BOOLEAN
  BY DEF ReplicaInv, HandoffInv
<1>10. gen.version \in 0..steps /\ gen.merges \in 0..merges
  <2>1. gen.version \in Nat /\ gen.version + Unsent + Sending = steps /\ gen.merges = merges
    BY DEF ReplicaInv, HandoffInv
  <2>2. Unsent \in Nat /\ Sending \in Nat
    BY DEF Unsent, Sending
  <2> QED
    BY <1>1, <2>1, <2>2
<1>11. cycle \in [Fragment -> Nat]
  BY DEF ReplicaInv, CycleInv
<1> QED
  BY <1>1, <1>2, <1>3, <1>4, <1>6, <1>7, <1>8, <1>9, <1>10, <1>11 DEF ReplicaTypeOK

LEMMA AwayTyped ==
  ASSUME ServerInv, ReplicaAway PROVE ReplicaTypeOK
<1>. USE ReplicaConstants DEF ReplicaAway, ReplicaInitAs, NoRun, NoPending, NoHandoff
<1>1. 1 \in Fragment /\ <<>> \in Seq(Interval) /\ <<>> \in Seq(0..steps) /\ Len(<<>>) = 0
  BY FragmentServerTypes DEF ServerInv, Fragment
<1>2. Held = 0
  BY DEF Held
<1>3. slice \in [Fragment -> [model: Seq(Interval), since: 0..steps]]
  BY <1>1
<1>4. origin \in [Fragment -> Seq(Interval)] /\ cycle \in [Fragment -> Nat]
  BY <1>1
<1>5. window \in Nat \ {0} /\ 0 \in 0..MaxFailures /\ outer \in 0..plan.windows /\ merges \in 0..plan.windows
  BY DEF MaxFailures
<1>6. at \in Places \cup {"off"} /\ ended = "no" /\ h \in Nat /\ steps \in Nat /\ turn = 1 /\ originRev \in Nat
  OBVIOUS
<1>7. pending.on = FALSE /\ pending.got = <<>>
  OBVIOUS
<1>10. buffer = <<>> /\ paused = FALSE /\ taken = 0 /\ batch \in 0..steps
  OBVIOUS
<1>8. handoff.phase = "none" /\ gen.version \in 0..steps /\ gen.merges \in 0..merges /\ lost = {} /\ failures = 0
  OBVIOUS
<1>9. 0 \in 0..Slots /\ 0 <= Prompts /\ 0 <= Slots
  OBVIOUS
<1>. HIDE DEF ReplicaAway, ReplicaInitAs, NoRun, NoPending, NoHandoff
<1> QED
  BY <1>1, <1>2, <1>3, <1>4, <1>5, <1>6, <1>7, <1>8, <1>9, <1>10 DEF ReplicaTypeOK

LEMMA ClientsStart ==
  ClientsInit => ClientsInv
<1>1. Init /\ ReplicaAway => ClientsInv
  BY IslandExchangeStarts DEF ClientsInv, IsIsland, ReplicaAway, ReplicaInitAs
<1>2. ReplicaInit => ClientsInv
  BY ReplicaPushStarts DEF ClientsInv, IsIsland, ReplicaInit, ReplicaInitAs
<1> QED
  BY <1>1, <1>2 DEF ClientsInit

LEMMA ClientsStep ==
  ClientsInv /\ [ClientsNext]_<<vars, replica>> => ClientsInv'
<1>. SUFFICES ASSUME ClientsInv, [ClientsNext]_<<vars, replica>> PROVE ClientsInv'
  OBVIOUS
<1>1. CASE IsIsland
  <2>1. [Next]_vars /\ UNCHANGED replica
    BY <1>1 DEF ClientsNext
  <2>2. ExchangeInv'
    BY <1>1, <2>1, IslandExchangeSteps DEF ClientsInv
  <2>3. Fragment' = Fragment
    BY <1>1, <2>1, IslandServer DEF ClientsInv, ExchangeInv, Fragment
  <2>4. ReplicaAway' /\ IsIsland'
    BY <1>1, <2>1, <2>3
    DEF ClientsInv, IsIsland, ReplicaAway, ReplicaInitAs, replica, loop, client, rollouts, weights
  <2> QED
    BY <2>2, <2>4 DEF ClientsInv
<1>2. CASE ~IsIsland
  <2>1. [ReplicaNext]_replicaVars
    BY <1>2 DEF ClientsNext, replicaVars, vars
  <2>2. PushInv'
    BY <1>2, <2>1, ReplicaPushSteps DEF ClientsInv
  <2>3. ~IsIsland'
    BY <2>2 DEF PushInv, ReplicaInv, LoopInv, IsIsland, Places
  <2> QED
    BY <2>2, <2>3 DEF ClientsInv
<1> QED
  BY <1>1, <1>2

LEMMA ClientsAreSound ==
  ASSUME ClientsInv PROVE ExchangesSound
<1>1. CASE IsIsland
  <2>1. ServerInv /\ ReplicaAway /\ FragmentContinuity /\ WorkCountedOnce
    BY <1>1, IslandPushesSound DEF ClientsInv, ExchangeInv, IslandInv
  <2>2. ReplicaTypeOK
    BY <2>1, AwayTyped
  <2>3. CycleWhole /\ DiesOnlyOfThree
    BY <1>1, <2>1 DEF IsIsland, CycleWhole, DiesOnlyOfThree, ReplicaAway, ReplicaInitAs
  <2>4. ReplicaContinuity
    BY <2>1 DEF FragmentContinuity, ReplicaContinuity, ReplicaAway, NoRun
  <2>5. ReplicaCountedOnce
    BY <2>1 DEF WorkCountedOnce, ReplicaCountedOnce
  <2> QED
    BY <2>1, <2>2, <2>3, <2>4, <2>5 DEF ExchangesSound, IslandCountedOnce, IslandContinuity
<1>2. CASE ~IsIsland
  <2>1. PushInv /\ ReplicaInv
    BY <1>2 DEF ClientsInv, PushInv
  <2>2. CycleWhole /\ DiesOnlyOfThree
    BY <2>1, CycleIsWhole
  <2> QED
    BY <1>2, <2>1, <2>2, ReplicaTyped, ReplicaPushesSound DEF ExchangesSound, IslandCountedOnce, IslandContinuity
<1> QED
  BY <1>1, <1>2

\* Whatever calls, gates or restores fail, a client's push fits the model it
\* is applied to, as long as the server is not restored, and carries no step's
\* work a second time; a replica's cycles are whole, and only three failed
\* syncs in a row end it: for any number of ranks, fragments, windows and faults.
THEOREM ExchangesAreSound == ClientsSpec => []ExchangesSound
<1>1. ClientsInv => ExchangesSound
  BY ClientsAreSound
<1> QED
  BY <1>1, ClientsStart, ClientsStep, PTL DEF ClientsSpec
=============================================================================
