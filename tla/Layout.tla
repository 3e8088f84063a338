------------------------------- MODULE Layout -------------------------------
(***************************************************************************)
(* How the engine cuts a whole into parts: parameters into fragments,      *)
(* layers into pipeline stages, tensors into relay shards, a file into     *)
(* ranges.  Pure operators, written with folds; sequences are indexed from *)
(* 1, a range <<lo, hi>> holds the indices lo .. hi-1 counted from 0, as   *)
(* in the code.                                                            *)
(*                                                                         *)
(* Definitions named Faulty... are plausible mistakes in the code: put in  *)
(* place of the definition that follows them, each breaks a property.      *)
(***************************************************************************)
EXTENDS Integers, FiniteSets, Sequences, SequencesExt

Total(sizes) == FoldLeft(+, 0, sizes)

AbsOf(n) == IF n < 0 THEN -n ELSE n
Largest(block) == FoldLeft(LAMBDA a, x : IF AbsOf(x) > a THEN AbsOf(x) ELSE a, 0, block)

\* The 1-based positions of the half-open 0-based range r.
Members(r) == (r[1] + 1) .. r[2]

SizeOf(sizes, r) == Total(SubSeq(sizes, r[1] + 1, r[2]))

\* Consecutive ranges with the given numbers of elements.
Consecutive(counts) ==
  [k \in DOMAIN counts |-> <<Total(SubSeq(counts, 1, k - 1)), Total(SubSeq(counts, 1, k))>>]

-----------------------------------------------------------------------------
(* _fragment_bounds: contiguous fragments of about the same size. *)

Cut(a, i) == [bounds |-> Append(a.bounds, <<a.start, i>>), start |-> i, acc |-> a.acc]

FaultyMustCut(acc, total, fragments, made, left) == acc * fragments >= (made + 1) * total

\* The running size crosses the next ideal boundary, or each fragment still
\* to come needs one of the parameters left.
MustCut(acc, total, fragments, made, left) ==
  \/ acc * fragments >= (made + 1) * total
  \/ left = fragments - made - 1

FragmentBounds(numels, fragments) ==
  LET Take(a, i) ==
        LET acc == a.acc + numels[i]
            made == Len(a.bounds)
        IN
        IF made < fragments - 1
           /\ MustCut(acc, Total(numels), fragments, made, Len(numels) - i)
        THEN [Cut(a, i) EXCEPT !.acc = acc]
        ELSE [a EXCEPT !.acc = acc]
      all == FoldLeftDomain(Take, [bounds |-> <<>>, start |-> 0, acc |-> 0], numels)
  IN  Append(all.bounds, <<all.start, Len(numels)>>)

\* The ranges follow each other and cover 0 .. n-1.
Covers(ranges, n) ==
  /\ ranges[1][1] = 0 /\ ranges[Len(ranges)][2] = n
  /\ \A k \in 1..(Len(ranges) - 1) : ranges[k][2] = ranges[k + 1][1]

NoneEmpty(ranges) == \A k \in DOMAIN ranges : ranges[k][1] < ranges[k][2]

\* As many fragments as asked for, none empty, together all the parameters.
WholeFragments(numels, fragments) ==
  LET bounds == FragmentBounds(numels, fragments) IN
  Len(bounds) = fragments /\ Covers(bounds, Len(numels)) /\ NoneEmpty(bounds)

\* No fragment exceeds its ideal share by as much as the largest parameter.
EvenFragments(numels, fragments) ==
  LET bounds == FragmentBounds(numels, fragments) IN
  \A k \in DOMAIN bounds :
    SizeOf(numels, bounds[k]) * fragments < Total(numels) + fragments * Largest(numels)

-----------------------------------------------------------------------------
(* The sharder: decoder layers onto pipeline stages. *)

\* What is left of each stage's memory after the embeddings on the first
\* stage and the head on the last.
Budgets(memory, embed, head) ==
  LET last == Len(memory)
      Left(b) == IF b > 0 THEN b ELSE 0
      first == [memory EXCEPT ![1] = Left(@ - embed)]
  IN  [first EXCEPT ![last] = Left(@ - head)]

\* Shares rounded down; the layers left go to the largest fractional parts,
\* the earlier stage first.
Rounded(layers, budgets) ==
  LET all   == Total(budgets)
      down  == [i \in DOMAIN budgets |-> (layers * budgets[i]) \div all]
      frac  == [i \in DOMAIN budgets |-> (layers * budgets[i]) % all]
      Before(i) == {j \in DOMAIN budgets : frac[j] > frac[i] \/ (frac[j] = frac[i] /\ j < i)}
      Share(i) == down[i] + (IF Cardinality(Before(i)) < layers - Total(down) THEN 1 ELSE 0)
  IN  FoldLeftDomain(LAMBDA counts, i : Append(counts, Share(i)), <<>>, budgets)

\* The first stage with the most layers.
Fattest(counts) ==
  CHOOSE i \in DOMAIN counts : \A j \in DOMAIN counts :
    counts[j] < counts[i] \/ (counts[j] = counts[i] /\ i <= j)

FaultyFilled(counts) == counts

\* A stage without a layer takes one from the fattest stage.
Filled(counts) ==
  LET Steal(c, i) == IF c[i] > 0 THEN c
                     ELSE [[c EXCEPT ![Fattest(c)] = @ - 1] EXCEPT ![i] = @ + 1]
  IN  FoldLeftDomain(Steal, counts, counts)

Refused(layers, memory, embed, head) ==
  \/ Len(memory) < 2 \/ layers < Len(memory)
  \/ Total(Budgets(memory, embed, head)) <= 0

PlanRanges(layers, memory, embed, head) ==
  Consecutive(Filled(Rounded(layers, Budgets(memory, embed, head))))

FaultyStagesOf(key, ranges, tied) ==
  CASE key[1] = "layer" -> {s \in DOMAIN ranges : key[2] + 1 \in Members(ranges[s])}
    [] key[1] = "embed" -> {1}
    [] key[1] = "head"  -> {Len(ranges)}
    [] OTHER            -> DOMAIN ranges

\* _tensor_owners: the stages that carry a tensor.  With tied embeddings the
\* embedding matrix is the head too.
StagesOf(key, ranges, tied) ==
  CASE key[1] = "layer" -> {s \in DOMAIN ranges : key[2] + 1 \in Members(ranges[s])}
    [] key[1] = "embed" -> IF tied THEN {1, Len(ranges)} ELSE {1}
    [] key[1] = "head"  -> {Len(ranges)}
    [] OTHER            -> DOMAIN ranges

FaultyRekeyed(key, range) == key

\* In engine mode a stage keeps every tensor that is no layer, and its own
\* layers under numbers of its own.
Rekeyed(key, range) == IF key[1] = "layer" THEN <<"layer", key[2] - range[1]>> ELSE key

StageKeys(keys, range) ==
  {Rekeyed(k, range) : k \in {k \in keys : k[1] = "layer" => k[2] + 1 \in Members(range)}}

-----------------------------------------------------------------------------
(* _partition_names: tensors onto relay shards, the largest first, each on *)
(* the lightest shard so far.                                              *)

BySize(sizes) ==
  SetToSortSeq(DOMAIN sizes, LAMBDA i, j : sizes[i] > sizes[j] \/ (sizes[i] = sizes[j] /\ i < j))

Weight(sizes, bin) == Total([k \in DOMAIN bin |-> sizes[bin[k]]])

FaultyLightest(sizes, bins) ==
  CHOOSE i \in DOMAIN bins : \A j \in DOMAIN bins :
    Len(bins[i]) < Len(bins[j]) \/ (Len(bins[i]) = Len(bins[j]) /\ i <= j)

Lightest(sizes, bins) ==
  CHOOSE i \in DOMAIN bins : \A j \in DOMAIN bins :
    LET a == Weight(sizes, bins[i])
        b == Weight(sizes, bins[j])
    IN  a < b \/ (a = b /\ i <= j)

PartitionNames(sizes, shards) ==
  FoldLeft(LAMBDA bins, n : [bins EXCEPT ![Lightest(sizes, bins)] = Append(@, n)],
           [i \in 1..shards |-> <<>>], BySize(sizes))

-----------------------------------------------------------------------------
(* fetch_file: the ranges a file of some length is read in. *)

FaultySpans(total, chunk) ==
  [k \in 1..((total + chunk - 1) \div chunk) |-> <<(k - 1) * chunk, k * chunk>>]

Spans(total, chunk) ==
  [k \in 1..((total + chunk - 1) \div chunk) |->
     <<(k - 1) * chunk, IF k * chunk < total THEN k * chunk ELSE total>>]

-----------------------------------------------------------------------------
(* _quantize_int8, one block: the integer nearest to 127 x / max |x|, ties  *)
(* to the even one; a block of zeros has any scale.                         *)


RoundHalfEven(a, b) ==
  LET q == a \div b
      r == a % b
  IN  IF 2 * r < b \/ (2 * r = b /\ q % 2 = 0) THEN q ELSE q + 1

FaultyScale(block) == IF Largest(block) = 0 THEN 127 ELSE AbsOf(block[1])

\* 127 times the block's scale.
Scale(block) == IF Largest(block) = 0 THEN 127 ELSE Largest(block)

Quantized(block) ==
  [i \in DOMAIN block |->
     LET q == RoundHalfEven(127 * block[i], Scale(block)) IN
     IF q > 127 THEN 127 ELSE IF q < -127 THEN -127 ELSE q]

-----------------------------------------------------------------------------
(* Dynamic local updates: the reference speed is a percentile (per mille)  *)
(* of the speeds reported in the last dylu_timeout seconds.                *)

Recent(pool, now, timeout) == SelectSeq(pool, LAMBDA e : e.at >= now - timeout)

PoolSpeed(pool, now, timeout, permille) ==
  LET recent == Recent(pool, now, timeout)
      speeds == SortSeq([i \in DOMAIN recent |-> recent[i].speed], <)
      index  == (permille * (Len(speeds) - 1) + 999) \div 1000
  IN  IF speeds = <<>> THEN 0 ELSE speeds[index + 1]

FaultyDyluSteps(H, speed, pool) == IF H > 0 /\ speed > 0 /\ pool > 0 THEN (speed * H) \div pool ELSE H

\* The window for a worker of this speed, at most H and at least one step.
DyluSteps(H, speed, pool) ==
  IF H > 0 /\ speed > 0 /\ pool > 0
  THEN LET steps == (speed * H) \div pool IN
       IF steps < 1 THEN 1 ELSE IF steps < H THEN steps ELSE H
  ELSE H

\* _apply_dylu: with fragments, a multiple of their number.
Cycle(steps, fragments) ==
  IF fragments = 1 \/ steps = 0 THEN steps
  ELSE LET c == (steps \div fragments) * fragments IN IF c < fragments THEN fragments ELSE c

-----------------------------------------------------------------------------
(* run_heloco.py: what it derives for the processes it starts.  A choice of *)
(* islands is "all", "none" or "some" with their numbers.                   *)

\* Tokens one island trains on in a step; a global batch below 0 is not set.
TokensPerStep(batch, degree, global, seq) ==
  (IF global < 0 THEN batch * degree ELSE global) * seq

FaultyDynamicSteps(target, perStep, islands) == (target + perStep - 1) \div perStep

\* Steps for a budget of all islands together, at least one.
DynamicSteps(target, perStep, islands) ==
  LET steps == (target + perStep * islands - 1) \div (perStep * islands)
  IN  IF steps < 1 THEN 1 ELSE steps

EnoughGpus(gpus, islands, each) == Len(gpus) >= islands * each

FaultyGpusOf(gpus, island, each) == SubSeq(gpus, island + 1, island + each)

\* CUDA_VISIBLE_DEVICES of an island.
GpusOf(gpus, island, each) == SubSeq(gpus, island * each + 1, (island + 1) * each)

FaultySelectedCount(choice, islands) == islands - Cardinality(choice.ids)

\* How many islands the launcher counts as corrected; "" has one part.
SelectedCount(choice, islands) ==
  CASE choice.which = "none" -> 0
    [] choice.which = "all"  -> islands
    [] OTHER -> IF choice.ids = {} THEN 1 ELSE Cardinality(choice.ids)

\* --diloco_nesterov_period, when it is not given.
NesterovPeriod(choice, islands) ==
  LET others == islands - SelectedCount(choice, islands)
  IN  IF others < 1 THEN 1 ELSE others

\* Which islands the server corrects: to it, "" is "all".
Selected(choice, islands) ==
  CASE choice.which = "none" -> {}
    [] choice.which = "all" \/ choice.ids = {} -> 0..(islands - 1)
    [] OTHER -> choice.ids
=============================================================================
