---------------------------------- MODULE Plans -------------------------------
(***************************************************************************)
(* What the operators of Layout, Correction and Prototype promise, on      *)
(* every input within bounds: an initial state is an input, and nothing    *)
(* happens.                                                                *)
(***************************************************************************)
EXTENDS Layout, Correction, Prototype

CONSTANTS
  MaxParts,  \* bound on the number of parameters, stages, tensors, ...
  MaxSize    \* bound on a size, a memory, a speed, a value

ASSUME PlanAssumption == MaxParts \in Nat \ {0} /\ MaxSize \in Nat \ {0}

VARIABLE input

Seqs(S, n) == UNION {[1..k -> S] : k \in 1..n}
Sizes == Seqs(1..MaxSize, MaxParts)

NoInput == [kind |-> "none"]

Is(kind) == input.kind = kind

\* Parameters and a number of fragments, tensors and a number of shards.
Cuts ==
  {[kind |-> "cut", sizes |-> s, parts |-> n] : s \in Sizes, n \in 1..MaxParts}

\* Layers, the stages' memories, and the sizes of the embeddings and the head.
Pipelines ==
  {[kind |-> "pipeline", layers |-> l, memory |-> m, embed |-> e, head |-> h] :
     l \in 1..(2 * MaxParts), m \in Seqs(0..MaxSize, MaxParts), e \in 0..1, h \in 0..2}

\* Numbers of layers, and whether the embeddings are tied to the head.
Splits ==
  {[kind |-> "split", counts |-> c, tied |-> t] : c \in Sizes, t \in BOOLEAN}

Downloads ==
  {[kind |-> "download", length |-> l, chunk |-> c] : l \in 1..(4 * MaxSize), c \in 1..MaxSize}

Blocks ==
  {[kind |-> "block", values |-> v] : v \in Seqs((-MaxSize)..MaxSize, MaxParts)}

\* A worker's speed, and the speeds others reported, then and now.
Pools ==
  {[kind |-> "pool", H |-> h, F |-> f, speed |-> v, permille |-> p, pool |-> r] :
     h \in 1..4, f \in 1..2, v \in 1..MaxSize, p \in {0, 500, 900, 1000},
     r \in Seqs([speed: 1..MaxSize, at: {1, 5}], MaxParts - 1)}

\* A push's direction and length, the momentum's, c_ok in 25ths, and the gains;
\* the momenta of two tensors of one element that are corrected as one.
Pushes ==
  {[kind |-> "push", momenta |-> v,
    case |-> [delta |-> u, m |-> Flat(v), length |-> d, weight |-> w,
             ok |-> o, ks |-> k, kd |-> l]] :
     u \in Directions, v \in Directions \cup {<<Missing, 5>>, <<-5, Missing>>, <<Missing, Missing>>},
     d \in 1..2, w \in 1..2, o \in {5, 20}, k \in {<<1, 8>>, <<1, 2>>, <<8, 1>>}, l \in {<<1, 2>>, <<4, 1>>}}

\* Islands, GPUs for each, GPUs listed, and the islands to be corrected.
IslandChoices(islands) ==
  {[which |-> w, ids |-> {}] : w \in {"all", "none"}}
    \cup {[which |-> "some", ids |-> s] : s \in SUBSET (0..(islands - 1))}

Launches ==
  UNION {{[kind |-> "launch", islands |-> i, each |-> e, gpus |-> [k \in 1..n |-> k + 3], choice |-> c] :
            e \in 1..MaxSize, n \in 1..(MaxParts * MaxSize), c \in IslandChoices(i)} : i \in 1..MaxParts}

\* Parameters, half tokens for each, islands, and what a step takes.
Budgeted ==
  {[kind |-> "budget", params |-> p, halves |-> h, islands |-> i,
    batch |-> b, degree |-> d, global |-> g] :
     p \in 1..12, h \in 1..5, i \in 1..MaxParts, b \in 1..2, d \in 1..2, g \in {-1, 2, 4}}

\* Records of a file for each language, what is held out, and the quarters of
\* a file that are used.
Texts ==
  {[kind |-> "text", files |-> f, limit |-> n, quarters |-> q] :
     f \in Seqs(Seqs(0..2, 3), 2), n \in 1..4, q \in {2, 4}}

\* Tokens, shards, tokens of a sample, and what is trained.
Tokens ==
  {[kind |-> "tokens", n |-> n, shards |-> s, length |-> l, updates |-> u, batch |-> b] :
     n \in 2..12, s \in 1..MaxParts, l \in 1..MaxSize, u \in 1..8, b \in 1..2}

AnyInput ==
  \/ input \in Texts \/ input \in Tokens
  \/ input \in Pushes \/ input \in Launches \/ input \in Budgeted
  \/ input \in Cuts \/ input \in Pipelines \/ input \in Splits
  \/ input \in Downloads \/ input \in Blocks \/ input \in Pools

KeysFor(layers) == {<<"layer", l>> : l \in 0..(layers - 1)} \cup {<<"embed">>, <<"head">>, <<"other">>}

-----------------------------------------------------------------------------
(* Properties. *)

\* _fragment_bounds: as many fragments as asked for, none empty, together all
\* the parameters in order, and none larger than its ideal share by more than
\* the largest parameter ("contiguous, numel-balanced").
FragmentsFit ==
  Is("cut") /\ input.parts <= Len(input.sizes) =>
    WholeFragments(input.sizes, input.parts) /\ EvenFragments(input.sizes, input.parts)

\* _partition_names: each tensor is in one shard, and no shard is heavier
\* than another by more than its own lightest tensor.
ShardsBalanced ==
  Is("cut") =>
    LET sizes == input.sizes
        bins  == PartitionNames(sizes, input.parts)
    IN
    /\ UNION {ToSet(bins[i]) : i \in DOMAIN bins} = DOMAIN sizes
    /\ Total([i \in DOMAIN bins |-> Len(bins[i])]) = Len(sizes)
    /\ \A i, j \in DOMAIN bins : \A t \in ToSet(bins[i]) :
         Weight(sizes, bins[i]) - sizes[t] <= Weight(sizes, bins[j])

\* plan_ranges: every layer on one stage, no stage without a layer, and each
\* share within one layer of the stage's part of the memory, unless a stage
\* had to be given a layer it has no memory for.
StagesFit ==
  Is("pipeline") /\ ~Refused(input.layers, input.memory, input.embed, input.head) =>
    LET ranges  == PlanRanges(input.layers, input.memory, input.embed, input.head)
        budgets == Budgets(input.memory, input.embed, input.head)
        exact   == Rounded(input.layers, budgets)
    IN
    /\ Len(ranges) = Len(input.memory) /\ Covers(ranges, input.layers) /\ NoneEmpty(ranges)
    /\ (\A i \in DOMAIN exact : exact[i] > 0) => \A i \in DOMAIN ranges :
         AbsOf(Total(budgets) * (ranges[i][2] - ranges[i][1]) - input.layers * budgets[i])
           < Total(budgets)

\* _tensor_owners, for any split: each layer is on one stage, the first stage
\* can embed, the last one has what its head is made of (the embeddings when
\* they are tied), and nothing is left out.
StagesComplete ==
  Is("split") /\ Len(input.counts) > 1 =>
    LET ranges == Consecutive(input.counts)
        Owners(k) == StagesOf(k, ranges, input.tied)
    IN
    /\ \A k \in KeysFor(Total(input.counts)) :
         Owners(k) # {} /\ (k[1] = "layer" => Cardinality(Owners(k)) = 1)
    /\ 1 \in Owners(<<"embed">>)
    /\ Len(ranges) \in Owners(IF input.tied THEN <<"embed">> ELSE <<"head">>)

\* Engine mode: a stage's directory is a whole model of its own depth, its
\* layers numbered from 0 without a gap.
EngineShardsWhole ==
  Is("split") =>
    LET ranges == Consecutive(input.counts) IN
    \A s \in DOMAIN ranges :
      StageKeys(KeysFor(Total(input.counts)), ranges[s]) = KeysFor(input.counts[s])

\* fetch_file: the ranges asked for are the file, in order, each at most a chunk.
SpansWhole ==
  Is("download") =>
    LET spans == Spans(input.length, input.chunk) IN
    /\ Covers(spans, input.length) /\ NoneEmpty(spans)
    /\ \A k \in DOMAIN spans : spans[k][2] - spans[k][1] <= input.chunk

\* _quantize_int8: what is sent converts back to within half a scale of each
\* value ("bounded by scale_b/2 = max|x_b|/254"), in an int8.
QuantizedClose ==
  Is("block") => \A i \in DOMAIN input.values :
    LET q == Quantized(input.values)[i] IN
    /\ AbsOf(q) <= 127
    /\ 2 * AbsOf(127 * input.values[i] - q * Scale(input.values)) <= Largest(input.values)

\* DyLU: the window a worker is told takes it no longer than H steps take a
\* worker of the reference speed, which one that reported in time has; it is
\* never empty, never above H, and with fragments a whole number of cycles.
WindowsFit ==
  Is("pool") =>
    LET reference == PoolSpeed(input.pool, 7, 3, input.permille)
        steps     == DyluSteps(input.H, input.speed, reference)
        timely    == {i \in DOMAIN input.pool : input.pool[i].at = 5}
    IN
    /\ IF timely = {} THEN reference = 0
       ELSE reference \in {input.pool[i].speed : i \in timely}
    /\ steps \in 1..input.H
    /\ reference > 0 => steps = 1 \/ steps * reference <= input.speed * input.H
    /\ Cycle(steps, input.F) % input.F = 0 /\ Cycle(steps, input.F) > 0

\* block_correct, whatever the gains: an aligned block is left alone; an
\* opposed one keeps what is orthogonal to the momentum, and loses at most
\* half of what opposes it, so it is never turned round; a weakly aligned one
\* keeps its length and turns towards the momentum, not past it.
CorrectionTame ==
  Is("push") =>
    LET c      == input.case
        after  == Corrected(c)
        along  == Dot(after.vector, c.m)
        across == Cross(after.vector, c.m)
        cos    == Dot(c.delta, c.m)
        sin    == Cross(c.delta, c.m)
    IN
    /\ cos >= c.ok \/ c.m = <<0, 0>> => after.vector = c.delta
    /\ cos < 0 =>
         /\ across = after.times * sin
         /\ after.times * cos <= along /\ 2 * along <= after.times * cos
    /\ cos \in 0..(c.ok - 1) /\ c.m # <<0, 0>> =>
         /\ after.kept /\ across * sin >= 0
         /\ AbsOf(across) * cos <= AbsOf(sin) * along

\* whole_gradient_correct: a tensor without a momentum is not touched by what
\* opposes the momentum of another one, and is never turned round.
UnseededKept ==
  Is("push") =>
    LET after == WholeCorrected(input.case, input.momenta) IN
    \A i \in 1..2 : input.momenta[i] = Missing =>
      /\ ~after.kept => after.vector[i] = after.times * input.case.delta[i]
      /\ after.vector[i] * input.case.delta[i] >= 0

\* preflight and trainer_env: an accepted launch gives every island as many
\* GPUs as asked for, and no GPU to two islands.
GpusApart ==
  Is("launch") /\ EnoughGpus(input.gpus, input.islands, input.each) =>
    LET Given(i) == ToSet(GpusOf(input.gpus, i, input.each)) IN
    \A i, j \in 0..(input.islands - 1) :
      Cardinality(Given(i)) = input.each /\ (i # j => Given(i) \cap Given(j) = {})

\* ps_cmd and the server: the period the launcher works out is at least the
\* number of islands whose pushes the server's second optimizer steps
\* ("nesterov_period >= number of workers sharing this optimizer instance").
PeriodCovers ==
  Is("launch") =>
    NesterovPeriod(input.choice, input.islands)
      >= input.islands - Cardinality(Selected(input.choice, input.islands))

\* compute_dynamic_steps: all islands together train on the tokens asked for,
\* and on less than one more step's ("NOT per island").
BudgetMet ==
  Is("budget") =>
    LET target == RoundHalfEven(input.params * input.halves, 2)
        step   == TokensPerStep(input.batch, input.degree, input.global, 1)
        trained == DynamicSteps(target, step, input.islands) * step * input.islands
    IN  target <= trained /\ (trained - step * input.islands < target \/ target = 0)

\* load_c4_corpus, build_c4_split: nothing that is held out is trained on, all
\* of what is used is one or the other, and each language holds out as much as
\* another unless it has no more ("an equal share of the eval budget").
HeldOut ==
  Is("text") =>
    LET shards == Languages(input.files, input.limit, input.quarters)
        All(f) == UNION {Chars(k, 0, input.files[f][k]) : k \in DOMAIN input.files[f]}
        held(f) == Cardinality(shards[f].eval)
    IN
    /\ \A f \in DOMAIN shards :
         /\ shards[f].eval \cap shards[f].train = {}
         /\ input.quarters = 4 => shards[f].eval \cup shards[f].train = All(f)
         /\ \A g \in DOMAIN shards : held(f) < held(g) => shards[f].train = {}
    /\ Total([f \in DOMAIN shards |-> held(f)]) <= input.limit

\* build_lm_split_from_texts: every token in one shard; sizes differ by less
\* than the number of shards.
ShardsWhole ==
  Is("tokens") =>
    LET slices == ShardSlices(input.n, input.shards)
        SizeIn(i) == slices[i][2] - slices[i][1]
    IN
    /\ Covers(slices, input.n)
    /\ \A i, j \in DOMAIN slices : SizeIn(i) - SizeIn(j) < input.shards

\* LanguageModelingDataset: each sample is whole, predicts each time the token
\* after the one it has read, and every token but the first is predicted.
SamplesWhole ==
  Is("tokens") /\ input.n > input.length =>
    LET all == 0..(Samples(input.n, input.length) - 1) IN
    /\ \A i \in all : Cardinality(Input(input.n, input.length, i)) = input.length
    /\ UNION {Output(input.n, input.length, i) : i \in all} = 1..(input.n - 1)

\* build_train_indices: there is a sample for every batch of a shard's share.
IndicesSuffice ==
  Is("tokens") => input.updates * input.batch <= TrainIndices(input.n, input.updates, input.batch)

\* block_correct does what the prototype does to a push that is aligned or
\* opposed; one that is weakly aligned it turns at least as far, and the
\* prototype not past the momentum either.
AsPrototype ==
  Is("push") =>
    LET c    == input.case
        cos  == Dot(c.delta, c.m)
        turn == Turn(c)
        less == PrototypeTurn(c)
    IN
    IF c.m # <<0, 0>> /\ cos \in 0..(c.ok - 1)
    THEN /\ less[1] * turn[2] <= turn[1] * less[2]
         /\ LET after == PrototypeCorrected(c).vector
                along == Dot(after, c.m)
            IN  AbsOf(Cross(after, c.m)) * cos <= AbsOf(Cross(c.delta, c.m)) * along
    ELSE PrototypeCorrected(c) = Corrected(c)

\* Whatever is divided - parameters, tensors, layers, files, GPUs, text - is
\* divided without a gap or an overlap, and evenly as far as promised.
CutsFit ==
  /\ FragmentsFit /\ ShardsBalanced /\ StagesFit /\ StagesComplete /\ EngineShardsWhole
  /\ SpansWhole /\ GpusApart
  /\ HeldOut /\ ShardsWhole /\ SamplesWhole /\ IndicesSuffice

\* The numbers worked out on the way - quantized values, windows, corrected
\* pushes, periods and budgets - stay within what the code says of them.
RulesTame ==
  /\ QuantizedClose /\ WindowsFit /\ PeriodCovers /\ BudgetMet
  /\ CorrectionTame /\ UnseededKept /\ AsPrototype
=============================================================================
