------------------------------ MODULE Prototype ------------------------------
(***************************************************************************)
(* The pure parts of the prototype, archive/heloco_stable_v2.py: how text  *)
(* becomes an evaluation set and a shard for each worker, and its          *)
(* correction of a push (SmartDCMLA_v2), which heloco.py's follows.        *)
(*                                                                         *)
(* A text is the length of a record; a character is <<record, position>>.  *)
(* Positions count from 0, a range <<lo, hi>> holds lo .. hi-1.            *)
(*                                                                         *)
(* Definitions named Faulty... are plausible mistakes in the code: put in  *)
(* place of the definition that follows them, each breaks a property.      *)
(***************************************************************************)
EXTENDS Layout, Correction

(* load_c4_corpus and build_c4_split: what is held out, what is trained on. *)

Chars(k, lo, hi) == {<<k, i>> : i \in lo..(hi - 1)}

FaultyRest(k, length, take) == Chars(k, 0, length)

\* text = text[take:]
Rest(k, length, take) == Chars(k, take, length)

\* The first characters go to the evaluation set, up to its limit.
Corpus(lengths, limit) ==
  LET Read(a, k) ==
        LET left == limit - Cardinality(a.eval)
            take == IF left > 0 THEN Min({lengths[k], left}) ELSE 0
        IN  [eval |-> a.eval \cup Chars(k, 0, take), train |-> a.train \cup Rest(k, lengths[k], take)]
  IN  FoldLeftDomain(Read, [eval |-> {}, train |-> {}], lengths)

AtLeastOne(n) == IF n < 1 THEN 1 ELSE n

\* A file of one language, of which a part is used (train_fraction, in
\* quarters): the first records, and what is held out comes out of them.
Language(lengths, limit, quarters) ==
  Corpus(SubSeq(lengths, 1, AtLeastOne((Len(lengths) * quarters) \div 4)), limit)

\* Each language holds out the same.
LimitOf(limit, languages) == limit \div languages

Languages(files, limit, quarters) ==
  [f \in DOMAIN files |-> Language(files[f], LimitOf(limit, Len(files)), quarters)]

-----------------------------------------------------------------------------
(* Tokens. *)

FaultyShardSlices(n, shards) == [i \in 1..shards |-> <<(i - 1) * (n \div shards), i * (n \div shards)>>]

\* build_lm_split_from_texts: the last shard takes the remainder.
ShardSlices(n, shards) ==
  [i \in 1..shards |->
     <<(i - 1) * (n \div shards), IF i = shards THEN n ELSE i * (n \div shards)>>]

FaultySamples(n, length) == n - length + 1

\* LanguageModelingDataset: its number of samples, of n tokens.
Samples(n, length) == (n - 1) - length + 1

\* A slice ends where the sequence does.
Sliced(n, lo, hi) == lo .. (Min({hi, n}) - 1)

\* What sample i is made of: tokens[:-1], and tokens[1:] counted in tokens.
Input(n, length, i) == Sliced(n - 1, i, i + length)
Output(n, length, i) == {j + 1 : j \in Sliced(n - 1, i, i + length)}

FaultyRepeats(n, updates, batch) == AtLeastOne((updates * batch) \div n)

\* build_train_indices: how often the shard's samples are shuffled and listed.
Repeats(n, updates, batch) == AtLeastOne(((updates * batch) \div n) * 2)

TrainIndices(n, updates, batch) == n * Repeats(n, updates, batch)

-----------------------------------------------------------------------------
(* SmartDCMLA_v2.step, for one tensor. *)

CosBad == -5  \* cos_bad, in 25ths

\* lam = min(k_dir (1 - t) conf, 1), t = (cos - cos_bad) / (cos_ok - cos_bad):
\* nothing is left of it where cos reaches cos_ok.
PrototypeTurn(c) ==
  AtMost(<<c.kd[1] * (c.ok - Dot(c.delta, c.m)) * Conf(c)[1], c.kd[2] * (c.ok - CosBad) * Conf(c)[2]>>, <<1, 1>>)

\* beta = min(k_shrink (-cos) conf, beta_max)
PrototypeShrink(c) ==
  AtMost(<<c.ks[1] * (-Dot(c.delta, c.m)) * Conf(c)[1], c.ks[2] * 25 * Conf(c)[2]>>, <<1, 2>>)

PrototypeCorrected(c) ==
  LET cos == Dot(c.delta, c.m)
      l   == PrototypeTurn(c)
      b   == PrototypeShrink(c)
  IN
  IF c.m = <<0, 0>> \/ cos >= c.ok THEN [vector |-> c.delta, times |-> 1, kept |-> TRUE]
  ELSE IF cos < 0
  THEN [vector |-> Mix(25 * b[2], c.delta, -(b[1] * cos), c.m), times |-> 25 * b[2], kept |-> FALSE]
  ELSE [vector |-> Mix(l[2] - l[1], c.delta, l[1], c.m), times |-> 1, kept |-> TRUE]
=============================================================================
