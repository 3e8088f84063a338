------------------------------- MODULE RelayHub -------------------------------
(***************************************************************************)
(* The checkpoint channel: the parameter server process as a hub copies    *)
(* its model while other threads commit outer steps, cuts the copy into    *)
(* shards and posts manifest and shards to a tier of relays; rollout       *)
(* workers poll the relays and load what they can verify.                  *)
(*                                                                         *)
(* A tensor group is one part of the model and travels in one shard.  Its  *)
(* value is the stamp of the outer step that wrote it last; a checksum is  *)
(* the value itself.  A relay node keeps everything in memory.             *)
(*                                                                         *)
(* Definitions named Faulty... are plausible mistakes in the code: put in  *)
(* place of the definition that follows them, each breaks a property.      *)
(***************************************************************************)
EXTENDS Integers, FiniteSets, Sequences, Functions, FiniteSetsExt

CONSTANTS
  Workers,
  Tier,          \* relay_urls of the hub and of the workers, in posting order
  NumShards,
  RetainLast,    \* retain_last of the relays
  MaxRetries,    \* max_retries of the snapshot
  PublishEvery,  \* publish_every_revisions
  MaxRevision,   \* bound: outer steps of one hub process
  MaxFaults      \* bound: faults of all kinds together

FaultKinds == {"call", "hub", "relay", "worker"}

ASSUME RelayAssumption ==
  /\ Len(Tier) \in Nat \ {0}
  /\ {NumShards, RetainLast, MaxRetries, PublishEvery} \subseteq Nat \ {0}
  /\ MaxRevision \in Nat
  /\ MaxFaults \in Nat

VARIABLES
  life,       \* which process of the hub this is
  revision,   \* the server's _revision
  writing,    \* 0: the server's lock is free; k: a commit is about to write part k
  model,      \* model[p] : the stamp of part p of the global model
  lastPublished, hub,
  manifests,  \* per relay: version -> the checksums of its shards
  shards,     \* per relay: version -> the shards received so far
  fetch,      \* per worker: the fetch_latest call under way
  held,       \* per worker: the checkpoint in its engine
  offered,    \* history: every snapshot the hub began to publish
  faults

server == <<life, revision, writing, model>>
relay == <<manifests, shards>>
pool == <<fetch, held>>
vars == <<server, lastPublished, hub, relay, pool, offered, faults>>

Relays == {Tier[i] : i \in 1..Len(Tier)}
Parts == 1..NumShards

\* The initial weights are loaded from the same assets with the same seed.
Stamp(l, rev) == IF rev = 0 THEN <<0, 0>> ELSE <<l, rev>>

EmptyMap == <<>>
Extend(f, x, v) == [y \in DOMAIN f \cup {x} |-> IF y = x THEN v ELSE f[y]]
Only(f, S) == [y \in DOMAIN f \cap S |-> f[y]]

Polling == [pc |-> "poll", rev |-> 0, copy |-> <<>>, tries |-> 0, target |-> 1, next |-> 0]
Idle == [left |-> Relays, from |-> Tier[1], version |-> 0, want |-> <<>>, got |-> <<>>]
Nothing == <<0, <<>>>>

Init ==
  /\ life = 1 /\ revision = 0 /\ writing = 0
  /\ model = [p \in Parts |-> Stamp(1, 0)]
  /\ lastPublished = -1 /\ hub = Polling
  /\ manifests = [r \in Relays |-> EmptyMap]
  /\ shards = [r \in Relays |-> EmptyMap]
  /\ fetch = [w \in Workers |-> Idle]
  /\ held = [w \in Workers |-> Nothing]
  /\ offered = {}
  /\ faults = [k \in FaultKinds |-> 0]

Fault(k) ==
  /\ faults["call"] + faults["hub"] + faults["relay"] + faults["worker"] < MaxFaults
  /\ faults' = [faults EXCEPT ![k] = @ + 1]

-----------------------------------------------------------------------------
(***************************************************************************)
(* Session threads commit outer steps in place, under the server's lock.   *)
(***************************************************************************)
LockFree == writing = 0

StartCommit ==
  /\ LockFree /\ revision < MaxRevision
  /\ writing' = 1
  /\ UNCHANGED <<life, revision, model, lastPublished, hub, relay, pool, offered, faults>>

WritePart ==
  /\ writing \in Parts
  /\ model' = [model EXCEPT ![writing] = Stamp(life, revision + 1)]
  /\ writing' = writing + 1
  /\ UNCHANGED <<life, revision, lastPublished, hub, relay, pool, offered, faults>>

FinishCommit ==
  /\ writing = NumShards + 1
  /\ revision' = revision + 1
  /\ writing' = 0
  /\ UNCHANGED <<life, model, lastPublished, hub, relay, pool, offered, faults>>

-----------------------------------------------------------------------------
(***************************************************************************)
(* The hub's loop.  status() takes the lock, the copy does not.            *)
(***************************************************************************)
Due(rev, last) == rev - last >= PublishEvery

Poll ==
  /\ hub.pc = "poll" /\ LockFree
  /\ Due(revision, lastPublished)
  /\ hub' = [Polling EXCEPT !.pc = "copy", !.rev = revision]
  /\ UNCHANGED <<server, lastPublished, relay, pool, offered, faults>>

CopyPart ==
  /\ hub.pc = "copy" /\ Len(hub.copy) < NumShards
  /\ hub' = [hub EXCEPT !.copy = Append(@, model[Len(@) + 1])]
  /\ UNCHANGED <<server, lastPublished, relay, pool, offered, faults>>

\* What the recheck makes of the revision read after the copy.
FaultySettled(before, after) == after - before < 2
Settled(before, after) == after = before

Recheck ==
  /\ hub.pc = "copy" /\ Len(hub.copy) = NumShards
  /\ LockFree
  /\ LET settled == Settled(hub.rev, revision)
         tries == IF settled THEN hub.tries ELSE hub.tries + 1
     IN IF settled \/ tries = MaxRetries
        THEN /\ hub' = [hub EXCEPT !.pc = "post", !.rev = revision, !.tries = tries]
             /\ offered' = offered \cup {<<revision + 1, hub.copy>>}
        ELSE /\ hub' = [hub EXCEPT !.rev = revision, !.tries = tries, !.copy = <<>>]
             /\ UNCHANGED offered
  /\ UNCHANGED <<server, lastPublished, relay, pool, faults>>

Version == hub.rev + 1
Target == Tier[hub.target]

\* publish_manifest with _evict_old, and publish_shard; the latter knows no
\* version without a manifest.
FaultyKept(versions) ==
  CHOOSE K \in kSubset(Min({RetainLast, Cardinality(versions)}), versions) :
    \A v \in K, u \in versions \ K : v < u
Kept(versions) ==
  CHOOSE K \in kSubset(Min({RetainLast, Cardinality(versions)}), versions) :
    \A v \in K, u \in versions \ K : v > u

FaultyEvictedShards(store, kept) == store
EvictedShards(store, kept) == Only(store, kept)

AcceptManifest(r, v, checksums) ==
  LET all == Extend(manifests[r], v, checksums)
      had == IF v \in DOMAIN shards[r] THEN shards[r] ELSE Extend(shards[r], v, EmptyMap)
      kept == Kept(DOMAIN all)
  IN /\ manifests' = [manifests EXCEPT ![r] = Only(all, kept)]
     /\ shards' = [shards EXCEPT ![r] = EvictedShards(had, kept)]

ShardKnown(r, v) == v \in DOMAIN manifests[r]

AcceptShard(r, v, i, data) ==
  /\ shards' = [shards EXCEPT ![r][v] = Extend(@, i, data)]
  /\ UNCHANGED manifests

\* One request of publish at the relay: the manifest, then the shards in order.
PostHandled ==
  IF hub.next = 0 THEN AcceptManifest(Target, Version, hub.copy)
  ELSE AcceptShard(Target, Version, hub.next, hub.copy[hub.next])

PostRefused == hub.next > 0 /\ ~ShardKnown(Target, Version)

\* A failed publish leaves last_published_revision alone.
PublishFails == hub' = Polling /\ UNCHANGED lastPublished

FaultyPublishedRevision == hub.rev + 1
PublishedRevision == hub.rev

Post ==
  /\ hub.pc = "post"
  /\ ~PostRefused /\ PostHandled
  /\ IF hub.next < NumShards
     THEN hub' = [hub EXCEPT !.next = @ + 1] /\ UNCHANGED lastPublished
     ELSE IF hub.target < Len(Tier)
     THEN hub' = [hub EXCEPT !.target = @ + 1, !.next = 0] /\ UNCHANGED lastPublished
     ELSE hub' = Polling /\ lastPublished' = PublishedRevision
  /\ UNCHANGED <<server, pool, offered, faults>>

PostIsRefused ==
  /\ hub.pc = "post" /\ PostRefused
  /\ PublishFails
  /\ UNCHANGED <<server, relay, pool, offered, faults>>

\* The request or its answer is lost, or it stalls past sock_read.
PostFails ==
  /\ hub.pc = "post" /\ Fault("call")
  /\ \/ UNCHANGED relay
     \/ ~PostRefused /\ PostHandled
  /\ PublishFails
  /\ UNCHANGED <<server, pool, offered>>

-----------------------------------------------------------------------------
(***************************************************************************)
(* fetch_latest in a worker: relays in a random order, each at most once   *)
(* per call.  A worker calls it again as soon as it has ended.             *)
(***************************************************************************)
Latest(r) == Max(DOMAIN manifests[r])

Newer(version, min) == version > min

Asking(w) == fetch[w].version = 0
NextRelay(w) == fetch' = [fetch EXCEPT ![w] = [Idle EXCEPT !.left = fetch[w].left]]

AskManifest(w, r) ==
  /\ Asking(w) /\ r \in fetch[w].left
  /\ IF DOMAIN manifests[r] # {} /\ Newer(Latest(r), held[w][1])
     THEN fetch' = [fetch EXCEPT ![w] = [left |-> @.left \ {r}, from |-> r, version |-> Latest(r),
                                         want |-> manifests[r][Latest(r)], got |-> <<>>]]
     ELSE fetch' = [fetch EXCEPT ![w].left = @ \ {r}]
  /\ UNCHANGED <<server, lastPublished, hub, relay, held, offered, faults>>

FetchAgain(w) ==
  /\ Asking(w) /\ fetch[w].left = {}
  /\ fetch' = [fetch EXCEPT ![w] = Idle]
  /\ UNCHANGED <<server, lastPublished, hub, relay, held, offered, faults>>

ShardAt(r, v, i) == v \in DOMAIN shards[r] /\ i \in DOMAIN shards[r][v]

AskShard(w) ==
  LET f == fetch[w]
      i == Len(f.got) + 1
  IN /\ ~Asking(w) /\ i <= NumShards
     /\ IF ShardAt(f.from, f.version, i)
        THEN fetch' = [fetch EXCEPT ![w].got = Append(@, shards[f.from][f.version][i])]
        ELSE NextRelay(w)
     /\ UNCHANGED <<server, lastPublished, hub, relay, held, offered, faults>>

\* reassemble_state_dict verifies every shard against the manifest.
FaultyVerified(want, got) == Len(got) = Len(want)
Verified(want, got) == got = want

Reassemble(w) ==
  LET f == fetch[w]
  IN /\ ~Asking(w) /\ Len(f.got) = NumShards
     /\ IF Verified(f.want, f.got)
        THEN /\ held' = [held EXCEPT ![w] = <<f.version, f.got>>]
             /\ fetch' = [fetch EXCEPT ![w] = Idle]
        ELSE NextRelay(w) /\ UNCHANGED held
     /\ UNCHANGED <<server, lastPublished, hub, relay, offered, faults>>

AskFails(w) ==
  /\ Fault("call")
  /\ \/ \E r \in fetch[w].left : Asking(w) /\ fetch' = [fetch EXCEPT ![w].left = @ \ {r}]
     \/ ~Asking(w) /\ Len(fetch[w].got) < NumShards /\ NextRelay(w)
  /\ UNCHANGED <<server, lastPublished, hub, relay, held, offered>>

-----------------------------------------------------------------------------
(***************************************************************************)
(* Restarts.  The hub's process keeps nothing: it begins again at revision *)
(* 0, while the relays still hold the versions of the process before it.   *)
(***************************************************************************)
HubRestart ==
  /\ Fault("hub")
  /\ life' = life + 1 /\ revision' = 0 /\ writing' = 0
  /\ model' = [p \in Parts |-> Stamp(life', 0)]
  /\ lastPublished' = -1 /\ hub' = Polling
  /\ UNCHANGED <<relay, pool, offered>>

RelayRestart(r) ==
  /\ Fault("relay")
  /\ manifests' = [manifests EXCEPT ![r] = EmptyMap]
  /\ shards' = [shards EXCEPT ![r] = EmptyMap]
  /\ UNCHANGED <<server, lastPublished, hub, pool, offered>>

WorkerRestart(w) ==
  /\ Fault("worker")
  /\ fetch' = [fetch EXCEPT ![w] = Idle]
  /\ held' = [held EXCEPT ![w] = Nothing]
  /\ UNCHANGED <<server, lastPublished, hub, relay, offered>>

Committing == StartCommit \/ WritePart \/ FinishCommit
Publishing == Poll \/ CopyPart \/ Recheck \/ Post \/ PostIsRefused
Fetching(w) == (\E r \in Relays : AskManifest(w, r)) \/ FetchAgain(w) \/ AskShard(w) \/ Reassemble(w)

Next ==
  \/ Committing \/ Publishing \/ PostFails
  \/ \E w \in Workers : Fetching(w) \/ AskFails(w) \/ WorkerRestart(w)
  \/ HubRestart
  \/ \E r \in Relays : RelayRestart(r)

\* A commit ends and the lock is released; the hub's and the workers' loops
\* run for as long as their processes do.
Fairness ==
  /\ WF_vars(Committing) /\ WF_vars(Publishing)
  /\ \A w \in Workers : WF_vars(Fetching(w))

Spec == Init /\ [][Next]_vars /\ Fairness

-----------------------------------------------------------------------------
\* Every variable has its type.
TypeOK ==
  /\ life \in Nat /\ revision \in 0..MaxRevision /\ writing \in 0..NumShards + 1
  /\ model \in [Parts -> {Stamp(l, r) : l \in 1..life, r \in 0..MaxRevision}]
  /\ lastPublished \in -1..MaxRevision
  /\ hub.pc \in {"poll", "copy", "post"} /\ hub.target \in 1..Len(Tier)
  /\ \A r \in Relays : DOMAIN shards[r] = DOMAIN manifests[r]
  /\ \A w \in Workers : fetch[w].left \subseteq Relays /\ Len(fetch[w].got) <= NumShards
  /\ \A w \in Workers : held[w] \in offered \cup {Nothing}

\* The revision check around the unlocked copy is sound: unless the hub has
\* used up its tries, what it publishes under revision r is the model of
\* outer step r, whole, however the commits fell between the copies.
PublishedWhole ==
  hub.pc = "post" /\ hub.tries < MaxRetries =>
    hub.copy = [p \in Parts |-> Stamp(life, hub.rev)]

\* A relay's memory is bounded by retain_last checkpoints, whatever is posted
\* to it and in whatever order.
RetentionBounded ==
  \A r \in Relays : Cardinality(DOMAIN shards[r] \cup DOMAIN manifests[r]) <= RetainLast

\* The version a relay advertises never falls while the relay lives: an
\* eviction, also one caused by a hub that has started again at version 1,
\* takes older versions only, so a worker's fetch is never turned back.
LatestNeverFalls ==
  [][\A r \in Relays :
       DOMAIN manifests[r] # {} =>
         \/ DOMAIN manifests'[r] # {} /\ Max(DOMAIN manifests'[r]) >= Latest(r)
         \/ faults'["relay"] > faults["relay"]]_vars

\* The detailed channel implements the register: whole checkpoints only,
\* forward only, whatever is lost, restarted, evicted or posted twice.
Register == INSTANCE VersionRegister
RegisterSpec == Register!Spec

-----------------------------------------------------------------------------
(* Inductive strengthenings of HubSound and ChannelKept. *)

Stamps == Nat \X Nat
Versions == 1..MaxRevision + 1

\* A commit has written the parts below writing, and no others.
CommitInv ==
  /\ life \in Nat \ {0} /\ revision \in 0..MaxRevision /\ writing \in 0..NumShards + 1
  /\ writing # 0 => revision < MaxRevision
  /\ model = [p \in Parts |-> Stamp(life, IF p < writing THEN revision + 1 ELSE revision)]
  /\ lastPublished \in -1..MaxRevision
  /\ faults \in [FaultKinds -> Nat]

Hubs ==
  [pc: {"poll", "copy", "post"}, rev: 0..MaxRevision, copy: Seq(Stamps), tries: Nat,
   target: 1..Len(Tier), next: 0..NumShards]

\* A copy is of the revision read before it, unless a commit is under way or
\* has ended since; what is posted was offered.
HubInv ==
  /\ hub \in Hubs
  /\ hub.pc = "copy" =>
       /\ hub.rev <= revision /\ Len(hub.copy) <= NumShards
       /\ hub.rev = revision /\ LockFree =>
            \A i \in 1..Len(hub.copy) : hub.copy[i] = Stamp(life, hub.rev)
  /\ hub.pc = "post" => <<Version, hub.copy>> \in offered /\ Len(hub.copy) = NumShards
  /\ PublishedWhole

\* A relay holds manifests that were offered, and shards of these only.
RelayInv ==
  /\ DOMAIN manifests = Relays /\ DOMAIN shards = Relays
  /\ \A r \in Relays :
       /\ DOMAIN shards[r] = DOMAIN manifests[r] /\ DOMAIN manifests[r] \subseteq Versions
       /\ Cardinality(DOMAIN manifests[r]) <= RetainLast
       /\ \A v \in DOMAIN manifests[r] : <<v, manifests[r][v]>> \in offered
       /\ \A v \in DOMAIN shards[r] : \A i \in DOMAIN shards[r][v] : shards[r][v][i] \in Stamps

Fetches ==
  [left: SUBSET Relays, from: Relays, version: Nat, want: Seq(Stamps), got: Seq(Stamps)]

\* A worker fetches what was offered, to replace something older.
PoolInv ==
  /\ offered \subseteq Versions \X Seq(Stamps)
  /\ fetch \in [Workers -> Fetches] /\ DOMAIN held = Workers
  /\ \A w \in Workers :
       /\ held[w] \in offered \cup {Nothing}
       /\ Len(fetch[w].got) <= NumShards
       /\ ~Asking(w) => /\ <<fetch[w].version, fetch[w].want>> \in offered
                        /\ fetch[w].version > held[w][1]

-----------------------------------------------------------------------------
\* When the processes stay up, lost requests only delay the newest model:
\* each worker comes to hold a checkpoint at most publish_every_revisions - 1
\* outer steps behind the last one, and keeps it.
NewestArrives ==
  <>(faults["hub"] + faults["relay"] + faults["worker"] > 0)
    \/ <>[](\A w \in Workers : held[w][1] > MaxRevision + 1 - PublishEvery)

\* What the hub publishes is one outer step's model, and relays keep no more of
\* it than they are told to.
HubSound == TypeOK /\ PublishedWhole /\ RetentionBounded

\* The channel is the register of VersionRegister, and no relay goes back.
ChannelKept == RegisterSpec /\ LatestNeverFalls
=============================================================================
