----------------------------- MODULE StageWeights -----------------------------
(***************************************************************************)
(* How the processes of a serving pipeline get the weights of their stages *)
(* (engine_stage.main).                                                    *)
(*                                                                         *)
(* Colocated stages share a staging directory (ensure_shard): whoever gets *)
(* the lock checks what the directory was built from, clears it when that  *)
(* was something else, and shards the model; the others go on as soon as   *)
(* the manifest exists.  The directory outlives the processes: they may    *)
(* die anywhere and start again, and once all have ended the pipeline may  *)
(* be submitted anew, with another model.                                  *)
(*                                                                         *)
(* A remote stage downloads its directory file by file (fetch_stage,       *)
(* fetch_file), against the digests of a manifest read first; the tree it  *)
(* reads from may be published anew at any time.                           *)
(*                                                                         *)
(* A model stands for all that the fingerprint names: the checkpoint and   *)
(* the memories.  All models are cut into the same number of stages.       *)
(*                                                                         *)
(* Definitions named Faulty... are plausible mistakes in the code: put in  *)
(* place of the definition that follows them, each breaks a property.      *)
(***************************************************************************)
EXTENDS Integers, FiniteSets

CONSTANTS
  Stages,         \* numbers of the stages, from 1; one process each
  Files,          \* numbers of a stage's files, from 1, in the manifest's order
  Models,
  None,           \* no such file
  Torn,           \* content cut short or damaged
  Nobody,
  MaxSubmissions,  \* bound: submissions of the pipeline
  MaxPublications, \* bound: publications of the tree
  MaxCrashes       \* bound: processes killed, calls that raise

ASSUME StageAssumption ==
  /\ Stages # {} /\ IsFiniteSet(Stages) /\ Stages = 1..Cardinality(Stages)
  /\ Files # {} /\ IsFiniteSet(Files) /\ Files = 1..Cardinality(Files)
  /\ None \notin Models /\ Torn \notin Models /\ None # Torn /\ Nobody \notin Stages
  /\ MaxSubmissions \in Nat \ {0} /\ MaxPublications \in Nat \ {0} /\ MaxCrashes \in Nat

VARIABLES
  via,        \* "shard", "fetch", or "none" of them
  want,       \* the model asked for; what the tree holds now
  asked,      \* history: all models asked for
  left,       \* submissions or publications left
  crashes,    \* crashes so far
  cut,        \* history: a process was killed while it cleared the directory
  \* a staging directory
  pc,         \* what each process does
  lock,       \* who holds .shard.lock
  took,       \* history: the processes that have held it since they started
  next,       \* the stage whose directory the lock holder writes next
  manifest, fingerprint, shards,  \* what was written there: a model or nothing
  loaded,     \* what each process loaded
  \* a remote stage's directory
  fetch,      \* what the fetching process does: step, manifest read, next file
  part, dest  \* the files name.part and name

shardVars == <<pc, lock, took, next, manifest, fingerprint, shards, loaded>>
fetchVars == <<fetch, part, dest>>
weightVars == <<via, want, asked, left, crashes, cut, shardVars, fetchVars>>

WeightsInitAs(how) ==
  /\ via = how /\ want \in Models /\ asked = {want}
  /\ left = (IF how = "shard" THEN MaxSubmissions ELSE MaxPublications) - 1
  /\ crashes = 0 /\ cut = FALSE
  /\ pc = [s \in Stages |-> IF how = "shard" THEN "started" ELSE "down"]
  /\ lock = Nobody /\ took = {}
  /\ next = 1 /\ manifest = None /\ fingerprint = None
  /\ shards = [s \in Stages |-> None]
  /\ loaded = [s \in Stages |-> None]
  /\ fetch = [step |-> IF how = "fetch" THEN "started" ELSE "down", read |-> None, file |-> 1]
  /\ part = [f \in Files |-> None]
  /\ dest = [f \in Files |-> None]

WeightsInit == \E how \in {"shard", "fetch"} : WeightsInitAs(how)

-----------------------------------------------------------------------------
(* ensure_shard *)

StepTo(s, step) == pc' = [pc EXCEPT ![s] = step]

\* Try the lock without waiting for it.
TryLock(s) ==
  /\ pc[s] = "started"
  /\ IF lock = Nobody THEN lock' = s /\ took' = took \cup {s} /\ StepTo(s, "holder")
     ELSE StepTo(s, "waits") /\ UNCHANGED <<lock, took>>
  /\ UNCHANGED <<next, manifest, fingerprint, shards, loaded>>

FaultyStale == manifest # None /\ fingerprint # None /\ fingerprint # want

\* Were the shards built from something else, or from who knows what?
Stale == manifest # None /\ (fingerprint = None \/ fingerprint # want)

\* The lock holder looks at the directory.
Check(s) ==
  /\ pc[s] = "holder"
  /\ StepTo(s, IF Stale THEN "clears" ELSE IF manifest = None THEN "shards" ELSE "leaves")
  /\ next' = 1
  /\ UNCHANGED <<lock, took, manifest, fingerprint, shards, loaded>>

\* Nothing is left but the lock.
Empty == manifest = None /\ fingerprint = None /\ \A s \in Stages : shards[s] = None

\* It removes the entries, in the order the directory lists them.
Clear(s) ==
  /\ pc[s] = "clears"
  /\ \/ manifest # None /\ manifest' = None /\ UNCHANGED <<fingerprint, shards>>
     \/ fingerprint # None /\ fingerprint' = None /\ UNCHANGED <<manifest, shards>>
     \/ \E t \in Stages :
          shards[t] # None /\ shards' = [shards EXCEPT ![t] = None]
          /\ UNCHANGED <<manifest, fingerprint>>
  /\ UNCHANGED <<next, pc, lock, took, loaded>>

FaultyCleared(s) ==
  /\ pc[s] = "clears" /\ Empty
  /\ StepTo(s, "leaves")
  /\ UNCHANGED <<next, lock, took, manifest, fingerprint, shards, loaded>>

\* The manifest is gone: on to the sharding.
Cleared(s) ==
  /\ pc[s] = "clears" /\ Empty
  /\ StepTo(s, "shards")
  /\ UNCHANGED <<next, lock, took, manifest, fingerprint, shards, loaded>>

\* Has every stage's directory been written?
Written == next \notin Stages

\* shard_checkpoint writes one stage's directory after the other, also over
\* what it finds there.  A directory cut short is Torn.
WriteShard(s) ==
  /\ pc[s] = "shards" /\ next \in Stages
  /\ IF shards[next] # Torn
     THEN shards' = [shards EXCEPT ![next] = Torn] /\ UNCHANGED next
     ELSE shards' = [shards EXCEPT ![next] = want] /\ next' = next + 1
  /\ UNCHANGED <<pc, lock, took, manifest, fingerprint, loaded>>

\* ... and the manifest last.
WriteManifest(s) ==
  /\ pc[s] = "shards" /\ Written
  /\ manifest' = want
  /\ StepTo(s, "signs")
  /\ UNCHANGED <<next, lock, took, fingerprint, shards, loaded>>

WriteFingerprint(s) ==
  /\ pc[s] = "signs"
  /\ fingerprint' = want
  /\ StepTo(s, "leaves")
  /\ UNCHANGED <<next, lock, took, manifest, shards, loaded>>

FaultyUnlock(s) ==
  /\ pc[s] = "leaves"
  /\ StepTo(s, "waits")
  /\ UNCHANGED <<next, lock, took, manifest, fingerprint, shards, loaded>>

\* The lock file is closed; the holder then waits like the others.
Unlock(s) ==
  /\ pc[s] = "leaves"
  /\ lock' = Nobody
  /\ StepTo(s, "waits")
  /\ UNCHANGED <<next, took, manifest, fingerprint, shards, loaded>>

FaultyMayReturn(s) == shards[s] # None

\* The manifest is there.
MayReturn(s) == manifest # None

Return(s) ==
  /\ pc[s] = "waits" /\ MayReturn(s)
  /\ StepTo(s, "returned")
  /\ UNCHANGED <<next, lock, took, manifest, fingerprint, shards, loaded>>

FaultyMayTimeOut == FALSE

\* The deadline of half an hour: longer than any sharding, so it passes only
\* when nobody is at work.
MayTimeOut == manifest = None /\ lock = Nobody /\ \A s \in Stages : pc[s] # "started"

WaitTimesOut(s) ==
  /\ pc[s] = "waits" /\ MayTimeOut
  /\ StepTo(s, "failed")
  /\ UNCHANGED <<next, lock, took, manifest, fingerprint, shards, loaded>>

\* The engine loads the directory it was told.
Load(s) ==
  /\ pc[s] = "returned"
  /\ loaded' = [loaded EXCEPT ![s] = shards[s]]
  /\ StepTo(s, "loaded")
  /\ UNCHANGED <<next, lock, took, manifest, fingerprint, shards>>

\* A process dies: its lock goes with it.
Dies(s) ==
  /\ pc[s] \notin {"down", "failed"}
  /\ crashes < MaxCrashes /\ crashes' = crashes + 1
  /\ cut' = (cut \/ pc[s] = "clears")
  /\ lock' = IF lock = s THEN Nobody ELSE lock
  /\ took' = took \ {s}
  /\ StepTo(s, "down")
  /\ UNCHANGED <<next, via, want, asked, left, manifest, fingerprint, shards, loaded, fetchVars>>

\* It is started again.
Restart(s) ==
  /\ via = "shard" /\ pc[s] = "down"
  /\ StepTo(s, "started")
  /\ UNCHANGED <<via, want, asked, left, crashes, cut, fetchVars>>
  /\ UNCHANGED <<next, lock, took, manifest, fingerprint, shards, loaded>>

\* Once every process has ended, was killed or serves, the pipeline is submitted
\* again under the same name: the old processes are gone.
Resubmit(m) ==
  /\ via = "shard" /\ left > 0
  /\ \A s \in Stages : pc[s] \in {"loaded", "failed", "down"}
  /\ want' = m /\ asked' = asked \cup {m} /\ left' = left - 1
  /\ pc' = [s \in Stages |-> "started"]
  /\ took' = {} /\ loaded' = [s \in Stages |-> None]
  /\ UNCHANGED <<next, via, crashes, cut, lock, manifest, fingerprint, shards, fetchVars>>

ShardStep(s) ==
  /\ \/ TryLock(s) \/ Check(s) \/ Clear(s) \/ Cleared(s)
     \/ WriteShard(s) \/ WriteManifest(s) \/ WriteFingerprint(s) \/ Unlock(s)
     \/ Return(s) \/ WaitTimesOut(s) \/ Load(s)
  /\ UNCHANGED <<via, want, asked, left, crashes, cut, fetchVars>>

-----------------------------------------------------------------------------
(* fetch_stage *)

FetchSet(step, file) == fetch' = [fetch EXCEPT !.step = step, !.file = file]

\* The manifest, once per call.
ReadManifest ==
  /\ fetch.step = "started"
  /\ fetch' = [fetch EXCEPT !.step = "looks", !.read = want, !.file = 1]
  /\ UNCHANGED <<part, dest>>

FaultyIsGood(f) == dest[f] # None
FaultyAnew(f) == FALSE

\* Is the file there, with the digest the manifest gives?
IsGood(f) == dest[f] = fetch.read

\* A file that is verified is skipped; another one goes away first.
LookAt ==
  /\ fetch.step = "looks" /\ fetch.file \in Files
  /\ LET f == fetch.file IN
     IF IsGood(f) THEN FetchSet("looks", f + 1) /\ UNCHANGED dest
     ELSE FetchSet("reads", f) /\ dest' = [dest EXCEPT ![f] = None]
  /\ UNCHANGED part

\* open(name.part, "wb"), then the bytes: those of the tree as it now is, or
\* damaged ones.
Download ==
  /\ fetch.step = "reads"
  /\ \E x \in {want, Torn} : part' = [part EXCEPT ![fetch.file] = x]
  /\ FetchSet("verifies", fetch.file)
  /\ UNCHANGED dest

FaultyVerified(f) == part[f] # None

Verified(f) == part[f] = fetch.read

\* The digest is compared before the rename; a file that fails is removed and
\* the error ends the process.
Verify ==
  /\ fetch.step = "verifies"
  /\ LET f == fetch.file IN
     /\ part' = [part EXCEPT ![f] = None]
     /\ IF Verified(f) THEN dest' = [dest EXCEPT ![f] = part[f]] /\ FetchSet("looks", f + 1)
        ELSE FetchSet("down", f) /\ UNCHANGED dest

Fetched ==
  /\ fetch.step = "looks" /\ fetch.file \notin Files
  /\ FetchSet("loaded", fetch.file)
  /\ UNCHANGED <<part, dest>>

\* The process is killed, or a read fails: a file may be left half written.
FetchDies ==
  /\ fetch.step \in {"looks", "reads", "verifies"}
  /\ crashes < MaxCrashes /\ crashes' = crashes + 1
  /\ part' = IF fetch.step = "reads" THEN [part EXCEPT ![fetch.file] = Torn] ELSE part
  /\ FetchSet("down", fetch.file)
  /\ UNCHANGED <<via, want, asked, left, cut, shardVars, dest>>

FetchAgain ==
  /\ via = "fetch" /\ fetch.step = "down"
  /\ FetchSet("started", 1)
  /\ UNCHANGED <<part, dest>>

\* Another model is published under the same address.
Publish(m) ==
  /\ via = "fetch" /\ left > 0
  /\ want' = m /\ asked' = asked \cup {m} /\ left' = left - 1
  /\ UNCHANGED <<via, crashes, cut, shardVars, fetchVars>>

FetchStep ==
  /\ ReadManifest \/ LookAt \/ Download \/ Verify \/ Fetched \/ FetchAgain
  /\ UNCHANGED <<via, want, asked, left, crashes, cut, shardVars>>

-----------------------------------------------------------------------------

WeightsNext ==
  \/ \E s \in Stages : ShardStep(s) \/ Dies(s) \/ Restart(s)
  \/ FetchStep \/ FetchDies
  \/ \E m \in Models : Resubmit(m) \/ Publish(m)

\* A process that can take a step takes it; nobody need start a dead one again.
WeightsFairness == \A s \in Stages : WF_weightVars(ShardStep(s))

WeightsSpec == WeightsInit /\ [][WeightsNext]_weightVars /\ WeightsFairness

-----------------------------------------------------------------------------
(* Properties. *)

Steps == {"down", "started", "holder", "clears", "shards", "signs", "leaves", "waits",
          "returned", "loaded", "failed"}

\* Every variable has its type, and the lock is held by the process that
\* works under it.
WeightsTypeOK ==
  /\ via \in {"shard", "fetch", "none"} /\ want \in Models /\ asked \subseteq Models
  /\ left \in Nat /\ crashes \in 0..MaxCrashes /\ cut \in BOOLEAN
  /\ pc \in [Stages -> Steps] /\ took \subseteq Stages
  /\ next \in 1..(Cardinality(Stages) + 1)
  /\ manifest \in Models \cup {None} /\ fingerprint \in Models \cup {None}
  /\ shards \in [Stages -> Models \cup {None, Torn}]
  /\ loaded \in [Stages -> Models \cup {None, Torn}]
  /\ fetch.step \in {"down", "started", "looks", "reads", "verifies", "loaded"}
  /\ part \in [Files -> Models \cup {None, Torn}]
  /\ dest \in [Files -> Models \cup {None, Torn}]
  /\ \A s \in Stages : lock = s <=> pc[s] \in {"holder", "clears", "shards", "signs", "leaves"}

\* A process can rely on what it is told when it held the lock itself, or
\* when no other model has ever been asked for and no process has died.
Informed(s) == s \in took \/ (Cardinality(asked) = 1 /\ crashes = 0)

\* ensure_shard returns the directory of a stage only when it is complete and
\* of the model asked for ("a resubmission with a DIFFERENT model/stage
\* count/shape would silently serve the previous run's weights"), whatever
\* crash left a directory half written.  It is not so for a process that finds
\* the lock taken before the holder has removed a stale manifest, also one that
\* only lacks its fingerprint: see Informed.  Nor is it after a process was
\* killed in the midst of clearing: manifest and fingerprint may have outlived
\* what they speak of, and who submits that model again gets what is left.
ReturnedWhole ==
  [][\A s \in Stages : pc[s] # "returned" /\ pc'[s] = "returned" /\ Informed(s) /\ ~cut =>
       shards[s] = want]_weightVars

\* The same of whoever has looked at the directory under the lock, although
\* processes are killed anywhere.
Resharded ==
  [][\A s \in took : pc[s] # "returned" /\ pc'[s] = "returned" => shards[s] = want]_weightVars

\* What an engine loads afterwards is still that, unless a process has died:
\* a holder killed between the manifest and the fingerprint makes the next
\* one clear the directories that others are loading.
LoadedWhole ==
  \A s \in Stages : pc[s] = "loaded" /\ Informed(s) /\ crashes = 0 => loaded[s] = want

\* Without a crash nobody waits in vain for the manifest.
NoneGivesUp == crashes = 0 => \A s \in Stages : pc[s] # "failed"

\* Every process that is started loads its stage, gives up or dies, though the
\* holder may die for good and those who wait never try the lock again.
WaitEnds == \A s \in Stages : pc[s] = "started" ~> pc[s] \in {"loaded", "failed", "down"}

\* fetch_file: "dest existing implies dest is good": the bytes of a model once
\* published, whatever was damaged, cut short or published anew meanwhile.
DestVerified == \A f \in Files : dest[f] # Torn

\* A stage is fetched only as a whole: every file is of the one model whose
\* manifest was read, also over the leavings of earlier attempts.
FetchedWhole == fetch.step = "loaded" => \A f \in Files : dest[f] = fetch.read

\* Trying again goes on where the last attempt stopped: a file that is
\* verified against the manifest that was read last is kept.
ResumeKeeps ==
  [][\A f \in Files : dest[f] = fetch.read /\ dest[f] # None => dest'[f] = dest[f]]_weightVars

\* Weights that are loaded, and files that are in place, are whole and of one
\* model, and nobody gives up unless a process has died.
WeightsWhole == WeightsTypeOK /\ LoadedWhole /\ NoneGivesUp /\ DestVerified /\ FetchedWhole

\* Every process comes to an end of its wait; what it is given then is whole,
\* and what it has fetched is kept.
WeightsArrive == ReturnedWhole /\ WaitEnds /\ ResumeKeeps

-----------------------------------------------------------------------------
(* Inductive strengthenings of the properties above. *)

Working == {"holder", "clears", "shards", "signs", "leaves"}

\* The shards are of the manifest's model, and so is the fingerprint.
Signed ==
  /\ manifest = None => fingerprint = None
  /\ manifest # None => \A t \in Stages : shards[t] = manifest
  /\ fingerprint # None => fingerprint = manifest

\* What the directory holds: unless somebody was killed who cleared it, it is
\* signed whenever nobody clears it; a process that has held the lock has left
\* it whole, and nobody touches it again.
DirectoryInv ==
  ~cut =>
    /\ (\A s \in Stages : pc[s] # "clears") => Signed
    /\ \A s \in Stages : pc[s] = "clears" => next = 1
    /\ \A s \in Stages : pc[s] = "shards" =>
         manifest = None /\ \A t \in Stages : t < next => shards[t] = want
    /\ \A s \in Stages : pc[s] = "signs" => manifest = want
    /\ \A s \in Stages : pc[s] = "leaves" => manifest = want /\ fingerprint = want
    /\ \A s \in took : pc[s] \notin Working =>
         /\ manifest = want /\ fingerprint = want
         /\ \A t \in Stages : pc[t] \notin {"clears", "shards", "signs"}

\* As long as nothing has crashed: who waits, waits for somebody at work or for
\* a manifest that is there; what was asked for is all that is there.
CalmInv ==
  crashes = 0 =>
    /\ ~cut
    /\ \A s \in Stages : pc[s] # "failed"
    /\ via = "shard" /\ manifest = None /\ lock = Nobody => \A s \in Stages : pc[s] = "started"
    /\ (\A s \in Stages : pc[s] \notin {"clears", "signs"}) => (manifest # None => fingerprint # None)
    /\ {manifest, fingerprint} \subseteq asked \cup {None}
    /\ asked = {want} =>
         /\ \A s \in Stages : pc[s] # "clears"
         /\ \A s \in Stages : pc[s] = "returned" => manifest # None
    /\ \A s \in Stages : pc[s] = "loaded" /\ (s \in took \/ asked = {want}) => loaded[s] = want

\* Whoever has held the lock is not at its start again.
HistoryInv ==
  /\ want \in asked /\ IsFiniteSet(asked)
  /\ via \in {"shard", "fetch"}
  /\ via = "fetch" => took = {} /\ \A s \in Stages : pc[s] = "down"
  /\ lock \in Stages \cup {Nobody}
  /\ \A s \in took : pc[s] \notin {"down", "started"}
  /\ \A s \in Stages : pc[s] \in Working => s \in took

\* Files before the present one are verified against the manifest read.
FetchInv ==
  /\ fetch \in [step: {"down", "started", "looks", "reads", "verifies", "loaded"},
                read: Models \cup {None}, file: 1..(Cardinality(Files) + 1)]
  /\ fetch.step \in {"looks", "reads", "verifies", "loaded"} =>
       fetch.read \in Models /\ \A f \in Files : f < fetch.file => dest[f] = fetch.read
  /\ fetch.step \in {"reads", "verifies"} => fetch.file \in Files
  /\ fetch.step = "loaded" => fetch.file \notin Files
=============================================================================
