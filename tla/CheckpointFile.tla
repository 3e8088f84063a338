---------------------------- MODULE CheckpointFile ----------------------------
(***************************************************************************)
(* The parameter server's checkpoint file: handler threads commit outer    *)
(* steps, claim a due checkpoint (_maybe_checkpoint), copy the state under *)
(* the lock, write it to path.tmp outside it and rename (save_checkpoint); *)
(* the process may die at any of these points and start again from what    *)
(* the path then names (_load_checkpoint).                                 *)
(*                                                                         *)
(* Serialized: a push, its checkpoint included, runs under _stream_lock    *)
(* (the streaming path).  The processors of grace windows and rounds do    *)
(* not hold it, so several of them may save at once.                       *)
(*                                                                         *)
(* Files are identities (inodes) that a path names: a thread keeps writing *)
(* to the file it opened when the path has moved on.  A file two threads   *)
(* have open at once ends up with either's state or with a mixture.        *)
(*                                                                         *)
(* Definitions named Faulty... are plausible mistakes in the code: put in  *)
(* place of the definition that follows them, each breaks a property.      *)
(***************************************************************************)
EXTENDS Integers

CONSTANTS
  Threads,
  Files, NoFile,  \* file identities
  Torn,           \* content that torch.load rejects
  Serialized,     \* is a push handled under _stream_lock?
  Every,          \* checkpoint_every
  MaxRevision,    \* bound: outer steps
  MaxFaults       \* bound: crashes and failing writes together

ASSUME FileAssumption ==
  /\ NoFile \notin Files /\ Torn \notin Nat
  /\ Serialized \in BOOLEAN /\ Every \in Nat \ {0}
  /\ MaxRevision \in Nat /\ MaxFaults \in Nat

\* A new file can always be made.
ASSUME FileSupply ==
  \A o \in [Threads -> Files \cup {NoFile}], a, b \in Files \cup {NoFile} :
    \E f \in Files : f \notin {a, b} /\ \A t \in Threads : o[t] # f

VARIABLES
  revision,  \* _revision; the state at a revision is named by it
  lastCkpt,  \* _last_checkpoint_revision
  pc,        \* what each thread does
  copy,      \* the state a saving thread copied
  open,      \* the file a thread has open for writing
  content,   \* what is in each file
  tmp, path, \* the files path.tmp and path name
  claims,    \* history: revisions claimed whose save has neither ended nor failed
  faults     \* faults left

vars == <<revision, lastCkpt, pc, copy, open, content, tmp, path, claims, faults>>

Steps == {"idle", "committed", "claimed", "copied", "writing", "written", "down"}

Init ==
  /\ revision = 0 /\ lastCkpt = 0
  /\ pc = [t \in Threads |-> "idle"]
  /\ copy = [t \in Threads |-> 0]
  /\ open = [t \in Threads |-> NoFile]
  /\ content = [f \in Files |-> Torn]
  /\ tmp = NoFile /\ path = NoFile
  /\ claims = {} /\ faults = MaxFaults

Goto(t, step) == pc' = [pc EXCEPT ![t] = step]

FaultyMayEnter == \A t \in Threads : pc[t] # "down"

\* May a thread start on a push?
MayEnter ==
  /\ \A t \in Threads : pc[t] # "down"
  /\ Serialized => \A t \in Threads : pc[t] = "idle"

Commit(t) ==
  /\ pc[t] = "idle" /\ MayEnter
  /\ revision < MaxRevision
  /\ revision' = revision + 1
  /\ Goto(t, "committed")
  /\ UNCHANGED <<lastCkpt, copy, open, content, tmp, path, claims, faults>>

Due == revision - lastCkpt >= Every

\* The claim comes before the save, so that nobody else saves this revision.
MaybeCheckpoint(t) ==
  /\ pc[t] = "committed"
  /\ IF Due THEN /\ lastCkpt' = revision
                 /\ claims' = claims \cup {revision}
                 /\ Goto(t, "claimed")
     ELSE Goto(t, "idle") /\ UNCHANGED <<lastCkpt, claims>>
  /\ UNCHANGED <<revision, copy, open, content, tmp, path, faults>>

CopyState(t) ==
  /\ pc[t] = "claimed"
  /\ copy' = [copy EXCEPT ![t] = revision]
  /\ Goto(t, "copied")
  /\ UNCHANGED <<revision, lastCkpt, open, content, tmp, path, claims, faults>>

FaultyTarget == path

\* Where torch.save writes: never the checkpoint itself.
Target == tmp

\* A file no path and no thread holds.
FreshFile == CHOOSE f \in Files : f \notin {tmp, path} /\ \A t \in Threads : open[t] # f

\* open(path.tmp, "wb"): truncates the file of that name, or makes one.
OpenTmp(t) ==
  /\ pc[t] = "copied"
  /\ LET f == IF Target = NoFile THEN FreshFile ELSE Target
     IN  /\ open' = [open EXCEPT ![t] = f]
         /\ content' = [content EXCEPT ![f] = Torn]
         /\ tmp' = f
  /\ Goto(t, "writing")
  /\ UNCHANGED <<revision, lastCkpt, copy, path, claims, faults>>

SharedFile(t) == \E u \in Threads \ {t} : pc[u] = "writing" /\ open[u] = open[t]

\* The write ends.
FinishWrite(t) ==
  /\ pc[t] = "writing"
  /\ \E x \in {copy[t]} \cup (IF SharedFile(t) THEN {Torn} ELSE {}) :
       content' = [content EXCEPT ![open[t]] = x]
  /\ open' = [open EXCEPT ![t] = NoFile]
  /\ Goto(t, "written")
  /\ UNCHANGED <<revision, lastCkpt, copy, tmp, path, claims, faults>>

Claimed(t) == {r \in claims : r <= copy[t]}

\* The write raises (disk full): the save is given up and logged; what was
\* written stays behind in path.tmp.
WriteFails(t) ==
  /\ pc[t] = "writing"
  /\ faults > 0 /\ faults' = faults - 1
  /\ open' = [open EXCEPT ![t] = NoFile]
  /\ claims' = claims \ Claimed(t)
  /\ Goto(t, "idle")
  /\ UNCHANGED <<revision, lastCkpt, copy, content, tmp, path>>

MayRename(t) == pc[t] = "written"

\* os.replace(path.tmp, path); it raises if another thread took path.tmp away.
Rename(t) ==
  /\ MayRename(t)
  /\ IF tmp = NoFile THEN UNCHANGED <<tmp, path>> ELSE path' = tmp /\ tmp' = NoFile
  /\ open' = [open EXCEPT ![t] = NoFile]
  /\ claims' = claims \ Claimed(t)
  /\ Goto(t, "idle")
  /\ UNCHANGED <<revision, lastCkpt, copy, content, faults>>

Crash ==
  /\ faults > 0 /\ faults' = faults - 1
  /\ pc' = [t \in Threads |-> "down"]
  /\ open' = [t \in Threads |-> NoFile]
  /\ claims' = {}
  /\ UNCHANGED <<revision, lastCkpt, copy, content, tmp, path>>

Loadable == path # NoFile => content[path] # Torn

FaultyRestored == IF tmp # NoFile THEN content[tmp]
                  ELSE IF path = NoFile THEN 0 ELSE content[path]

\* The revision a new process starts at.
Restored == IF path = NoFile THEN 0 ELSE content[path]

\* A new process: it loads the file the path names, if there is one, and
\* does not come up if that file is torn.
Restart ==
  /\ \A t \in Threads : pc[t] = "down"
  /\ Loadable
  /\ revision' = Restored /\ lastCkpt' = Restored
  /\ pc' = [t \in Threads |-> "idle"]
  /\ UNCHANGED <<copy, open, content, tmp, path, claims, faults>>

ThreadStep(t) ==
  \/ Commit(t) \/ MaybeCheckpoint(t) \/ CopyState(t)
  \/ OpenTmp(t) \/ FinishWrite(t) \/ WriteFails(t) \/ Rename(t)

Next == (\E t \in Threads : ThreadStep(t)) \/ Crash \/ Restart

Spec == Init /\ [][Next]_vars

-----------------------------------------------------------------------------
(* Properties. *)

\* Every variable has its type.
TypeOK ==
  /\ revision \in 0..MaxRevision /\ lastCkpt \in Nat
  /\ pc \in [Threads -> Steps]
  /\ copy \in [Threads -> Nat]
  /\ open \in [Threads -> Files \cup {NoFile}]
  /\ content \in [Files -> Nat \cup {Torn}]
  /\ tmp \in Files \cup {NoFile} /\ path \in Files \cup {NoFile}
  /\ claims \in SUBSET Nat /\ faults \in Nat

\* Whenever the process dies, what the path names is a complete checkpoint
\* (save_checkpoint: "Atomically persist the server's authoritative state").
AlwaysLoadable == Loadable

\* A newer checkpoint is not replaced by an older one.
NeverOlder ==
  [][path' # path /\ path # NoFile /\ content[path] # Torn =>
       content'[path'] # Torn /\ content'[path'] >= content[path]]_vars

\* When no save is under way and none failed, the file holds the last
\* revision that was claimed.
ClaimedIsSaved ==
  faults = MaxFaults /\ claims = {} /\ lastCkpt > 0 =>
    path # NoFile /\ content[path] = lastCkpt

\* What a crash leaves behind can be loaded, and what was claimed is in it
\* unless something failed.
CheckpointSound == TypeOK /\ AlwaysLoadable /\ ClaimedIsSaved
=============================================================================
