---------------------------- MODULE FragmentServer ----------------------------
(***************************************************************************)
(* The parameter server as a client of fragments sees it, and one client's *)
(* exchange with it.  A fragment of the model is the sequence of pushes    *)
(* folded into it; a push is the interval of inner steps whose work it     *)
(* carries.  FragmentSync and RLReplica are the two clients: what they do  *)
(* to "call" is theirs, what becomes of it is here.                        *)
(***************************************************************************)
EXTENDS Integers, FiniteSets, Sequences, SequencesExt

CONSTANTS
  MaxFragments, \* bound: num_fragments is chosen from 1..MaxFragments
  Advice,       \* what new_steps may say; 0 says nothing
  MaxCommits,   \* bound: outer steps of other islands
  MaxFaults

\* An exchange fails, the cohort gate does, the server is restored from its
\* checkpoint, a group of rollouts has nothing to train on (RLReplica).
FaultKinds == {"call", "gate", "server", "dud"}

ASSUME FragmentServerAssumption ==
  /\ MaxFragments \in Nat \ {0} /\ MaxCommits \in Nat
  /\ Advice \subseteq Nat /\ 0 \in Advice
  /\ MaxFaults \in [FaultKinds -> Nat]

VARIABLES
  fragments, \* num_fragments
  call,      \* the client's exchange, in the background or waited for
  late,      \* requests whose client has given up, still with the server
  log,       \* the server's model, per fragment
  revision, disk, commits, faults

server == <<log, revision, disk, commits>>

Fragment == 1..fragments

Interval == [from: Nat, to: Nat]
Other == [from |-> 0, to |-> 0]
NoCall == [state |-> "none", kind |-> "pull", frag |-> 1, work |-> Other, basis |-> <<>>, rev |-> 0,
           applied |-> FALSE, model |-> <<>>, newRev |-> 0, steps |-> 0]

ServerInit ==
  /\ fragments \in 1..MaxFragments
  /\ call = NoCall /\ late = {}
  /\ log = [f \in Fragment |-> <<>>] /\ revision = 0
  /\ disk = [log |-> log, revision |-> 0] /\ commits = 0
  /\ faults = MaxFaults

Spend(kind) == faults[kind] > 0 /\ faults' = [faults EXCEPT ![kind] = @ - 1]

Abandoned == IF call.state = "running" THEN {call} ELSE {}

\* A push computed against a newer revision than the server has is rejected.
Stale(req) == req.rev > revision

Commits(req) == req.kind = "push" /\ ~Stale(req)

Handle(req) ==
  /\ log' = IF Commits(req) THEN [log EXCEPT ![req.frag] = Append(@, req.work)] ELSE log
  /\ revision' = IF Commits(req) THEN revision + 1 ELSE revision
  /\ UNCHANGED <<disk, commits>>

Serve ==
  /\ call.state = "running" /\ Handle(call)
  /\ \E steps \in Advice :
       call' = [call EXCEPT !.state = "answered", !.applied = Commits(call), !.model = log',
                            !.newRev = revision', !.steps = steps]
  /\ UNCHANGED <<fragments, late, faults>>

\* A handler whose client has gone finishes all the same.
ServeLate ==
  /\ \E req \in late : Handle(req) /\ late' = late \ {req}
  /\ UNCHANGED <<fragments, call, faults>>

\* The exchange fails at the client: the request is lost or still on its way.
CallFails ==
  /\ call.state = "running" /\ Spend("call")
  /\ late' \in {late, late \cup {call}}
  /\ call' = [call EXCEPT !.state = "failed"]
  /\ UNCHANGED <<fragments, server>>

OtherCommits ==
  /\ commits < MaxCommits /\ commits' = commits + 1
  /\ \E f \in Fragment : log' = [log EXCEPT ![f] = Append(@, Other)]
  /\ revision' = revision + 1
  /\ UNCHANGED <<fragments, call, late, disk, faults>>

Save ==
  /\ faults["server"] > 0 /\ disk.revision # revision
  /\ disk' = [log |-> log, revision |-> revision]
  /\ UNCHANGED <<fragments, call, late, log, revision, commits, faults>>

ServerRestart ==
  /\ Spend("server")
  /\ log' = disk.log /\ revision' = disk.revision
  /\ call' = IF call.state = "running" THEN [call EXCEPT !.state = "failed"] ELSE call
  /\ late' = {}
  /\ UNCHANGED <<fragments, disk, commits>>

ServerNext == Serve \/ ServeLate \/ CallFails \/ OtherCommits \/ Save \/ ServerRestart

Disjoint(a, b) == a.to <= b.from \/ b.to <= a.from

\* The work of an inner step is part of a fragment's model at most once.
CountedOnce ==
  \A f \in Fragment : \A i, j \in DOMAIN log[f] :
    i # j /\ log[f][i] # Other /\ log[f][j] # Other => Disjoint(log[f][i], log[f][j])

-----------------------------------------------------------------------------
(* What the clients' invariants rest on. *)

Calls ==
  [state: {"none", "running", "answered", "failed"}, kind: {"pull", "push"}, frag: Fragment,
   work: Interval, basis: Seq(Interval), rev: Nat, applied: BOOLEAN,
   model: [Fragment -> Seq(Interval)] \cup {<<>>}, newRev: Nat, steps: Advice]

\* The server has a model of every fragment, and an answer brings one.
ServerInv ==
  /\ fragments \in 1..MaxFragments
  /\ call \in Calls /\ late \subseteq Calls
  /\ call.state = "answered" => call.model \in [Fragment -> Seq(Interval)]
  /\ log \in [Fragment -> Seq(Interval)] /\ revision \in Nat
  /\ disk \in [log: [Fragment -> Seq(Interval)], revision: Nat]
  /\ commits \in 0..MaxCommits /\ faults \in [FaultKinds -> Nat]

Pushing == call.state = "running" /\ call.kind = "push"

\* All work on fragment f that is in the model, or late, was done by a step.
DoneBy(f, step) ==
  /\ \A i \in 1..Len(log[f]) : log[f][i].to <= step
  /\ \A req \in late : req.kind = "push" /\ req.frag = f => req.work.to <= step

\* No work counts twice, nor will what is late or on its way.
ApartInv ==
  /\ \A f \in Fragment :
       /\ \A i, j \in 1..Len(log[f]) : i # j => Disjoint(log[f][i], log[f][j])
       /\ IsPrefix(disk.log[f], log[f])
  /\ \A req \in late : req.kind = "push" =>
       /\ \A i \in 1..Len(log[req.frag]) : Disjoint(req.work, log[req.frag][i])
       /\ \A other \in late : other.kind = "push" /\ other.frag = req.frag /\ other # req
            => Disjoint(req.work, other.work)
  /\ Pushing => DoneBy(call.frag, call.work.from)

\* What a push was computed against, and what an answer brings, has only grown.
Grown ==
  /\ \A req \in late \cup {call} : req.kind = "push" => IsPrefix(req.basis, log[req.frag])
  /\ call.state = "answered" => \A f \in Fragment : IsPrefix(call.model[f], log[f])
=============================================================================
