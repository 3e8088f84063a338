------------------------------- MODULE Gateway -------------------------------
(***************************************************************************)
(* The serving gateway: a reverse proxy in front of replicas.  A request   *)
(* is routed when its head arrives, counted when its body has been read,   *)
(* and ends with its upstream; a prober asks the targets one by one; the   *)
(* control plane replaces the targets.  Everything runs in one event loop, *)
(* so a step is what happens between two awaits.                           *)
(*                                                                         *)
(* Abstractions: the targets are a set, ties between equally loaded ones   *)
(* are broken in any way, and an upstream is up or down.                   *)
(***************************************************************************)
EXTENDS Integers, FiniteSets, FiniteSetsExt, Functions

CONSTANTS
  Replicas,
  Requests,
  MaxRetargets,  \* bound: pushes of the control plane
  MaxFlips       \* bound: times a replica goes down or up

ASSUME GatewayAssumption ==
  {MaxRetargets, MaxFlips} \subseteq Nat /\ Replicas # {} /\ IsFiniteSet(Requests)

VARIABLES
  targets,   \* the table; never empty
  inflight,  \* requests counted per target
  healthy,   \* per target: what the prober and failed requests have left
  up,        \* per replica: whether it answers
  request,   \* per request: "new", "routed", "sent" or "done", and its target
  probe,     \* what the pass still has to ask, whom it is asking, and the answer
  lost,      \* history: requests under way when their target left the table
  retargets, flips

gatewayVars == <<targets, inflight, healthy, up, request, probe, lost, retargets, flips>>

Nobody == "nobody"
\* An entry is set, and made where there was none.
Put(f, t, value) == [u \in DOMAIN f \cup {t} |-> IF u = t THEN value ELSE f[u]]
\* What is on account for a replica, in the table or not.
Load(t) == IF t \in DOMAIN inflight THEN inflight[t] ELSE 0
Sent(t) == {r \in Requests : request[r].state = "sent" /\ request[r].target = t}
Silent == [todo |-> {}, asking |-> Nobody, up |-> FALSE, answered |-> FALSE]

GatewayInit ==
  /\ targets \in (SUBSET Replicas) \ {{}}
  /\ inflight = [t \in targets |-> 0]
  /\ healthy = [t \in targets |-> FALSE]
  /\ up \in [Replicas -> BOOLEAN]
  /\ request = [r \in Requests |-> [state |-> "new", target |-> Nobody]]
  /\ probe = Silent
  /\ lost = [t \in Replicas |-> 0]
  /\ retargets = 0 /\ flips = 0

-----------------------------------------------------------------------------
(***************************************************************************)
(* retarget: kept targets keep their state, new ones start unproven.       *)
(***************************************************************************)
KeptOr(f, default, new) == [t \in new |-> IF t \in DOMAIN f THEN f[t] ELSE default]

FaultyKeptCount(new) == [t \in new |-> 0]
KeptCount(new) == KeptOr(inflight, 0, new)

Retarget ==
  /\ retargets < MaxRetargets /\ retargets' = retargets + 1
  /\ \E new \in (SUBSET Replicas) \ {{}} :
       /\ targets' = new
       /\ inflight' = KeptCount(new)
       /\ healthy' = KeptOr(healthy, FALSE, new)
       /\ lost' = [t \in Replicas |-> IF t \in new THEN lost[t] ELSE Cardinality(Sent(t))]
  /\ UNCHANGED <<up, request, probe, flips>>

-----------------------------------------------------------------------------
(***************************************************************************)
(* A request.                                                              *)
(***************************************************************************)
Pool == LET proven == {t \in targets : healthy[t]} IN IF proven = {} THEN targets ELSE proven
Pick == {t \in Pool : \A o \in Pool : inflight[t] <= inflight[o]}

Arrive(r) ==
  /\ request[r].state = "new"
  /\ \E t \in Pick : request' = [request EXCEPT ![r] = [state |-> "routed", target |-> t]]
  /\ UNCHANGED <<targets, inflight, healthy, up, probe, lost, retargets, flips>>

\* The body is read; by now the target may have left the table, and counting
\* the request puts it back among the counters.
Counted(t) == Put(inflight, t, Load(t) + 1)

Forward(r) ==
  /\ request[r].state = "routed"
  /\ request' = [request EXCEPT ![r].state = "sent"]
  /\ inflight' = Counted(request[r].target)
  /\ UNCHANGED <<targets, healthy, up, probe, lost, retargets, flips>>

FaultyUncounted(t) == IF t \in DOMAIN inflight THEN [inflight EXCEPT ![t] = @ - 1] ELSE inflight
Uncounted(t) == IF t \in DOMAIN inflight THEN [inflight EXCEPT ![t] = Max({0, @ - 1})] ELSE inflight

FaultyAfterFailure(t) == inflight
AfterFailure(t) == Uncounted(t)

Ends(r) ==
  /\ request[r].state = "sent"
  /\ request' = [request EXCEPT ![r].state = "done"]
  /\ lost' = [lost EXCEPT ![request[r].target] = IF Sent(request[r].target) = {r} THEN 0 ELSE @]
  /\ UNCHANGED <<targets, up, probe, retargets, flips>>

Answered(r) ==
  /\ Ends(r) /\ up[request[r].target]
  /\ inflight' = Uncounted(request[r].target)
  /\ UNCHANGED healthy

\* The upstream refuses, breaks off or falls silent, before the response has
\* begun or after; a client that goes away ends the same way.
Breaks(r) ==
  /\ Ends(r)
  /\ inflight' = AfterFailure(request[r].target)
  /\ healthy' = Put(healthy, request[r].target, FALSE)

-----------------------------------------------------------------------------
(***************************************************************************)
(* health_loop and probe_once.                                             *)
(***************************************************************************)
FaultyAsked == {t \in targets : healthy[t]}
Asked == targets

StartPass ==
  /\ probe.todo = {} /\ probe.asking = Nobody
  /\ probe' = [Silent EXCEPT !.todo = Asked]
  /\ UNCHANGED <<targets, inflight, healthy, up, request, lost, retargets, flips>>

AskNext ==
  /\ probe.asking = Nobody
  /\ \E t \in probe.todo : probe' = [Silent EXCEPT !.todo = probe.todo \ {t}, !.asking = t]
  /\ UNCHANGED <<targets, inflight, healthy, up, request, lost, retargets, flips>>

\* The replica answers, or the probe times out; the answer is on its way.
AnswerProbe ==
  /\ probe.asking # Nobody /\ ~probe.answered
  /\ probe' = [probe EXCEPT !.up = up[probe.asking], !.answered = TRUE]
  /\ UNCHANGED <<targets, inflight, healthy, up, request, lost, retargets, flips>>

FaultyNoted(t, isUp) == IF isUp THEN [healthy EXCEPT ![t] = TRUE] ELSE healthy
Noted(t, isUp) == [healthy EXCEPT ![t] = isUp]

TakeAnswer ==
  /\ probe.answered /\ probe.asking # Nobody
  /\ probe' = [Silent EXCEPT !.todo = probe.todo]
  /\ healthy' = IF probe.asking \in DOMAIN healthy THEN Noted(probe.asking, probe.up) ELSE healthy
  /\ UNCHANGED <<targets, inflight, up, request, lost, retargets, flips>>

\* A replica dies or comes up.
Flip(t) ==
  /\ flips < MaxFlips /\ flips' = flips + 1
  /\ up' = [up EXCEPT ![t] = ~@]
  /\ UNCHANGED <<targets, inflight, healthy, request, probe, lost, retargets>>

-----------------------------------------------------------------------------
Probing == StartPass \/ AskNext \/ AnswerProbe \/ TakeAnswer
Serving(r) == Forward(r) \/ Answered(r) \/ Breaks(r)
GatewayNext == Retarget \/ Probing \/ (\E r \in Requests : Arrive(r) \/ Serving(r)) \/ \E t \in Replicas : Flip(t)

\* The event loop runs the prober; bodies arrive and upstreams end, by the
\* socket timeout if by nothing else.
GatewaySpec == GatewayInit /\ [][GatewayNext]_gatewayVars /\ WF_gatewayVars(Probing) /\ \A r \in Requests : WF_gatewayVars(Serving(r))

-----------------------------------------------------------------------------
\* The tables have an entry for every target, so that pick and the health
\* report never miss one, and the counters are numbers of requests.
GatewayTypeOK ==
  /\ targets # {} /\ targets \subseteq DOMAIN inflight /\ targets \subseteq DOMAIN healthy
  /\ Range(inflight) \subseteq 0..Cardinality(Requests)
  /\ Range(healthy) \subseteq BOOLEAN

\* The load that requests are routed by is the requests under way, but for
\* those that were under way when their target left the table: they may be
\* missing, until the target has been idle once, and nothing is ever added.
LoadCounted ==
  \A t \in targets :
    LET n == Cardinality(Sent(t)) IN inflight[t] <= n /\ n <= inflight[t] + lost[t]

\* An entry outside the table belongs to a request that was routed there
\* before it left, and has nothing on account once no request is under way.
NoGhostLoad == \A t \in DOMAIN inflight \ targets : inflight[t] <= Cardinality(Sent(t))

\* A target that stays in the table and up is in the end found healthy, and
\* stays so, whatever late answers and failed requests said of it before.
UpIsFound == \A t \in Replicas : <>[](t \in targets /\ up[t]) => <>[](t \in targets /\ healthy[t])

\* A target that stays down is in the end taken out of the pool.
DownIsFound == \A t \in Replicas : <>[](t \in targets /\ ~up[t]) => <>[](t \in targets /\ ~healthy[t])

\* The load by which requests are routed is true.
LoadTrue == GatewayTypeOK /\ LoadCounted /\ NoGhostLoad

-----------------------------------------------------------------------------
(* An inductive strengthening of LoadTrue. *)

States == {"new", "routed", "sent", "done"}

\* Entries are kept for replicas only, and there is one for every target.
TablesInv ==
  /\ targets # {} /\ targets \subseteq DOMAIN inflight /\ targets \subseteq DOMAIN healthy
  /\ DOMAIN inflight \subseteq Replicas /\ DOMAIN healthy \subseteq Replicas
  /\ \A t \in DOMAIN healthy : healthy[t] \in BOOLEAN
  /\ request \in [Requests -> [state: States, target: Replicas \cup {Nobody}]]
  /\ \A r \in Requests : request[r].state # "new" => request[r].target \in Replicas
  /\ up \in [Replicas -> BOOLEAN]
  /\ probe \in [todo: SUBSET Replicas, asking: Replicas \cup {Nobody},
                up: BOOLEAN, answered: BOOLEAN]

\* The requests under way are those on account and those lost track of, also
\* where the replica is out of the table: it may come back.
LoadInv ==
  /\ lost \in [Replicas -> Nat]
  /\ \A t \in Replicas :
       LET n == Cardinality(Sent(t)) IN
       Load(t) \in Nat /\ Load(t) <= n /\ n <= Load(t) + lost[t]

-----------------------------------------------------------------------------
\* The pool converges to the targets that are up.
PoolConverges == UpIsFound /\ DownIsFound
=============================================================================
