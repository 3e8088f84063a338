----------------------------- MODULE MCHubGateway -----------------------------
(* Instances of RelayHub and of Gateway for TLC: in each initial state, the *)
(* hub publishes to its relays or the gateway serves; the other is at rest. *)
EXTENDS RelayHub, Gateway

CONSTANTS a, b, t1, t2, q1, q2

VARIABLE running   \* "hub" or "gateway"

TwoRelays == <<a, b>>

\* A gateway whose replicas are all down, as it knows.
GatewayAtRest ==
  GatewayInit /\ targets = Replicas /\ up = [t \in Replicas |-> FALSE]

MCInit ==
  \/ running = "hub" /\ Init /\ GatewayAtRest
  \/ running = "gateway" /\ Init /\ GatewayInit

HubNext == running = "hub" /\ Next /\ UNCHANGED <<gatewayVars, running>>

ServingNext == running = "gateway" /\ GatewayNext /\ UNCHANGED <<vars, running>>

MCNext == HubNext \/ ServingNext

\* The fairness of both specifications, where they run.
MCFairness ==
  /\ WF_vars(running = "hub" /\ Committing) /\ WF_vars(running = "hub" /\ Publishing)
  /\ \A w \in Workers : WF_vars(running = "hub" /\ Fetching(w))
  /\ WF_gatewayVars(running = "gateway" /\ Probing)
  /\ \A r \in Requests : WF_gatewayVars(running = "gateway" /\ Serving(r))

MCSpec == MCInit /\ [][MCNext]_<<vars, gatewayVars, running>> /\ MCFairness

\* The hub delivers; an idle hub owes nothing.
HubDelivers == (running = "hub") => NewestArrives
=============================================================================
