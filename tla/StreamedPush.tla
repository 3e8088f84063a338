----------------------------- MODULE StreamedPush -----------------------------
(***************************************************************************)
(* How a /sync session of the parameter server gets its pseudo-gradient:   *)
(* the header is checked, then the body is read tensor by tensor, into     *)
(* buffers all sessions share ("streaming": no grace period, no rounds),   *)
(* or into memory of its own.  Reading and applying a streamed push are    *)
(* one section under _stream_lock.  A body may break off, or stall until   *)
(* the handler's request timeout.  What applying does is OuterSteps'.      *)
(*                                                                         *)
(* Definitions named Faulty... are plausible mistakes in the code: put in  *)
(* place of the definition that follows them, each breaks a property.      *)
(***************************************************************************)
EXTENDS Layout

CONSTANTS
  Requests,    \* one session each
  Nobody,
  Sizes,       \* the model's tensors: numels
  MaxParts,    \* bound: num_fragments is chosen from 1..MaxParts
  MaxSessions  \* bound: max_sessions is chosen from 1..MaxSessions

ASSUME StreamAssumption ==
  /\ Nobody \notin Requests /\ Sizes \in Seq(Nat)
  /\ MaxParts \in 1..Len(Sizes) /\ MaxSessions \in Nat \ {0}

VARIABLES
  parts,     \* num_fragments
  streaming, \* no grace period and no rounds
  session,   \* where each request is
  header,    \* what its header says, and how many tensors of its body arrive
  got,       \* the tensors read so far: whose values are in them
  buffers,   \* _stream_bufs
  holder,    \* who has _stream_lock
  slots,     \* free session slots
  stepped    \* history: what was applied

streamVars == <<parts, streaming, session, header, got, buffers, holder, slots, stepped>>
still == <<parts, streaming>>

Params == DOMAIN Sizes

\* A pull has no body.  part = 0: the push names no fragment.  fits: its
\* num_fragments and its number of elements are what the server expects.
Pull == [full |-> FALSE, part |-> 0, fits |-> TRUE, arrives |-> 0]
Headers == {Pull} \cup [full: {TRUE}, part: 0..MaxParts, fits: BOOLEAN, arrives: 0..Len(Sizes)]

StreamInitAs(p, s, n) ==
  /\ parts = p /\ streaming = s
  /\ session = [r \in Requests |-> "sent"] /\ header = [r \in Requests |-> Pull]
  /\ got = [r \in Requests |-> <<>>] /\ buffers = [t \in Params |-> Nobody]
  /\ holder = Nobody /\ slots = n /\ stepped = {}

\* __init__ refuses a grace period, or rounds, with several fragments.
StreamInit ==
  \E p \in 1..MaxParts, s \in BOOLEAN, n \in 1..MaxSessions :
    (~s => p = 1) /\ StreamInitAs(p, s, n)

Fragments == [p \in 1..MaxParts |->
                [k \in 1..p |-> Members(FragmentBounds(Sizes, p)[k])]]

\* _frag_names: the tensors a push covers.
Frags(r) == IF header[r].part = 0 THEN Params ELSE Fragments[parts][header[r].part]

\* The next tensor of the body.
NextTensor(r) == Min(Frags(r)) + Len(got[r])

ReadWhole(r) == Len(got[r]) = Cardinality(Frags(r))

Move(r, from, to) == session[r] = from /\ session' = [session EXCEPT ![r] = to]

-----------------------------------------------------------------------------

\* A whole-model push is for a server without fragments.
Accepted(h) == h.fits /\ (h.full /\ h.part = 0 => parts = 1)

\* No slot left is a 503, and the client tries again: no step.
Open(r) ==
  /\ Move(r, "sent", "header") /\ slots > 0
  /\ slots' = slots - 1
  /\ \E h \in Headers :
       /\ h.part <= parts /\ (~Accepted(h) => h.arrives = 0)
       /\ header' = [header EXCEPT ![r] = h]
  /\ UNCHANGED <<still, got, buffers, holder, stepped>>

FaultyFreed(r) == 2

\* The finally clause.
Freed(r) == 1

\* The session ends: the lock is left by whoever has it, the slot is freed.
FaultyLeaves(r) == holder

Leaves(r) == IF holder = r THEN Nobody ELSE holder

End(r, from, to) ==
  /\ Move(r, from, to)
  /\ slots' = slots + Freed(r)
  /\ holder' = Leaves(r)
  /\ UNCHANGED <<still, header, got, buffers, stepped>>

Reject(r) == ~Accepted(header[r]) /\ End(r, "header", "failed")

Accept(r) ==
  /\ Accepted(header[r])
  /\ Move(r, "header", IF ~header[r].full THEN "handling" ELSE IF streaming THEN "waiting" ELSE "reading")
  /\ UNCHANGED <<still, header, got, buffers, holder, slots, stepped>>

TakeLock(r) ==
  /\ Move(r, "waiting", "reading") /\ holder = Nobody
  /\ holder' = r
  /\ UNCHANGED <<still, header, got, buffers, slots, stepped>>

\* One tensor is there.  A streamed one is in the shared buffers only.
ReadTensor(r) ==
  /\ session[r] = "reading" /\ ~ReadWhole(r) /\ Len(got[r]) < header[r].arrives
  /\ got' = [got EXCEPT ![r] = Append(@, r)]
  /\ buffers' = IF streaming THEN [buffers EXCEPT ![NextTensor(r)] = r] ELSE buffers
  /\ UNCHANGED <<still, session, header, holder, slots, stepped>>

\* The peer has gone, or the timeout has passed: the exception is a 500.
BreakOff(r) ==
  /\ ~ReadWhole(r) /\ Len(got[r]) >= header[r].arrives
  /\ End(r, "reading", "failed")

FaultyHeldToApply(r) == Nobody

\* The lock is held until the push is applied.
HeldToApply(r) == holder

BodyRead(r) ==
  /\ ReadWhole(r) /\ Move(r, "reading", "handling")
  /\ holder' = HeldToApply(r)
  /\ UNCHANGED <<still, header, got, buffers, slots, stepped>>

\* The dict that _handle_sync gets: views of the shared buffers, or its own.
PseudoGrads(r) ==
  [t \in Frags(r) |-> IF streaming THEN buffers[t] ELSE got[r][t - Min(Frags(r)) + 1]]

\* _handle_sync; an outer step may raise.  The reply is written unlocked.
Handled(r) ==
  /\ Move(r, "handling", "replying")
  /\ stepped' = IF header[r].full THEN stepped \cup {[by |-> r, grads |-> PseudoGrads(r)]} ELSE stepped
  /\ holder' = Leaves(r)
  /\ UNCHANGED <<still, header, got, buffers, slots>>

HandlingFails(r) == End(r, "handling", "failed")

Reply(r) == End(r, "replying", "answered")

Session(r) ==
  \/ Open(r) \/ Reject(r) \/ Accept(r) \/ TakeLock(r) \/ ReadTensor(r) \/ BreakOff(r)
  \/ BodyRead(r) \/ Handled(r) \/ HandlingFails(r) \/ Reply(r)

StreamNext == \E r \in Requests : Session(r)

\* Handler threads run, and a client tries again.
StreamFairness == \A r \in Requests : WF_streamVars(Session(r))

-----------------------------------------------------------------------------
(* Properties. *)

Sessions == {"sent", "header", "waiting", "reading", "handling", "replying", "answered", "failed"}

\* Every variable has its type.
StreamTypeOK ==
  /\ parts \in 1..MaxParts /\ streaming \in BOOLEAN
  /\ session \in [Requests -> Sessions] /\ header \in [Requests -> Headers]
  /\ got \in [Requests -> Seq(Requests)] /\ buffers \in [Params -> Requests \cup {Nobody}]
  /\ holder \in Requests \cup {Nobody} /\ slots \in 0..MaxSessions
  /\ \A s \in stepped : s.by \in Requests

\* What is applied for a push is all of its own body, for its own fragment:
\* nothing of another session's, of one that broke off, or of an earlier push
\* is left in the buffers it shares ("bitwise identical to the materializing
\* path").
AppliedOwn ==
  \A s \in stepped :
    /\ s.grads = [t \in Frags(s.by) |-> s.by]
    /\ session[s.by] \in {"replying", "answered"}

\* Every request is answered, or fails, whatever breaks off in others.
SessionsEnd == \A r \in Requests : (session[r] = "sent") ~> (session[r] \in {"answered", "failed"})

-----------------------------------------------------------------------------
(* An inductive strengthening of StreamTypeOK /\ AppliedOwn. *)

\* A session has a slot from the header to the reply.
Served == {r \in Requests : session[r] \notin {"sent", "answered", "failed"}}
SlotsInv == IsFiniteSet(Served) /\ slots + Cardinality(Served) <= MaxSessions

\* A session with a push, while its tensors are read and applied.
Pushing(r) == header[r].full /\ session[r] \in {"reading", "handling"}

\* Only that of the lock's holder, if it is streamed.
LockInv ==
  \A r \in Requests :
    /\ streaming /\ Pushing(r) => holder = r
    /\ session[r] \in {"waiting", "reading"} => header[r].full

\* What has been read is in the session's own part of the buffers.
BodyInv ==
  \A r \in Requests :
    /\ header[r].part <= parts
    /\ session[r] \in {"sent", "header", "waiting"} => got[r] = <<>>
    /\ \A i \in DOMAIN got[r] : got[r][i] = r
    /\ Pushing(r) =>
         /\ Len(got[r]) <= Cardinality(Frags(r))
         /\ streaming => \A i \in DOMAIN got[r] : buffers[Min(Frags(r)) + i - 1] = r
         /\ session[r] = "handling" => ReadWhole(r)

StreamInv == StreamTypeOK /\ SlotsInv /\ LockInv /\ BodyInv /\ AppliedOwn

\* The sessions without fairness.
StreamSafety == StreamInit /\ [][StreamNext]_streamVars
=============================================================================
