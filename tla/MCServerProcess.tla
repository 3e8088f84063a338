--------------------------- MODULE MCServerProcess ---------------------------
(* Instances of CheckpointFile, Launcher, OuterSteps and StreamedPush for TLC. *)
EXTENDS CheckpointFile, Launcher, ServerPush

CONSTANTS i1, i2

TwoTensors == <<1, 1>>
MethodList == <<"heloco", "mla">>
IslandList == <<"island-0", "island-1">>

Plain(rule, period, most, starts) ==
  [numels |-> <<1, 1>>, fragments |-> 1, method |-> rule, others |-> "uncorrected",
   selected |-> IslandIds, period |-> period, grace |-> FALSE, pushes |-> most,
   restarts |-> starts]

\* Delayed Nesterov with restarts; the other rules; HeLoCo in fragments, with
\* a DiLoCo island, and with a grace period.
Servers ==
  {Plain("diloco", 2, 4, 2), Plain("diloco", 3, 4, 1), Plain("mla", 2, 3, 1),
   Plain("bayes", 2, 3, 1), [Plain("bayes", 2, 3, 0) EXCEPT !.fragments = 2],
   [Plain("heloco", 2, 4, 1) EXCEPT !.numels = <<2, 1, 1>>, !.fragments = 2, !.others = "diloco", !.selected = {i1}],
   [Plain("heloco", 2, 4, 1) EXCEPT !.others = "diloco", !.selected = {i1}],
   [Plain("heloco", 2, 4, 1) EXCEPT !.grace = TRUE]}

SomeServer == CHOOSE s \in Servers : TRUE

\* A server whose checkpoint is not looked at.
NoSave ==
  /\ revision = MaxRevision /\ lastCkpt = MaxRevision
  /\ pc = [t \in Threads |-> "idle"] /\ copy = [t \in Threads |-> 0]
  /\ open = [t \in Threads |-> NoFile] /\ content = [f \in Files |-> Torn]
  /\ tmp = NoFile /\ path = NoFile /\ claims = {} /\ faults = 0

NoStream == StreamInitAs(1, TRUE, 1)

NoLaunch(place) == LaunchInitAs(place) /\ asked = "iid"

\* A server writes checkpoints, or applies pushes, or reads them; or a launcher
\* runs.
MCInit ==
  \/ Init /\ NoLaunch("checkpoint") /\ StepsInitAs(SomeServer) /\ NoStream
  \/ NoSave /\ NoLaunch("pushes") /\ StepsInit /\ NoStream
  \/ NoSave /\ NoLaunch("sessions") /\ StepsInitAs(SomeServer) /\ StreamInit
  \/ NoSave /\ LaunchInit /\ StepsInitAs(SomeServer) /\ NoStream

InLauncher == at \notin {"checkpoint", "pushes", "sessions"}

MCNext ==
  \/ at = "checkpoint" /\ Next /\ UNCHANGED <<launchVars, stepVars, streamVars>>
  \/ at = "pushes" /\ StepsNext /\ UNCHANGED <<vars, launchVars, streamVars>>
  \/ at = "sessions" /\ StreamNext /\ UNCHANGED <<vars, launchVars, stepVars>>
  \/ InLauncher /\ LaunchNext /\ UNCHANGED <<vars, stepVars, streamVars>>

SessionsRun == \A r \in Requests : WF_streamVars(at = "sessions" /\ Session(r))

MCSpec ==
  MCInit /\ [][MCNext]_<<vars, launchVars, stepVars, streamVars>> /\ LaunchFairness /\ SessionsRun

\* Of StreamedPush, whose fairness is SessionsRun here.
RequestsEnd == at = "sessions" => SessionsEnd

\* Every session ends, whatever breaks off in others; every campaign ends, and
\* trouble ends it early.
EverythingEnds == RequestsEnd /\ TroubleEnds /\ CampaignEnds
=============================================================================
