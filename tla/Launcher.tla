------------------------------- MODULE Launcher -------------------------------
(***************************************************************************)
(* run_heloco.py: one data distribution after the other, and for each one  *)
(* outer method after the other, it starts a lighthouse, a parameter       *)
(* server and the islands, watches them (run_single_method), ends them     *)
(* (shutdown), and at last collects what all the runs logged (main).       *)
(*                                                                         *)
(* A role is a process group: a leader, which the launcher polls, and      *)
(* helpers (the ranks under torchrun), which it does not see.              *)
(*                                                                         *)
(* Definitions named Faulty... are plausible mistakes in the code: put in  *)
(* place of the definition that follows them, each breaks a property.      *)
(***************************************************************************)
EXTENDS Integers, FiniteSets, Sequences, SequencesExt

CONSTANTS
  Methods,      \* args.methods, a sequence
  IslandNames,  \* the islands' roles, in the order they are launched
  MaxTrouble    \* bound: processes that fail, and interrupts

ASSUME LauncherAssumption ==
  /\ Methods \in Seq(STRING) /\ Len(Methods) > 0
  /\ IslandNames \in Seq(STRING) /\ Len(IslandNames) > 0
  /\ MaxTrouble \in Nat

VARIABLES
  at,            \* where the launcher is
  asked,         \* --data-distribution
  distribution,  \* args.data_distribution, which main overwrites
  mode, method,  \* positions in the two loops
  suffix,        \* method_suffix
  leader,        \* each role's leader
  helpers,       \* has the group of a role other processes?
  announced,     \* the addresses the server has printed
  stop,          \* the event of the current run's signal handlers
  returned,      \* what run_single_method is about to return
  status,        \* the exit code
  logs,          \* what each log directory holds
  ran,           \* history: the runs that succeeded
  rows,          \* the directories collected
  trouble        \* troubles left

launchVars == <<at, asked, distribution, mode, method, suffix, leader, helpers, announced,
                stop, returned, status, logs, ran, rows, trouble>>

Islands == ToSet(IslandNames)
Infra == {"lighthouse", "param-server"}
Roles == Infra \cup Islands

FaultyModesOf(d) == <<d>>

ModesOf(d) == IF d = "both" THEN <<"iid", "non_iid">> ELSE <<d>>

FaultySuffixOf(d, m) == ""

\* method_suffix: the mode, if the distribution is "both" at that moment.
SuffixOf(d, m) == IF d = "both" THEN m ELSE ""

Keys == ToSet(Methods) \X {"", "iid", "non_iid"}
Key == <<Methods[method], suffix>>
Mode == ModesOf(asked)[mode]
Nothing == <<"", "">>

Unborn == [r \in Roles |-> "none"]

LaunchInitAs(p) ==
  /\ at = p
  /\ asked \in {"iid", "non_iid", "both"} /\ distribution = asked
  /\ mode = 1 /\ method = 1 /\ suffix = ""
  /\ leader = Unborn /\ helpers = [r \in Roles |-> FALSE]
  /\ announced = <<>> /\ stop = FALSE /\ returned = FALSE /\ status = -1
  /\ logs = [k \in Keys |-> Nothing] /\ ran = <<>> /\ rows = {}
  /\ trouble = MaxTrouble

LaunchInit == LaunchInitAs("preflight")

loops == <<asked, distribution, mode, method, suffix>>
roles == <<leader, helpers, announced>>
books == <<logs, ran, rows>>

Exit(code) == at' = "over" /\ status' = code

\* preflight: a missing tool, too few GPUs, ...: exit code 2.
Preflight ==
  /\ at = "preflight"
  /\ Exit(2) \/ (at' = "modes" /\ UNCHANGED status)
  /\ UNCHANGED <<loops, roles, stop, returned, books, trouble>>

\* The next distribution: args.data_distribution is overwritten, and stays so.
NextMode ==
  /\ at = "modes"
  /\ IF mode <= Len(ModesOf(asked))
     THEN /\ suffix' = SuffixOf(distribution, Mode)
          /\ distribution' = Mode
          /\ method' = 1 /\ at' = "methods"
     ELSE at' = "collect" /\ UNCHANGED <<suffix, distribution, method>>
  /\ UNCHANGED <<asked, mode, roles, stop, returned, status, books, trouble>>

MethodsDone ==
  /\ at = "methods" /\ method > Len(Methods)
  /\ mode' = mode + 1 /\ at' = "modes"
  /\ UNCHANGED <<asked, distribution, method, suffix, roles, stop, returned, status, books, trouble>>

Launch(r) ==
  /\ leader' = [leader EXCEPT ![r] = "running"]
  /\ helpers' = [helpers EXCEPT ![r] = r \in Islands]

\* run_single_method: a new event for the signal handlers, new logs in the
\* directory of this key, the lighthouse.
StartLighthouse ==
  /\ at = "methods" /\ method <= Len(Methods)
  /\ leader' = [Unborn EXCEPT !["lighthouse"] = "running"]
  /\ helpers' = [r \in Roles |-> FALSE]
  /\ announced' = <<>> /\ stop' = FALSE /\ returned' = FALSE
  /\ logs' = [logs EXCEPT ![Key] = <<distribution, Methods[method]>>]
  /\ at' = "lighthouse"
  /\ UNCHANGED <<loops, status, ran, rows, trouble>>

Ended(r) == leader[r] \notin {"none", "running"}

Return(b) == returned' = b /\ at' = "terminate"

StartServer ==
  /\ at = "lighthouse"
  /\ IF Ended("lighthouse") THEN Return(FALSE) /\ UNCHANGED <<leader, helpers>>
     ELSE Launch("param-server") /\ at' = "server" /\ UNCHANGED returned
  /\ UNCHANGED <<loops, announced, stop, status, books, trouble>>

Addresses == <<"DILOCO_SERVER_ADDR", "DILOCO_HB_ADDR">>

\* The server prints an address; on_ps_line takes it from the pump thread.
Announce ==
  /\ leader["param-server"] = "running" /\ Len(announced) < Len(Addresses)
  /\ announced' = Append(announced, Addresses[Len(announced) + 1])
  /\ UNCHANGED <<at, loops, leader, helpers, stop, returned, status, books, trouble>>

GotAddrs == ToSet(Addresses) \subseteq ToSet(announced)

\* The loop that waits for both addresses.  The server's end is seen at some
\* later poll, an interrupt too, and ps_timeout may pass at any time.
AwaitServer ==
  /\ at = "server"
  /\ IF GotAddrs THEN at' = "islands" /\ UNCHANGED returned ELSE Return(FALSE)
  /\ UNCHANGED <<loops, roles, stop, status, books, trouble>>

LaunchIsland ==
  /\ at = "islands"
  /\ \/ /\ \A i \in Islands : leader[i] # "none"
        /\ at' = "waiting" /\ UNCHANGED <<leader, helpers>>
     \/ \E k \in DOMAIN IslandNames :
          /\ leader[IslandNames[k]] = "none" /\ \A j \in 1..(k - 1) : leader[IslandNames[j]] # "none"
          /\ Launch(IslandNames[k]) /\ UNCHANGED at
  /\ UNCHANGED <<loops, announced, stop, returned, status, books, trouble>>

FaultyInterrupted == FALSE

Interrupted == stop

\* A pass of the wait loop: first the interrupt and the infrastructure, ...
PollInfra ==
  /\ at = "waiting"
  /\ IF Interrupted \/ \E r \in Infra : Ended(r)
     THEN Return(FALSE) ELSE at' = "polled" /\ UNCHANGED returned
  /\ UNCHANGED <<loops, roles, stop, status, books, trouble>>

AnyFailed == \E i \in Islands : leader[i] = "failed"

AllDone == \A i \in Islands : leader[i] = "ok"

\* ... then the islands.
PollIslands ==
  /\ at = "polled"
  /\ IF AnyFailed THEN Return(FALSE)
     ELSE IF AllDone THEN Return(TRUE)
     ELSE at' = "waiting" /\ UNCHANGED returned
  /\ UNCHANGED <<loops, roles, stop, status, books, trouble>>

\* shutdown: SIGTERM to the group of every leader that still runs.
Terminate ==
  /\ at = "terminate" /\ at' = "grace"
  /\ UNCHANGED <<loops, roles, stop, returned, status, books, trouble>>

FaultyGraceOver == \A r \in Roles : leader[r] # "running"

\* All leaders have ended, or the grace is over: it may be at any time.
GraceOver == TRUE

FaultyKilled == [r \in Roles |-> helpers[r]]

\* SIGKILL goes to a group only if its leader still runs.
Killed == [r \in Roles |-> helpers[r] /\ leader[r] # "running"]

Kill ==
  /\ at = "grace" /\ GraceOver
  /\ leader' = [r \in Roles |-> IF leader[r] = "running" THEN "killed" ELSE leader[r]]
  /\ helpers' = Killed
  /\ at' = "finish"
  /\ UNCHANGED <<loops, announced, stop, returned, status, books, trouble>>

\* run_single_method returns; a method that failed ends the campaign.
FinishMethod ==
  /\ at = "finish"
  /\ IF returned
     THEN /\ ran' = Append(ran, <<distribution, Methods[method]>>)
          /\ method' = method + 1
          /\ at' = "methods" /\ UNCHANGED status
     ELSE Exit(1) /\ UNCHANGED <<ran, method>>
  /\ UNCHANGED <<asked, distribution, mode, suffix, roles, stop, returned, logs, rows, trouble>>

FaultyCollected(m, x) == <<x, m>>

\* The directory collected for a mode and a method: args.data_distribution is
\* that of the last mode by now.
Collected(m, x) == <<x, SuffixOf(distribution, m)>>

\* The two loops over what was run, again; a directory that is not there is skipped.
Collect ==
  /\ at = "collect" /\ Exit(0)
  /\ rows' = {key \in {Collected(m, x) : m \in ToSet(ModesOf(asked)), x \in ToSet(Methods)} : logs[key] # Nothing}
  /\ UNCHANGED <<loops, roles, stop, returned, logs, ran, trouble>>

LauncherStep ==
  \/ Preflight \/ NextMode \/ MethodsDone \/ StartLighthouse \/ StartServer
  \/ AwaitServer \/ LaunchIsland \/ PollInfra \/ PollIslands
  \/ Terminate \/ Kill \/ FinishMethod \/ Collect

-----------------------------------------------------------------------------
(* The processes, and the operator. *)

others == <<at, loops, announced, stop, returned, status, books>>

\* An island has done its steps: torchrun ends after its ranks, with code 0.
IslandDone(i) ==
  /\ leader[i] = "running" /\ leader' = [leader EXCEPT ![i] = "ok"]
  /\ helpers' = [helpers EXCEPT ![i] = FALSE]
  /\ UNCHANGED <<others, trouble>>

\* A leader fails, or ends when it is told to; its helpers may stay.
LeaderEnds(r) ==
  /\ leader[r] = "running" /\ leader' = [leader EXCEPT ![r] = "failed"]
  /\ \/ at = "grace" /\ UNCHANGED trouble
     \/ trouble > 0 /\ trouble' = trouble - 1
  /\ UNCHANGED helpers \/ helpers' = [helpers EXCEPT ![r] = FALSE]
  /\ UNCHANGED others

\* The operator presses Ctrl-C: the handler sets the last run's event.
Interrupt ==
  /\ at # "over" /\ leader # Unborn
  /\ ~stop /\ stop' = TRUE
  /\ trouble > 0 /\ trouble' = trouble - 1
  /\ UNCHANGED <<at, loops, roles, returned, status, books>>

LaunchNext ==
  \/ LauncherStep \/ Announce \/ Interrupt
  \/ \E i \in Islands : IslandDone(i)
  \/ \E r \in Roles : LeaderEnds(r)

\* The launcher goes on; every island ends at some time.
LaunchFairness ==
  /\ WF_launchVars(LauncherStep)
  /\ \A i \in Islands : WF_launchVars(IslandDone(i))

-----------------------------------------------------------------------------
(* Properties. *)

\* Every variable has its type.
LaunchTypeOK ==
  /\ distribution \in {"iid", "non_iid", "both"} /\ suffix \in {"", "iid", "non_iid"}
  /\ mode \in 1..3 /\ method \in 1..(Len(Methods) + 1)
  /\ leader \in [Roles -> {"none", "running", "ok", "failed", "killed"}]
  /\ helpers \in [Roles -> BOOLEAN] /\ stop \in BOOLEAN /\ returned \in BOOLEAN
  /\ status \in {-1, 0, 1, 2} /\ trouble \in 0..MaxTrouble
  /\ logs \in [Keys -> {Nothing} \cup ({"iid", "non_iid"} \X ToSet(Methods))]

\* Between two runs, and when the launcher is gone, no leader runs, and a
\* helper only where the leader had ended before the kill (Role: "own process
\* group -> clean teardown").
NoneLeftRunning ==
  at \in {"finish", "methods", "modes", "collect", "over"} =>
    \A r \in Roles : leader[r] # "running" /\ (helpers[r] => leader[r] # "killed")

\* A run that counts as done had all its islands end well, whatever else ended
\* meanwhile; and its logs are in a directory of their own until the end.
RunsWhole ==
  /\ at = "finish" /\ returned => \A i \in Islands : leader[i] = "ok"
  /\ \A k \in DOMAIN ran : \E key \in Keys : logs[key] = ran[k]

\* What is collected was logged by a run that succeeded; with one
\* distribution, every run is collected.
SummaryWhole ==
  at = "over" /\ status = 0 =>
    /\ \A key \in rows : logs[key] \in ToSet(ran)
    /\ asked # "both" => {logs[key] : key \in rows} = ToSet(ran)

Aborted == at = "over" /\ status = 1
SomeIslandFailed == \E i \in Islands : leader[i] = "failed"

\* An island that fails while the launcher waits ends the campaign, and so
\* does an interrupt before the launcher waits for the islands.
TroubleEnds ==
  /\ (at \in {"waiting", "polled"} /\ SomeIslandFailed) ~> Aborted
  /\ (stop /\ at \in {"lighthouse", "server", "islands"}) ~> Aborted

\* The launcher ends, if the islands do: a role that does not react to SIGTERM
\* does not hold it up, nor a server that never prints its addresses.
CampaignEnds == (at = "preflight") ~> (at = "over")

\* A campaign is accounted for: no leader outlives its run, a run counts as done
\* only when all its islands ended well, and the summary has the logs of just
\* those runs.  A leader that dies by itself may leave its helpers behind.
CampaignSound == LaunchTypeOK /\ NoneLeftRunning /\ RunsWhole /\ SummaryWhole

-----------------------------------------------------------------------------
(* An inductive strengthening of CampaignSound. *)

Distributions == {"iid", "non_iid"}

\* A run of the present mode and method is under way, or was when all ended.
InRun == {"lighthouse", "server", "islands", "waiting", "polled", "terminate", "grace", "finish"}
Underway == at \in InRun \/ Aborted

\* Where the two loops are, and what they have made of the distribution.
LoopsInv ==
  /\ asked \in {"iid", "non_iid", "both"} /\ suffix \in {"", "iid", "non_iid"}
  /\ distribution \in {"iid", "non_iid", "both"}
  /\ mode \in 1..(Len(ModesOf(asked)) + 1) /\ method \in 1..(Len(Methods) + 1)
  /\ distribution = IF (mode = 1 /\ at \in {"preflight", "modes"}) \/ (at = "over" /\ status = 2) THEN asked
                    ELSE IF at \in {"modes", "collect"} \/ (at = "over" /\ status = 0) THEN ModesOf(asked)[mode - 1]
                    ELSE Mode
  /\ at = "preflight" => mode = 1
  /\ at = "collect" => mode > Len(ModesOf(asked))
  /\ at \in InRun \cup {"methods"} =>
       /\ mode <= Len(ModesOf(asked))
       /\ suffix = IF asked = "both" /\ mode = 1 THEN "iid" ELSE ""
  /\ at \in InRun => method <= Len(Methods)

\* No leader outlives its run, and the islands of a good one have ended well.
RolesInv ==
  /\ leader \in [Roles -> {"none", "running", "ok", "failed", "killed"}]
  /\ helpers \in [Roles -> BOOLEAN] /\ stop \in BOOLEAN /\ returned \in BOOLEAN
  /\ status \in {-1, 0, 1, 2} /\ trouble \in 0..MaxTrouble
  /\ at = "preflight" => leader = Unborn /\ \A r \in Roles : ~helpers[r]
  /\ NoneLeftRunning
  /\ at \notin {"finish", "methods", "modes", "collect", "over"} => \A r \in Roles : leader[r] # "killed"
  /\ at \in {"terminate", "grace", "finish"} /\ returned => \A i \in Islands : leader[i] = "ok"

\* The directory that a run logs in.
DirectoryOf(run) == <<run[2], IF asked = "both" /\ run[1] = "iid" THEN "iid" ELSE "">>

\* What is in a directory was logged by one run, a good one or the present one.
BooksInv ==
  /\ logs \in [Keys -> {Nothing} \cup (Distributions \X ToSet(Methods))]
  /\ ran \in Seq(Distributions \X ToSet(Methods))
  /\ \A run \in ToSet(ran) : run[1] \in ToSet(ModesOf(asked)) /\ logs[DirectoryOf(run)] = run
  /\ \A key \in Keys : logs[key] # Nothing =>
       logs[key] \in ToSet(ran) \/ (Underway /\ logs[key] = <<distribution, Methods[method]>>)
  /\ at \in InRun => logs[Key] = <<distribution, Methods[method]>>

CampaignInv == LoopsInv /\ RolesInv /\ BooksInv /\ SummaryWhole

\* The launcher without fairness.
CampaignSafety == LaunchInit /\ [][LaunchNext]_launchVars
=============================================================================
