---------------------------- MODULE ScheduledRun ----------------------------
(***************************************************************************)
(* The process of `cannectors run' for a pipeline with a schedule:         *)
(* runScheduledPipeline (cmd/cannectors/main.go) drives the scheduler,     *)
(* whose executions go through PipelineExecutorAdapter and the module      *)
(* cache of cmd/cannectors/modulecache.go.  A chain is one moduleSet.      *)
(*                                                                         *)
(* Composition: every step is a step of Scheduler, with doExecutePipeline  *)
(* opened up into what the adapter does, or a step of main or the adapter  *)
(* that leaves the scheduler alone.                                        *)
(***************************************************************************)
EXTENDS Scheduler

CONSTANTS
    Chains          \* moduleSet objects; bounds the chains built

ASSUME ScheduledRunAssumption == None \notin Chains

VARIABLES
    set,        \* moduleCache.set; None where the map has no entry
    chain,      \* state of each moduleSet
    adapter,    \* where the adapter call of a goroutine is
    using,      \* the chain it executes with, or has taken out of the cache
    taken,      \* the chains moduleCache.Close has taken out of the cache
    main        \* where runScheduledPipeline is

cacheVars == <<set, chain, adapter, using, taken>>
allVars   == <<vars, cacheVars, main>>

AdapterPcs == {"outside", "using", "failed", "evicted"}
MainPcs    == {"starting", "registered", "serving", "stopping", "closing",
               "exited", "killed"}

RunInit ==
    /\ Init
    /\ set = [p \in Pipelines |-> None]
    /\ chain = [c \in Chains |-> "unbuilt"]
    /\ adapter = [j \in Jobs |-> "outside"]
    /\ using = [j \in Jobs |-> None]
    /\ taken = {}
    /\ main = "starting"

-----------------------------------------------------------------------------

(* main: register the pipeline, start, wait for a signal, stop.            *)
MainRegister(p, r) ==
    /\ main = "starting"
    /\ Register(p, r)
    /\ main' = "registered"
    /\ UNCHANGED cacheVars

MainStart ==
    /\ main = "registered"
    /\ Start
    /\ main' = "serving"
    /\ UNCHANGED cacheVars

MainSignal ==
    /\ main = "serving"
    /\ StopCron
    /\ main' = "stopping"
    /\ UNCHANGED cacheVars

(* Fault: the modules are released although executions are still running. *)
MainStopTimedOut_Closes ==
    /\ main = "stopping"
    /\ stop = "timedOut"
    /\ main' = "closing"
    /\ taken' = {set[p] : p \in Pipelines} \ {None}
    /\ set' = [p \in Pipelines |-> None]
    /\ UNCHANGED <<vars, chain, adapter, using>>

(* Fault: the error of a Stop that timed out does not end the process.     *)
MainStopTimedOut_Ignored ==
    /\ main = "stopping"
    /\ stop = "timedOut"
    /\ UNCHANGED allVars

(* A Stop that timed out ends the process without releasing the modules.   *)
MainStopTimedOut ==
    /\ main = "stopping"
    /\ stop = "timedOut"
    /\ main' = "killed"
    /\ UNCHANGED <<vars, cacheVars>>

(* moduleCache.Close after a graceful Stop: take the map under the lock    *)
(* and leave nil behind ...                                                *)
MainTakeCache ==
    /\ main = "stopping"
    /\ stop = "returned"
    /\ main' = "closing"
    /\ taken' = {set[p] : p \in Pipelines} \ {None}
    /\ set' = [p \in Pipelines |-> None]
    /\ UNCHANGED <<vars, chain, adapter, using>>

(* ... then close every chain and exit.                                    *)
MainClose ==
    /\ main = "closing"
    /\ chain' = [c \in Chains |-> IF c \in taken THEN "closed" ELSE chain[c]]
    /\ taken' = {}
    /\ main' = "exited"
    /\ UNCHANGED <<vars, set, adapter, using>>

-----------------------------------------------------------------------------

Alive == main \notin {"exited", "killed"}

PipelineOf(j) == regPipe[job[j].reg]

(* moduleCache.get, the build included: both under the cache lock.  A      *)
(* build that fails closes what it had built and ends the execution.       *)
AdapterGet(j) ==
    LET p == PipelineOf(j) IN
    /\ job[j].pc = "executing"
    /\ adapter[j] = "outside"
    /\ \/ /\ set[p] # None
          /\ using' = [using EXCEPT ![j] = set[p]]
          /\ adapter' = [adapter EXCEPT ![j] = "using"]
          /\ UNCHANGED <<vars, set, chain, taken>>
       \/ \E c \in Chains :
          /\ set[p] = None
          /\ chain[c] = "unbuilt"
          /\ chain' = [chain EXCEPT ![c] = "open"]
          /\ set' = [set EXCEPT ![p] = c]
          /\ using' = [using EXCEPT ![j] = c]
          /\ adapter' = [adapter EXCEPT ![j] = "using"]
          /\ UNCHANGED <<vars, taken>>
       \/ /\ set[p] = None
          /\ DoExecutePipeline(j)
          /\ UNCHANGED cacheVars

(* The execution ends well: the chain stays in the cache.                  *)
AdapterSucceeds(j) ==
    /\ adapter[j] = "using"
    /\ adapter' = [adapter EXCEPT ![j] = "outside"]
    /\ using' = [using EXCEPT ![j] = None]
    /\ DoExecutePipeline(j)
    /\ UNCHANGED <<set, chain, taken>>

AdapterFails(j) ==
    /\ adapter[j] = "using"
    /\ adapter' = [adapter EXCEPT ![j] = "failed"]
    /\ using' = [using EXCEPT ![j] = None]
    /\ UNCHANGED <<vars, set, chain, taken>>

(* evict takes whatever chain the pipeline has out of the map under the    *)
(* lock ...                                                                *)
AdapterEvict(j) ==
    LET p == PipelineOf(j) IN
    /\ adapter[j] = "failed"
    /\ using' = [using EXCEPT ![j] = set[p]]
    /\ set' = [set EXCEPT ![p] = None]
    /\ adapter' = [adapter EXCEPT ![j] = "evicted"]
    /\ UNCHANGED <<vars, chain, taken>>

(* Fault: an evicted chain is dropped without being closed.                *)
AdapterCloseEvicted_Drops(j) ==
    /\ adapter[j] = "evicted"
    /\ using' = [using EXCEPT ![j] = None]
    /\ adapter' = [adapter EXCEPT ![j] = "outside"]
    /\ DoExecutePipeline(j)
    /\ UNCHANGED <<set, chain, taken>>

(* ... and closes it after the lock is released.                           *)
AdapterCloseEvicted(j) ==
    /\ adapter[j] = "evicted"
    /\ chain' = IF using[j] = None THEN chain
                ELSE [chain EXCEPT ![using[j]] = "closed"]
    /\ using' = [using EXCEPT ![j] = None]
    /\ adapter' = [adapter EXCEPT ![j] = "outside"]
    /\ DoExecutePipeline(j)
    /\ UNCHANGED <<set, taken>>

AdapterStep(j) ==
    \/ AdapterGet(j)
    \/ AdapterSucceeds(j)
    \/ AdapterFails(j)
    \/ AdapterEvict(j)
    \/ AdapterCloseEvicted(j)

(* The scheduler's own steps while the process lives.                      *)
SchedulerJobStep(j) ==
    /\ \/ ExecutePipelineAdmit(j)
       \/ TryStartExecution(j)
       \/ CheckContext(j)
       \/ FinishExecution(j)
       \/ ExecuteQueuedPipeline(j)
       \/ AbandonQueue(j)
       \/ Unwind(j)
    /\ UNCHANGED <<cacheVars, main>>

SchedulerStopStep == StopStep /\ UNCHANGED <<cacheVars, main>>

GoroutineStep(j) ==
    Alive /\ (SchedulerJobStep(j) \/ (AdapterStep(j) /\ UNCHANGED main))

MainStep ==
    \/ MainStart
    \/ MainStopTimedOut
    \/ MainTakeCache
    \/ MainClose

RunNext ==
    \/ \E p \in Pipelines, r \in Regs : MainRegister(p, r)
    \/ MainStep
    \/ MainSignal
    \/ Alive /\ SchedulerStopStep
    \/ Alive /\ \E j \in Jobs, r \in Regs :
                    CronTick(j, r) /\ UNCHANGED <<cacheVars, main>>
    \/ \E j \in Jobs : GoroutineStep(j)

RunSpec == RunInit /\ [][RunNext]_allVars

(* main and the goroutines run on; the signal need not come, the clock     *)
(* need not tick, and an execution ends because its context is canceled or *)
(* its calls time out.                                                     *)
FairRunSpec ==
    /\ RunSpec
    /\ WF_allVars(MainStep)
    /\ WF_allVars(Alive /\ SchedulerStopStep)
    /\ \A j \in Jobs : WF_allVars(GoroutineStep(j))

-----------------------------------------------------------------------------

(* Type invariant of the cache, the adapter and main.                      *)
RunTypeOK ==
    /\ TypeOK
    /\ set \in [Pipelines -> Chains \cup {None}]
    /\ chain \in [Chains -> {"unbuilt", "open", "closed"}]
    /\ adapter \in [Jobs -> AdapterPcs]
    /\ using \in [Jobs -> Chains \cup {None}]
    /\ taken \in SUBSET Chains
    /\ main \in MainPcs

(* No execution works with a closed chain ("sql: database is closed"),     *)
(* whoever evicts or shuts down meanwhile.                                 *)
ChainInUseIsOpen ==
    \A j \in Jobs : adapter[j] = "using" => chain[using[j]] = "open"

(* "Two executions of the same pipeline never overlap (the scheduler       *)
(* serializes them)": the comment moduleCache.get relies on. The scheduler *)
(* serializes the executions of a registration; it holds of the pipeline   *)
(* because main registers it once.                                         *)
ExecutionsAreSerialized ==
    \A j, k \in Jobs :
        /\ job[j].pc = "executing" /\ job[k].pc = "executing"
        /\ PipelineOf(j) = PipelineOf(k)
        => j = k

(* An execution has its chain to itself, and open, from get to its end.    *)
ChainUseIsSafe == ExecutionsAreSerialized /\ ChainInUseIsOpen

(* "one chain per pipeline, built exactly once": an open chain is in the   *)
(* cache, or somebody who took it out is about to close it.                *)
OpenChainIsOwned ==
    \A c \in Chains : chain[c] = "open" =>
        \/ \E p \in Pipelines : set[p] = c
        \/ \E j \in Jobs : adapter[j] = "evicted" /\ using[j] = c
        \/ c \in taken

(* After a graceful stop every chain that was built has been released, and *)
(* none is built behind executorAdapter.Close.                             *)
GracefulExitReleases ==
    main = "exited" => \A c \in Chains : chain[c] # "open"

(* Every chain that is built is released once and by somebody, at run time *)
(* and at a graceful exit (moduleCache.get, evict and Close).              *)
ChainsAreReleased == OpenChainIsOwned /\ GracefulExitReleases

(* A signal ends the process.                                              *)
SignalEndsProcess == (main = "stopping") ~> ~Alive
=============================================================================
