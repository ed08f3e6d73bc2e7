----------------------------- MODULE Scheduler -----------------------------
(***************************************************************************)
(* The CRON scheduler of internal/scheduler/scheduler.go.                  *)
(*                                                                         *)
(* Register, Unregister, Start and Stop run under the scheduler lock s.mu, *)
(* every registration (registeredPipeline) has a lock, a running flag and  *)
(* a bounded queue of its own, and each CRON tick runs executePipeline in  *)
(* a goroutine of its own, here a job.  A critical section is one action,  *)
(* except the update branch of Register: it drops the registration's lock  *)
(* between reading `running' and removing the entry, so it is two actions  *)
(* and s.mu is held in between.                                            *)
(***************************************************************************)
EXTENDS Naturals, FiniteSets

CONSTANTS
    Pipelines,      \* pipelines Register accepts: enabled, valid CRON schedule
    Regs,           \* registeredPipeline objects; bounds the calls of Register
    Jobs,           \* goroutines the CRON library can have alive at a time
    QueueCapacity,  \* DefaultQueueCapacity
    MaxStarts,      \* bound: calls of Start
    MaxTicks,       \* bound: CRON ticks that fire
    None            \* nil

ASSUME SchedulerAssumption ==
    /\ QueueCapacity \in Nat \ {0}
    /\ MaxStarts \in Nat
    /\ MaxTicks \in Nat
    /\ None \notin Regs \cup Pipelines

VARIABLES
    pipelines,    \* s.pipelines, the map from pipeline id to registration
    regPipe,      \* the pipeline a registration was made for, None if unused
    running,      \* registeredPipeline.running
    queue,        \* len(registeredPipeline.queue)
    updating,     \* pipeline whose update holds s.mu half way, or None
    started,      \* s.started
    epoch,        \* s.ctx, numbered by the Start that made it; 0 before any
    canceled,     \* contexts whose cancel function was called
    stop,         \* where the Stop call is, or how the last one returned
    cronRunning,  \* whether the CRON loop fires entries
    entries,      \* registrations with an entry in the CRON table
    job,          \* the goroutines started by the CRON loop
    ticks         \* ticks fired so far

regVars  == <<pipelines, regPipe, running, queue, updating>>
lifeVars == <<started, epoch, canceled, stop, cronRunning>>
vars     == <<regVars, lifeVars, entries, job, ticks>>

-----------------------------------------------------------------------------

(* Where a goroutine is: fired but not yet past the `started' test,        *)
(* admitted (wg.Add done), owner of its registration up to and including   *)
(* finishExecution, or unwinding its deferred wg.Done calls.               *)
OwnerPcs == {"begun", "executing", "finishing", "dequeued", "abandoning"}
HeldPcs  == OwnerPcs \cup {"admitted", "unwinding"}
JobPcs   == HeldPcs \cup {"idle", "fired"}

StopPcs  == {"ready", "cronStopped", "waiting", "clearing",
             "returned", "timedOut"}

IdleJob == [pc |-> "idle", reg |-> None, adds |-> 0, ctx |-> 0]

Registered == {pipelines[p] : p \in Pipelines} \ {None}

(* s.mu is held across the two halves of an update.                        *)
MuFree == updating = None

(* wg.Wait returns when every Add of every goroutine is matched by a Done. *)
WaitGroupZero == \A j \in Jobs : job[j].adds = 0

GoTo(j, pc) == job' = [job EXCEPT ![j].pc = pc]

-----------------------------------------------------------------------------

Init ==
    /\ pipelines = [p \in Pipelines |-> None]
    /\ regPipe = [r \in Regs |-> None]
    /\ running = [r \in Regs |-> FALSE]
    /\ queue = [r \in Regs |-> 0]
    /\ updating = None
    /\ started = FALSE
    /\ epoch = 0
    /\ canceled = {}
    /\ stop = "ready"
    /\ cronRunning = FALSE
    /\ entries = {}
    /\ job = [j \in Jobs |-> IdleJob]
    /\ ticks = 0

(* The tail of Register: a fresh registration, its CRON entry and its      *)
(* place in the map.  `gone' is the CRON entry removed before, if any.     *)
AddRegistration(p, r, gone) ==
    /\ regPipe[r] = None
    /\ regPipe' = [regPipe EXCEPT ![r] = p]
    /\ pipelines' = [pipelines EXCEPT ![p] = r]
    /\ entries' = (entries \ gone) \cup {r}
    /\ UNCHANGED <<running, queue, lifeVars, job, ticks>>

Register(p, r) ==
    /\ MuFree
    /\ pipelines[p] = None
    /\ AddRegistration(p, r, {})
    /\ UNCHANGED updating

(* The id is known: Register reads `running' under the registration's lock *)
(* and returns ErrPipelineRunning, changing nothing, when it is set.  The  *)
(* bound on Regs is tested here, so that a begun update can always end.    *)
RegisterUpdateCheck(p) ==
    /\ MuFree
    /\ \E r \in Regs : regPipe[r] = None
    /\ pipelines[p] # None
    /\ ~running[pipelines[p]]
    /\ updating' = p
    /\ UNCHANGED <<pipelines, regPipe, running, queue, lifeVars, entries,
                   job, ticks>>

RegisterUpdateReplace(p, r) ==
    /\ updating = p
    /\ AddRegistration(p, r, {pipelines[p]})
    /\ updating' = None

Unregister(p) ==
    /\ MuFree
    /\ pipelines[p] # None
    /\ entries' = entries \ {pipelines[p]}
    /\ pipelines' = [pipelines EXCEPT ![p] = None]
    /\ UNCHANGED <<regPipe, running, queue, updating, lifeVars, job, ticks>>

-----------------------------------------------------------------------------

(* Start and Stop are called one after the other by the goroutine that     *)
(* owns the scheduler, as runScheduledPipeline does.                       *)
Start ==
    /\ stop \in {"ready", "returned", "timedOut"}
    /\ MuFree
    /\ ~started
    /\ epoch < MaxStarts
    /\ epoch' = epoch + 1
    /\ started' = TRUE
    /\ stop' = "ready"
    /\ cronRunning' = TRUE
    /\ UNCHANGED <<regVars, canceled, entries, job, ticks>>

StopCron ==
    /\ stop \in {"ready", "returned", "timedOut"}
    /\ cronRunning' = FALSE
    /\ stop' = "cronStopped"
    /\ UNCHANGED <<regVars, started, epoch, canceled, entries, job, ticks>>

(* Fault: Stop forgets to cancel the context.                              *)
StopMark_NoCancel ==
    /\ stop = "cronStopped"
    /\ MuFree
    /\ started' = FALSE
    /\ stop' = "waiting"
    /\ UNCHANGED <<regVars, epoch, canceled, cronRunning, entries, job, ticks>>

(* started = false and s.cancel() under s.mu.  The wait for the CRON jobs  *)
(* that follows ends by a two second timeout and closing stopChan has no   *)
(* reader, so neither constrains what comes next.                          *)
StopMark ==
    /\ stop = "cronStopped"
    /\ MuFree
    /\ started' = FALSE
    /\ canceled' = IF epoch = 0 THEN canceled ELSE canceled \cup {epoch}
    /\ stop' = "waiting"
    /\ UNCHANGED <<regVars, epoch, cronRunning, entries, job, ticks>>

StopWaitDone ==
    /\ stop = "waiting"
    /\ WaitGroupZero
    /\ stop' = "clearing"
    /\ UNCHANGED <<regVars, started, epoch, canceled, cronRunning, entries,
                   job, ticks>>

(* The caller's context expires first: Stop returns its error and neither  *)
(* clears the map nor drains the queues.                                   *)
StopTimeout ==
    /\ stop = "waiting"
    /\ stop' = "timedOut"
    /\ UNCHANGED <<regVars, started, epoch, canceled, cronRunning, entries,
                   job, ticks>>

(* Drain the queues and clear the map.  The CRON table keeps its entries.  *)
StopClear ==
    /\ stop = "clearing"
    /\ MuFree
    /\ queue' = [r \in Regs |-> IF r \in Registered THEN 0 ELSE queue[r]]
    /\ pipelines' = [p \in Pipelines |-> None]
    /\ stop' = "returned"
    /\ UNCHANGED <<regPipe, running, updating, started, epoch, canceled,
                   cronRunning, entries, job, ticks>>

-----------------------------------------------------------------------------

(* The CRON loop starts a goroutine for a due entry.                       *)
CronTick(j, r) ==
    /\ cronRunning
    /\ r \in entries
    /\ job[j].pc = "idle"
    /\ ticks < MaxTicks
    /\ ticks' = ticks + 1
    /\ job' = [job EXCEPT ![j] = [IdleJob EXCEPT !.pc = "fired", !.reg = r]]
    /\ UNCHANGED <<regVars, lifeVars, entries>>

(* Fault: the execution is not counted in the wait group.                  *)
ExecutePipelineAdmit_NoAdd(j) ==
    /\ job[j].pc = "fired"
    /\ MuFree
    /\ job' = [job EXCEPT ![j] =
                 IF started
                 THEN [@ EXCEPT !.pc = "admitted", !.ctx = epoch]
                 ELSE IdleJob]
    /\ UNCHANGED <<regVars, lifeVars, entries, ticks>>

(* executePipeline: `started' and wg.Add under one read lock.              *)
ExecutePipelineAdmit(j) ==
    /\ job[j].pc = "fired"
    /\ MuFree
    /\ job' = [job EXCEPT ![j] =
                 IF started
                 THEN [@ EXCEPT !.pc = "admitted", !.adds = 1, !.ctx = epoch]
                 ELSE IdleJob]
    /\ UNCHANGED <<regVars, lifeVars, entries, ticks>>

(* Fault: a request is queued whether or not the queue has room.           *)
TryStartExecution_Unbounded(j) ==
    LET r == job[j].reg IN
    /\ job[j].pc = "admitted"
    /\ \/ /\ ~running[r]
          /\ running' = [running EXCEPT ![r] = TRUE]
          /\ GoTo(j, "begun")
          /\ UNCHANGED queue
       \/ /\ running[r]
          /\ queue' = [queue EXCEPT ![r] = @ + 1]
          /\ GoTo(j, "unwinding")
          /\ UNCHANGED running
    /\ UNCHANGED <<pipelines, regPipe, updating, lifeVars, entries, ticks>>

(* tryStartExecution: become the owner, or queue the request, or drop it   *)
(* when the queue is full; the last two end with the deferred wg.Done.     *)
TryStartExecution(j) ==
    LET r == job[j].reg IN
    /\ job[j].pc = "admitted"
    /\ \/ /\ ~running[r]
          /\ running' = [running EXCEPT ![r] = TRUE]
          /\ GoTo(j, "begun")
          /\ UNCHANGED queue
       \/ /\ running[r]
          /\ queue' = [queue EXCEPT ![r] =
                         IF @ < QueueCapacity THEN @ + 1 ELSE @]
          /\ GoTo(j, "unwinding")
          /\ UNCHANGED running
    /\ UNCHANGED <<pipelines, regPipe, updating, lifeVars, entries, ticks>>

(* The check of the captured context before doExecutePipeline, in          *)
(* executePipeline and in executeQueuedPipeline alike.                     *)
CheckContext(j) ==
    /\ job[j].pc = "begun"
    /\ GoTo(j, IF job[j].ctx \in canceled THEN "finishing" ELSE "executing")
    /\ UNCHANGED <<regVars, lifeVars, entries, ticks>>

(* doExecutePipeline returns; success and failure are only logged.         *)
DoExecutePipeline(j) ==
    /\ job[j].pc = "executing"
    /\ GoTo(j, "finishing")
    /\ UNCHANGED <<regVars, lifeVars, entries, ticks>>

(* Fault: the flag is cleared although a queued request is taken over.     *)
FinishExecution_ClearsFlag(j) ==
    LET r == job[j].reg IN
    /\ job[j].pc = "finishing"
    /\ running' = [running EXCEPT ![r] = FALSE]
    /\ \/ /\ queue[r] > 0
          /\ queue' = [queue EXCEPT ![r] = @ - 1]
          /\ GoTo(j, "dequeued")
       \/ /\ queue[r] = 0
          /\ GoTo(j, "unwinding")
          /\ UNCHANGED queue
    /\ UNCHANGED <<pipelines, regPipe, updating, lifeVars, entries, ticks>>

(* Fault: the queue is not looked at before the flag is cleared.           *)
FinishExecution_IgnoresQueue(j) ==
    /\ job[j].pc = "finishing"
    /\ running' = [running EXCEPT ![job[j].reg] = FALSE]
    /\ GoTo(j, "unwinding")
    /\ UNCHANGED <<pipelines, regPipe, queue, updating, lifeVars, entries,
                   ticks>>

FinishExecution(j) ==
    LET r == job[j].reg IN
    /\ job[j].pc = "finishing"
    /\ \/ /\ queue[r] > 0
          /\ queue' = [queue EXCEPT ![r] = @ - 1]
          /\ GoTo(j, "dequeued")
          /\ UNCHANGED running
       \/ /\ queue[r] = 0
          /\ running' = [running EXCEPT ![r] = FALSE]
          /\ GoTo(j, "unwinding")
          /\ UNCHANGED queue
    /\ UNCHANGED <<pipelines, regPipe, updating, lifeVars, entries, ticks>>

(* executeQueuedPipeline: a nested wg.Add, or give up when stopped.        *)
ExecuteQueuedPipeline(j) ==
    /\ job[j].pc = "dequeued"
    /\ MuFree
    /\ job' = [job EXCEPT ![j] =
                 IF started
                 THEN [job[j] EXCEPT !.pc = "begun",
                                     !.adds = job[j].adds + 1,
                                     !.ctx = epoch]
                 ELSE [job[j] EXCEPT !.pc = "abandoning"]]
    /\ UNCHANGED <<regVars, lifeVars, entries, ticks>>

(* The stopped branch of executeQueuedPipeline clears `running' only.      *)
AbandonQueue(j) ==
    /\ job[j].pc = "abandoning"
    /\ running' = [running EXCEPT ![job[j].reg] = FALSE]
    /\ GoTo(j, "unwinding")
    /\ UNCHANGED <<pipelines, regPipe, queue, updating, lifeVars, entries,
                   ticks>>

(* Fault: a queued execution does not call its own wg.Done.                *)
Unwind_OneDone(j) ==
    /\ job[j].pc = "unwinding"
    /\ job' = [job EXCEPT ![j] = [IdleJob EXCEPT !.adds = job[j].adds - 1]]
    /\ UNCHANGED <<regVars, lifeVars, entries, ticks>>

(* The deferred wg.Done calls of the nested frames, then the goroutine     *)
(* ends.  Only the last Done can be seen by wg.Wait.                       *)
Unwind(j) ==
    /\ job[j].pc = "unwinding"
    /\ job' = [job EXCEPT ![j] = IdleJob]
    /\ UNCHANGED <<regVars, lifeVars, entries, ticks>>

-----------------------------------------------------------------------------

JobStep(j) ==
    \/ ExecutePipelineAdmit(j)
    \/ TryStartExecution(j)
    \/ CheckContext(j)
    \/ DoExecutePipeline(j)
    \/ FinishExecution(j)
    \/ ExecuteQueuedPipeline(j)
    \/ AbandonQueue(j)
    \/ Unwind(j)

StopStep == StopMark \/ StopWaitDone \/ StopTimeout \/ StopClear

RegisterStep ==
    \E p \in Pipelines :
        \/ \E r \in Regs : Register(p, r) \/ RegisterUpdateReplace(p, r)
        \/ RegisterUpdateCheck(p)
        \/ Unregister(p)

Next ==
    \/ RegisterStep
    \/ Start
    \/ StopCron
    \/ StopStep
    \/ \E j \in Jobs, r \in Regs : CronTick(j, r)
    \/ \E j \in Jobs : JobStep(j)

Spec == Init /\ [][Next]_vars

(* Goroutines and a Stop under way keep running; an execution returns      *)
(* because its context is canceled or its calls time out.  Nothing obliges *)
(* the clock to tick or anyone to call Start, Stop or Register.            *)
FairSpec ==
    /\ Spec
    /\ \A j \in Jobs : WF_vars(JobStep(j))
    /\ WF_vars(StopStep)
    /\ WF_vars(\E p \in Pipelines, r \in Regs : RegisterUpdateReplace(p, r))

-----------------------------------------------------------------------------

JobType == [pc : JobPcs, reg : Regs \cup {None}, adds : Nat, ctx : Nat]

(* Type invariant of the scheduler's and the CRON library's state.         *)
TypeOK ==
    /\ pipelines \in [Pipelines -> Regs \cup {None}]
    /\ regPipe \in [Regs -> Pipelines \cup {None}]
    /\ running \in [Regs -> BOOLEAN]
    /\ queue \in [Regs -> 0..QueueCapacity]
    /\ updating \in Pipelines \cup {None}
    /\ started \in BOOLEAN
    /\ epoch \in 0..MaxStarts
    /\ canceled \in SUBSET (1..MaxStarts)
    /\ stop \in StopPcs
    /\ cronRunning \in BOOLEAN
    /\ entries \in SUBSET Regs
    /\ job \in [Jobs -> JobType]
    /\ ticks \in 0..MaxTicks

Owns(j, r) == job[j].reg = r /\ job[j].pc \in OwnerPcs

(* A registration has at most one owner, and `running' tells whether it    *)
(* has one: tryStartExecution, finishExecution and the stopped branch of   *)
(* executeQueuedPipeline never let two goroutines execute a registration   *)
(* together and never leave the flag stuck with nobody to clear it.        *)
SingleOwner ==
    \A r \in Regs :
        /\ running[r] <=> \E j \in Jobs : Owns(j, r)
        /\ \A j, k \in Jobs : Owns(j, r) /\ Owns(k, r) => j = k

(* Once Stop's wait has returned, nothing is executing or about to: the    *)
(* `started' test and wg.Add happen under one lock acquisition, so no      *)
(* execution can slip past wg.Wait (comment of executePipeline).           *)
StopDrains ==
    stop \in {"clearing", "returned"} =>
        \A j \in Jobs : job[j].pc \in {"idle", "fired"}

(* A queued request always has an owner that will look at the queue again, *)
(* as long as no Stop has interfered: finishExecution empties the queue    *)
(* before it clears `running'.                                             *)
QueuedHasOwner ==
    canceled = {} => \A r \in Regs : queue[r] > 0 => running[r]

(* Who executes a registration is never in doubt: one owner at most, the   *)
(* flag up exactly while there is one, and one whenever work is queued     *)
(* (tryStartExecution, finishExecution).                                   *)
OwnershipIsExact == SingleOwner /\ QueuedHasOwner

(* Between a Stop and the next Start no execution begins, whatever was     *)
(* queued or already admitted: Stop cancels the context every admitted     *)
(* goroutine holds.                                                        *)
NoExecutionAfterStop ==
    [][~started /\ ~started' =>
         \A j \in Jobs : job'[j].pc = "executing" => job[j].pc = "executing"]_vars

(* A Stop under way always comes back, and the executions it found are all *)
(* gone after a while unless the scheduler is started again: canceled      *)
(* contexts keep finishExecution from serving the rest of the queue.       *)
StopWindsDown ==
    (stop = "waiting") ~> (started \/ (WaitGroupZero /\ stop # "waiting"))

(* Every queued request is eventually taken from the queue unless a Stop   *)
(* interferes (TestScheduler_NoStarvation): ticks that keep coming and     *)
(* updates that replace the registration do not starve it.                 *)
QueuedIsServed ==
    \A r \in Regs : queue[r] > 0 ~> (queue[r] = 0 \/ canceled # {})

(* The scheduler neither hangs in Stop nor starves its queue               *)
(* (executeQueuedPipeline, Stop).                                          *)
SchedulerProgress == StopWindsDown /\ QueuedIsServed

=============================================================================
