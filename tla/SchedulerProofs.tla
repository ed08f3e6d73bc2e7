-------------------------- MODULE SchedulerProofs --------------------------
(***************************************************************************)
(* Proofs about Scheduler and ScheduledRun, for every set of pipelines,    *)
(* registrations, goroutines and chains, every queue capacity and every    *)
(* number of starts and ticks.                                             *)
(***************************************************************************)
EXTENDS ScheduledRun, TLAPS

USE SchedulerAssumption DEF SchedulerAssumption

(* The program points of a goroutine fall into disjoint groups.            *)
LEMMA PcsDisjoint ==
    /\ OwnerPcs \subseteq HeldPcs
    /\ HeldPcs \subseteq JobPcs
    /\ {"idle", "fired", "admitted", "unwinding"} \cap OwnerPcs = {}
    /\ {"idle", "fired"} \cap HeldPcs = {}
  BY DEF OwnerPcs, HeldPcs, JobPcs

(* A goroutine that is not running is a well-typed record.                 *)
LEMMA IdleJobType == IdleJob \in JobType
  BY DEF IdleJob, JobType, JobPcs

(* wg.Add and the capture of s.ctx keep a goroutine's record well typed.   *)
LEMMA AdmitType ==
    ASSUME NEW jb \in JobType, NEW e \in Nat, NEW pc \in JobPcs, NEW n \in Nat
    PROVE  [jb EXCEPT !.pc = pc, !.adds = n, !.ctx = e] \in JobType
  BY DEF JobType

(* A new scheduler is well typed.                                          *)
LEMMA InitType == Init => TypeOK
  <1> SUFFICES ASSUME Init PROVE TypeOK
    OBVIOUS
  <1>1. job \in [Jobs -> JobType]
    BY IdleJobType DEF Init
  <1>2. stop \in StopPcs
    BY DEF Init, StopPcs
  <1>3. /\ running \in [Regs -> BOOLEAN]
        /\ started \in BOOLEAN
        /\ cronRunning \in BOOLEAN
    BY Zenon DEF Init
  <1>4. /\ queue \in [Regs -> 0..QueueCapacity]
        /\ epoch \in 0..MaxStarts
        /\ ticks \in 0..MaxTicks
    BY DEF Init
  <1>5. /\ pipelines \in [Pipelines -> Regs \cup {None}]
        /\ regPipe \in [Regs -> Pipelines \cup {None}]
        /\ updating \in Pipelines \cup {None}
        /\ canceled \in SUBSET (1..MaxStarts)
        /\ entries \in SUBSET Regs
    BY DEF Init
  <1> QED
    BY <1>1, <1>2, <1>3, <1>4, <1>5 DEF TypeOK

(* The whole of the scheduler keeps its types: queue lengths never exceed  *)
(* the capacity and never go below zero.                                   *)
LEMMA NextType == TypeOK /\ [Next]_vars => TypeOK'
  <1> SUFFICES ASSUME TypeOK, [Next]_vars PROVE TypeOK'
    OBVIOUS
  <1> USE DEF TypeOK, StopPcs, regVars, lifeVars
  <1>go. ASSUME NEW j \in Jobs, NEW pc \in JobPcs, GoTo(j, pc)
         PROVE  job' \in [Jobs -> JobType]
    BY <1>go DEF GoTo, JobType
  <1>1. ASSUME NEW p \in Pipelines, NEW r \in Regs, Register(p, r)
        PROVE  TypeOK'
    BY <1>1 DEF Register, AddRegistration
  <1>2. ASSUME NEW p \in Pipelines, RegisterUpdateCheck(p)
        PROVE  TypeOK'
    BY <1>2 DEF RegisterUpdateCheck
  <1>3. ASSUME NEW p \in Pipelines, NEW r \in Regs, RegisterUpdateReplace(p, r)
        PROVE  TypeOK'
    BY <1>3 DEF RegisterUpdateReplace, AddRegistration
  <1>4. ASSUME NEW p \in Pipelines, Unregister(p)
        PROVE  TypeOK'
    BY <1>4 DEF Unregister
  <1>5. CASE Start
    BY <1>5 DEF Start
  <1>6. CASE StopCron
    BY <1>6 DEF StopCron
  <1>7. CASE StopMark
    <2>1. canceled' \in SUBSET (1..MaxStarts)
      BY <1>7 DEF StopMark
    <2> QED
      BY <1>7, <2>1 DEF StopMark
  <1>8. CASE StopWaitDone
    BY <1>8 DEF StopWaitDone
  <1>9. CASE StopTimeout
    BY <1>9 DEF StopTimeout
  <1>10. CASE StopClear
    BY <1>10 DEF StopClear
  <1>11. ASSUME NEW j \in Jobs, NEW r \in Regs, CronTick(j, r)
         PROVE  TypeOK'
    <2>1. [IdleJob EXCEPT !.pc = "fired", !.reg = r] \in JobType
      BY DEF IdleJob, JobType, JobPcs
    <2>2. job' \in [Jobs -> JobType]
      BY <1>11, <2>1 DEF CronTick
    <2>3. ticks' \in 0..MaxTicks
      BY <1>11 DEF CronTick
    <2> QED
      BY <1>11, <2>2, <2>3 DEF CronTick
  <1>12. ASSUME NEW j \in Jobs, ExecutePipelineAdmit(j)
         PROVE  TypeOK'
    <2>0. job[j] \in JobType /\ epoch \in Nat
      OBVIOUS
    <2>1. [job[j] EXCEPT !.pc = "admitted", !.adds = 1, !.ctx = epoch]
            \in JobType
      BY <2>0, AdmitType DEF JobPcs, HeldPcs
    <2>2. job' \in [Jobs -> JobType]
      BY <1>12, <2>1, IdleJobType DEF ExecutePipelineAdmit
    <2> QED
      BY <1>12, <2>2 DEF ExecutePipelineAdmit
  <1>13. ASSUME NEW j \in Jobs, TryStartExecution(j)
         PROVE  TypeOK'
    <2>1. job' \in [Jobs -> JobType]
      BY <1>13, <1>go DEF TryStartExecution, JobPcs, HeldPcs, OwnerPcs
    <2>2. job[j].reg \in Regs \cup {None}
      BY DEF JobType
    <2>3. queue' \in [Regs -> 0..QueueCapacity]
      BY <1>13, <2>2 DEF TryStartExecution
    <2>4. running' \in [Regs -> BOOLEAN]
      BY <1>13, <2>2 DEF TryStartExecution
    <2> QED
      BY <1>13, <2>1, <2>3, <2>4 DEF TryStartExecution
  <1>14. ASSUME NEW j \in Jobs, CheckContext(j)
         PROVE  TypeOK'
    BY <1>14, <1>go DEF CheckContext, JobPcs, HeldPcs, OwnerPcs
  <1>15. ASSUME NEW j \in Jobs, DoExecutePipeline(j)
         PROVE  TypeOK'
    BY <1>15, <1>go DEF DoExecutePipeline, JobPcs, HeldPcs, OwnerPcs
  <1>16. ASSUME NEW j \in Jobs, FinishExecution(j)
         PROVE  TypeOK'
    <2>1. job' \in [Jobs -> JobType]
      BY <1>16, <1>go DEF FinishExecution, JobPcs, HeldPcs, OwnerPcs
    <2>2. job[j].reg \in Regs \cup {None}
      BY DEF JobType
    <2>3. queue' \in [Regs -> 0..QueueCapacity]
      BY <1>16, <2>2 DEF FinishExecution
    <2>4. running' \in [Regs -> BOOLEAN]
      BY <1>16, <2>2 DEF FinishExecution
    <2> QED
      BY <1>16, <2>1, <2>3, <2>4 DEF FinishExecution
  <1>17. ASSUME NEW j \in Jobs, ExecuteQueuedPipeline(j)
         PROVE  TypeOK'
    <2>0. job[j] \in JobType /\ epoch \in Nat
      OBVIOUS
    <2>1. CASE started
      <3>1. job' = [job EXCEPT ![j] = [job[j] EXCEPT !.pc = "begun",
                                          !.adds = job[j].adds + 1, !.ctx = epoch]]
        BY <1>17, <2>0, <2>1 DEF ExecuteQueuedPipeline, JobType
      <3>2. job[j].adds + 1 \in Nat /\ "begun" \in JobPcs
        BY <2>0 DEF JobType, JobPcs, HeldPcs, OwnerPcs
      <3>3. [job[j] EXCEPT !.pc = "begun", !.adds = job[j].adds + 1,
                           !.ctx = epoch] \in JobType
        BY <2>0, <3>2, AdmitType
      <3>4. job' \in [Jobs -> JobType]
        BY <3>1, <3>3
      <3> QED
        BY <1>17, <3>4 DEF ExecuteQueuedPipeline
    <2>2. CASE ~started
      <3>1. GoTo(j, "abandoning")
        BY <1>17, <2>2 DEF ExecuteQueuedPipeline, GoTo
      <3> QED
        BY <1>17, <1>go, <3>1
           DEF ExecuteQueuedPipeline, JobPcs, HeldPcs, OwnerPcs
    <2> QED
      BY <2>1, <2>2
  <1>18. ASSUME NEW j \in Jobs, AbandonQueue(j)
         PROVE  TypeOK'
    <2>1. job' \in [Jobs -> JobType]
      BY <1>18, <1>go DEF AbandonQueue, JobPcs, HeldPcs
    <2> QED
      BY <1>18, <2>1 DEF AbandonQueue
  <1>19. ASSUME NEW j \in Jobs, Unwind(j)
         PROVE  TypeOK'
    BY <1>19, IdleJobType DEF Unwind
  <1>20. CASE UNCHANGED vars
    BY <1>20 DEF vars
  <1> QED
    BY <1>1, <1>2, <1>3, <1>4, <1>5, <1>6, <1>7, <1>8, <1>9, <1>10, <1>11,
       <1>12, <1>13, <1>14, <1>15, <1>16, <1>17, <1>18, <1>19, <1>20
       DEF Next, RegisterStep, StopStep, JobStep

(* The scheduler's state is always well typed: in particular no sequence   *)
(* of ticks overfills or underflows a registration's queue.                *)
THEOREM SchedulerType == Spec => []TypeOK
  BY InitType, NextType, PTL DEF Spec

-----------------------------------------------------------------------------

(* What the lifecycle needs: a goroutine holds the wait group exactly      *)
(* while it is between wg.Add and its last wg.Done, its context was made   *)
(* by some Start, every context but the current one is canceled, and the   *)
(* current one is too whenever the scheduler is not started.               *)
HeldAt(j) ==
    /\ job[j].pc \in HeldPcs <=> job[j].adds > 0
    /\ job[j].pc # "idle" => job[j].reg \in Regs
    /\ job[j].pc \in HeldPcs => job[j].ctx \in 1..epoch

HeldInv == \A j \in Jobs : HeldAt(j)

ContextInv ==
    /\ \A e \in 1..epoch : e = epoch \/ e \in canceled
    /\ ~started /\ epoch > 0 => epoch \in canceled
    /\ started => epoch > 0

StopInv ==
    /\ stop \in {"waiting", "clearing", "returned", "timedOut"} => ~started
    /\ StopDrains

AbandonInv == \A j \in Jobs : job[j].pc = "abandoning" => canceled # {}

IInv == /\ TypeOK
        /\ SingleOwner
        /\ HeldInv
        /\ ContextInv
        /\ StopInv
        /\ AbandonInv
        /\ QueuedHasOwner

(* A new scheduler satisfies the inductive invariant.                      *)
LEMMA InitIInv == Init => IInv
  <1> SUFFICES ASSUME Init PROVE IInv
    OBVIOUS
  <1>0. \A j \in Jobs : job[j] = IdleJob
    BY DEF Init
  <1>1. HeldInv /\ AbandonInv
    BY <1>0 DEF HeldInv, HeldAt, AbandonInv, IdleJob, HeldPcs, OwnerPcs
  <1>2. SingleOwner
    BY <1>0 DEF SingleOwner, Owns, IdleJob, OwnerPcs, Init
  <1>3. ContextInv /\ StopInv
    BY DEF ContextInv, StopInv, StopDrains, Init
  <1>4. QueuedHasOwner
    BY DEF QueuedHasOwner, Init
  <1> QED
    BY <1>1, <1>2, <1>3, <1>4, InitType DEF IInv

(* A step that moves one goroutine j and neither gives it nor takes from   *)
(* it a registration, and leaves the flags alone, preserves SingleOwner.   *)
LEMMA SameOwners ==
    ASSUME SingleOwner, running' = running,
           \A k \in Jobs, r \in Regs : Owns(k, r)' <=> Owns(k, r)
    PROVE  SingleOwner'
  BY DEF SingleOwner

(* Owners before and after a step that only rewrites goroutine j.          *)
LEMMA OthersKeep ==
    ASSUME TypeOK, NEW j \in Jobs, NEW v, job' = [job EXCEPT ![j] = v]
    PROVE  /\ \A k \in Jobs \ {j} : job'[k] = job[k]
           /\ job'[j] = v
  BY DEF TypeOK

(* GoTo moves one goroutine and changes nothing else of it.                *)
LEMMA GoToKeeps ==
    ASSUME TypeOK, NEW j \in Jobs, NEW pc, GoTo(j, pc)
    PROVE  /\ \A k \in Jobs \ {j} : job'[k] = job[k]
           /\ job'[j].pc = pc
           /\ job'[j].reg = job[j].reg
           /\ job'[j].adds = job[j].adds
           /\ job'[j].ctx = job[j].ctx
  BY DEF TypeOK, JobType, GoTo

(* A step that touches neither the goroutines, the flags, the queues nor   *)
(* the lifecycle (the registration calls) keeps the invariant.             *)
LEMMA FrameIInv ==
    ASSUME IInv, TypeOK',
           UNCHANGED <<running, queue, started, epoch, canceled, stop, job>>
    PROVE  IInv'
  BY DEF IInv, TypeOK, SingleOwner, Owns, HeldInv, HeldAt, ContextInv, StopInv,
         StopDrains, AbandonInv, QueuedHasOwner

(* A step that rewrites goroutine j alone and leaves the lifecycle alone   *)
(* keeps the parts of the invariant that concern goroutines one by one,    *)
(* when goroutine j satisfies them afterwards.                             *)
LEMMA OneGoroutine ==
    ASSUME IInv, NEW j \in Jobs,
           \A k \in Jobs \ {j} : job'[k] = job[k],
           UNCHANGED <<started, epoch, canceled, stop>>,
           HeldAt(j)',
           job'[j].pc \in {"idle", "fired"} \/ job[j].pc \in HeldPcs \/ started,
           job'[j].pc = "abandoning" => canceled # {}
    PROVE  HeldInv' /\ ContextInv' /\ StopInv' /\ AbandonInv'
  <1>1. HeldInv'
    <2>1. ASSUME NEW k \in Jobs \ {j} PROVE HeldAt(k)'
      BY DEF IInv, HeldInv, HeldAt
    <2> QED
      BY <2>1 DEF HeldInv
  <1>2. ContextInv'
    BY DEF IInv, ContextInv
  <1>3. StopInv'
    BY PcsDisjoint DEF IInv, StopInv, StopDrains
  <1>4. AbandonInv'
    BY DEF IInv, AbandonInv
  <1> QED
    BY <1>1, <1>2, <1>3, <1>4

(* Every step of the scheduler keeps the inductive invariant.              *)
LEMMA NextIInv == IInv /\ [Next]_vars => IInv'
  <1> SUFFICES ASSUME IInv, [Next]_vars PROVE IInv'
    OBVIOUS
  <1>t. TypeOK /\ TypeOK'
    BY NextType DEF IInv
  <1> USE DEF regVars, lifeVars
  <1>1. CASE RegisterStep
    <2>1. UNCHANGED <<running, queue, started, epoch, canceled, stop, job>>
      BY <1>1 DEF RegisterStep, Register, RegisterUpdateCheck,
                  RegisterUpdateReplace, Unregister, AddRegistration
    <2> QED
      BY <1>t, <2>1, FrameIInv
  <1>2. CASE Start
    <2>0. epoch \in Nat /\ epoch' = epoch + 1
      BY <1>t, <1>2 DEF Start, TypeOK
    <2>1. SingleOwner' /\ AbandonInv' /\ QueuedHasOwner'
      BY <1>2 DEF Start, IInv, SingleOwner, Owns, AbandonInv, QueuedHasOwner
    <2>2. HeldInv'
      BY <1>2, <2>0 DEF Start, IInv, HeldInv, HeldAt
    <2>3. ContextInv'
      BY <1>2, <2>0 DEF Start, IInv, ContextInv
    <2>4. StopInv'
      BY <1>2 DEF Start, StopInv, StopDrains
    <2> QED
      BY <1>t, <2>1, <2>2, <2>3, <2>4 DEF IInv
  <1>3. CASE StopCron
    BY <1>t, <1>3 DEF StopCron, IInv, SingleOwner, Owns, HeldInv, HeldAt, ContextInv,
                      StopInv, StopDrains, AbandonInv, QueuedHasOwner
  <1>4. CASE StopMark
    <2>0. epoch \in Nat
      BY <1>t DEF TypeOK
    <2>1. SingleOwner' /\ HeldInv'
      BY <1>4 DEF StopMark, IInv, SingleOwner, Owns, HeldInv, HeldAt
    <2>2. ContextInv'
      BY <1>4, <2>0 DEF StopMark, IInv, ContextInv
    <2>3. StopInv'
      BY <1>4 DEF StopMark, StopInv, StopDrains
    <2>4. AbandonInv' /\ QueuedHasOwner'
      BY <1>4 DEF StopMark, IInv, AbandonInv, QueuedHasOwner
    <2> QED
      BY <1>t, <2>1, <2>2, <2>3, <2>4 DEF IInv
  <1>5. CASE StopWaitDone
    <2>1. SingleOwner' /\ HeldInv' /\ ContextInv' /\ AbandonInv' /\ QueuedHasOwner'
      BY <1>5 DEF StopWaitDone, IInv, SingleOwner, Owns, HeldInv, HeldAt, ContextInv,
                  AbandonInv, QueuedHasOwner
    <2>2. \A j \in Jobs : job[j].pc \in JobPcs \ HeldPcs
      BY <1>t, <1>5 DEF StopWaitDone, WaitGroupZero, IInv, HeldInv, HeldAt, TypeOK,
                        JobType
    <2>3. StopInv'
      BY <1>5, <2>2 DEF StopWaitDone, IInv, StopInv, StopDrains, JobPcs
    <2> QED
      BY <1>t, <2>1, <2>3 DEF IInv
  <1>6. CASE StopTimeout
    BY <1>t, <1>6 DEF StopTimeout, IInv, SingleOwner, Owns, HeldInv, HeldAt,
                      ContextInv, StopInv, StopDrains, AbandonInv,
                      QueuedHasOwner
  <1>7. CASE StopClear
    <2>1. SingleOwner' /\ HeldInv' /\ ContextInv' /\ AbandonInv'
      BY <1>7 DEF StopClear, IInv, SingleOwner, Owns, HeldInv, HeldAt, ContextInv,
                  AbandonInv
    <2>2. StopInv'
      BY <1>7 DEF StopClear, IInv, StopInv, StopDrains
    <2>3. QueuedHasOwner'
      BY <1>7 DEF StopClear, IInv, QueuedHasOwner
    <2> QED
      BY <1>t, <2>1, <2>2, <2>3 DEF IInv
  <1>8. ASSUME NEW j \in Jobs, NEW r \in Regs, CronTick(j, r)
        PROVE  IInv'
    <2>1. /\ \A k \in Jobs \ {j} : job'[k] = job[k]
          /\ job'[j] = [IdleJob EXCEPT !.pc = "fired", !.reg = r]
          /\ job[j].pc = "idle"
          /\ UNCHANGED <<running, queue, lifeVars>>
      BY <1>8, <1>t, OthersKeep DEF CronTick
    <2>2. /\ job'[j].pc = "fired"
          /\ job'[j].reg = r
          /\ job'[j].adds = 0
      BY <2>1 DEF IdleJob
    <2>3. SingleOwner'
      BY <2>1, <2>2, SameOwners DEF IInv, Owns, OwnerPcs
    <2>h. HeldAt(j)'
      BY <2>2, PcsDisjoint DEF HeldAt
    <2>4. HeldInv' /\ ContextInv' /\ StopInv' /\ AbandonInv'
      BY <2>1, <2>2, <2>h, OneGoroutine
    <2>5. QueuedHasOwner'
      BY <2>1 DEF IInv, QueuedHasOwner
    <2> QED
      BY <1>t, <2>3, <2>4, <2>5 DEF IInv
  <1>9. ASSUME NEW j \in Jobs, ExecutePipelineAdmit(j)
        PROVE  IInv'
    <2>1. /\ \A k \in Jobs \ {j} : job'[k] = job[k]
          /\ job'[j] = IF started
                       THEN [job[j] EXCEPT !.pc = "admitted", !.adds = 1,
                                           !.ctx = epoch]
                       ELSE IdleJob
          /\ job[j].pc = "fired"
          /\ UNCHANGED <<running, queue, lifeVars>>
      BY <1>9, <1>t DEF ExecutePipelineAdmit, TypeOK
    <2>2. /\ job[j] \in JobType
          /\ job[j].reg \in Regs
          /\ epoch \in Nat
      BY <1>t, <2>1 DEF TypeOK, IInv, HeldInv, HeldAt
    <2>3. QueuedHasOwner'
      BY <2>1 DEF IInv, QueuedHasOwner
    <2>4. CASE started
      <3>1. /\ job'[j].pc = "admitted"
            /\ job'[j].reg = job[j].reg
            /\ job'[j].adds = 1
            /\ job'[j].ctx = epoch
        BY <2>1, <2>2, <2>4 DEF JobType
      <3>2. epoch \in 1..epoch'
        BY <2>1, <2>2, <2>4 DEF IInv, ContextInv
      <3>3. HeldAt(j)'
        BY <2>2, <3>1, <3>2 DEF HeldAt, HeldPcs
      <3>4. SingleOwner'
        BY <2>1, <3>1, SameOwners DEF IInv, Owns, OwnerPcs
      <3> QED
        BY <1>t, <2>1, <2>3, <2>4, <3>1, <3>3, <3>4, OneGoroutine DEF IInv
    <2>5. CASE ~started
      <3>1. /\ job'[j].pc = "idle"
            /\ job'[j].adds = 0
        BY <2>1, <2>5 DEF IdleJob
      <3>2. HeldAt(j)'
        BY <3>1, PcsDisjoint DEF HeldAt
      <3>3. SingleOwner'
        BY <2>1, <3>1, SameOwners DEF IInv, Owns, OwnerPcs
      <3> QED
        BY <1>t, <2>1, <2>3, <3>1, <3>2, <3>3, OneGoroutine DEF IInv
    <2> QED
      BY <2>4, <2>5
  <1>go. ASSUME NEW j \in Jobs, NEW pc \in HeldPcs, GoTo(j, pc),
                job[j].pc \in HeldPcs,
                pc = "abandoning" => canceled # {},
                UNCHANGED <<started, epoch, canceled, stop>>
         PROVE  HeldInv' /\ ContextInv' /\ StopInv' /\ AbandonInv'
    <2>1. /\ \A k \in Jobs \ {j} : job'[k] = job[k]
          /\ job'[j].pc = pc
          /\ job'[j].reg = job[j].reg
          /\ job'[j].adds = job[j].adds
          /\ job'[j].ctx = job[j].ctx
      BY <1>t, <1>go, GoToKeeps
    <2>2. HeldAt(j)'
      BY <1>go, <2>1, PcsDisjoint DEF IInv, HeldInv, HeldAt
    <2> QED
      BY <1>go, <2>1, <2>2, OneGoroutine
  <1>10. ASSUME NEW j \in Jobs, TryStartExecution(j)
         PROVE  IInv'
    <2> DEFINE r == job[j].reg
    <2>0. /\ job[j].pc = "admitted"
          /\ r \in Regs
          /\ UNCHANGED <<started, epoch, canceled, stop>>
      BY <1>10 DEF TryStartExecution, IInv, HeldInv, HeldAt
    <2>1. CASE ~running[r] /\ running' = [running EXCEPT ![r] = TRUE]
               /\ GoTo(j, "begun") /\ UNCHANGED queue
      <3>1. HeldInv' /\ ContextInv' /\ StopInv' /\ AbandonInv'
        BY <1>go, <2>0, <2>1 DEF HeldPcs, OwnerPcs
      <3>2. /\ \A k \in Jobs \ {j} : job'[k] = job[k]
            /\ job'[j].pc = "begun"
            /\ job'[j].reg = r
        BY <1>t, <2>1, GoToKeeps
      <3>3. running'[r] /\ \A q \in Regs \ {r} : running'[q] = running[q]
        BY <1>t, <2>0, <2>1 DEF TypeOK
      <3>4. SingleOwner'
        BY <2>0, <2>1, <3>2, <3>3 DEF IInv, SingleOwner, Owns, OwnerPcs
      <3>5. QueuedHasOwner'
        BY <2>0, <2>1, <3>3 DEF IInv, QueuedHasOwner
      <3> QED
        BY <1>t, <3>1, <3>4, <3>5 DEF IInv
    <2>2. CASE running[r] /\ GoTo(j, "unwinding") /\ UNCHANGED running
               /\ queue' = [queue EXCEPT ![r] =
                              IF @ < QueueCapacity THEN @ + 1 ELSE @]
      <3>1. HeldInv' /\ ContextInv' /\ StopInv' /\ AbandonInv'
        BY <1>go, <2>0, <2>2 DEF HeldPcs, OwnerPcs
      <3>2. /\ \A k \in Jobs \ {j} : job'[k] = job[k]
            /\ job'[j].pc = "unwinding"
        BY <1>t, <2>2, GoToKeeps
      <3>3. SingleOwner'
        BY <2>0, <2>2, <3>2, SameOwners DEF IInv, Owns, OwnerPcs
      <3>4. \A q \in Regs \ {r} : queue'[q] = queue[q]
        BY <1>t, <2>2 DEF TypeOK
      <3>5. QueuedHasOwner'
        BY <2>0, <2>2, <3>4 DEF IInv, QueuedHasOwner
      <3> QED
        BY <1>t, <3>1, <3>3, <3>5 DEF IInv
    <2> QED
      BY <1>10, <2>1, <2>2 DEF TryStartExecution
  <1>own. ASSUME NEW j \in Jobs, NEW pc \in OwnerPcs, GoTo(j, pc),
                 job[j].pc \in OwnerPcs, UNCHANGED running
          PROVE  SingleOwner'
    <2>1. /\ \A k \in Jobs \ {j} : job'[k] = job[k]
          /\ job'[j].pc = pc
          /\ job'[j].reg = job[j].reg
      BY <1>t, <1>own, GoToKeeps
    <2> QED
      BY <1>own, <2>1, SameOwners DEF IInv, Owns
  <1>11. ASSUME NEW j \in Jobs, CheckContext(j) \/ DoExecutePipeline(j)
         PROVE  IInv'
    <2>1. PICK pc \in {"executing", "finishing"} : GoTo(j, pc)
      BY <1>11 DEF CheckContext, DoExecutePipeline
    <2>2. /\ job[j].pc \in {"begun", "executing"}
          /\ UNCHANGED <<running, queue, lifeVars>>
      BY <1>11 DEF CheckContext, DoExecutePipeline
    <2>3. HeldInv' /\ ContextInv' /\ StopInv' /\ AbandonInv'
      BY <1>go, <2>1, <2>2 DEF HeldPcs, OwnerPcs
    <2>4. SingleOwner'
      BY <1>own, <2>1, <2>2 DEF OwnerPcs
    <2>5. QueuedHasOwner'
      BY <2>2 DEF IInv, QueuedHasOwner
    <2> QED
      BY <1>t, <2>3, <2>4, <2>5 DEF IInv
  <1>rel. ASSUME NEW j \in Jobs, job[j].pc \in OwnerPcs, job[j].reg \in Regs,
                 GoTo(j, "unwinding"),
                 running' = [running EXCEPT ![job[j].reg] = FALSE]
          PROVE  SingleOwner'
    <2>1. /\ \A k \in Jobs \ {j} : job'[k] = job[k]
          /\ job'[j].pc = "unwinding"
      BY <1>t, <1>rel, GoToKeeps
    <2>2. /\ ~running'[job[j].reg]
          /\ \A q \in Regs \ {job[j].reg} : running'[q] = running[q]
      BY <1>t, <1>rel DEF TypeOK
    <2>3. "unwinding" \notin OwnerPcs
      BY PcsDisjoint
    <2> QED
      BY <1>rel, <2>1, <2>2, <2>3 DEF IInv, SingleOwner, Owns
  <1>12. ASSUME NEW j \in Jobs, FinishExecution(j)
         PROVE  IInv'
    <2> DEFINE r == job[j].reg
    <2>0. /\ job[j].pc = "finishing"
          /\ r \in Regs
          /\ UNCHANGED <<started, epoch, canceled, stop>>
      BY <1>12 DEF FinishExecution, IInv, HeldInv, HeldAt
    <2>1. CASE queue[r] > 0 /\ queue' = [queue EXCEPT ![r] = @ - 1]
               /\ GoTo(j, "dequeued") /\ UNCHANGED running
      <3>1. HeldInv' /\ ContextInv' /\ StopInv' /\ AbandonInv'
        BY <1>go, <2>0, <2>1 DEF HeldPcs, OwnerPcs
      <3>2. SingleOwner'
        BY <1>own, <2>0, <2>1 DEF OwnerPcs
      <3>3. \A q \in Regs \ {r} : queue'[q] = queue[q]
        BY <1>t, <2>1 DEF TypeOK
      <3>4. QueuedHasOwner'
        BY <2>0, <2>1, <3>3 DEF IInv, QueuedHasOwner
      <3> QED
        BY <1>t, <3>1, <3>2, <3>4 DEF IInv
    <2>2. CASE queue[r] = 0 /\ running' = [running EXCEPT ![r] = FALSE]
               /\ GoTo(j, "unwinding") /\ UNCHANGED queue
      <3>1. HeldInv' /\ ContextInv' /\ StopInv' /\ AbandonInv'
        BY <1>go, <2>0, <2>2 DEF HeldPcs, OwnerPcs
      <3>2. SingleOwner'
        BY <1>rel, <2>0, <2>2 DEF OwnerPcs
      <3>3. \A q \in Regs \ {r} : running'[q] = running[q]
        BY <1>t, <2>2 DEF TypeOK
      <3>4. QueuedHasOwner'
        BY <2>0, <2>2, <3>3 DEF IInv, QueuedHasOwner
      <3> QED
        BY <1>t, <3>1, <3>2, <3>4 DEF IInv
    <2> QED
      BY <1>12, <2>1, <2>2 DEF FinishExecution
  <1>13. ASSUME NEW j \in Jobs, ExecuteQueuedPipeline(j)
         PROVE  IInv'
    <2>1. /\ job[j].pc = "dequeued"
          /\ UNCHANGED <<running, queue, lifeVars>>
      BY <1>13 DEF ExecuteQueuedPipeline
    <2>2. /\ job[j] \in JobType
          /\ job[j].reg \in Regs
          /\ job[j].ctx \in 1..epoch
          /\ epoch \in Nat
      BY <1>t, <2>1 DEF TypeOK, IInv, HeldInv, HeldAt, HeldPcs, OwnerPcs
    <2>3. QueuedHasOwner'
      BY <2>1 DEF IInv, QueuedHasOwner
    <2>4. CASE started
      <3>1. job' = [job EXCEPT ![j] = [job[j] EXCEPT !.pc = "begun",
                                          !.adds = job[j].adds + 1, !.ctx = epoch]]
        BY <1>13, <2>2, <2>4 DEF ExecuteQueuedPipeline
      <3>2. /\ \A k \in Jobs \ {j} : job'[k] = job[k]
            /\ job'[j] = [job[j] EXCEPT !.pc = "begun",
                                        !.adds = job[j].adds + 1, !.ctx = epoch]
        BY <1>t, <3>1, OthersKeep
      <3>3. /\ job'[j].pc = "begun"
            /\ job'[j].reg = job[j].reg
            /\ job'[j].adds = job[j].adds + 1
            /\ job'[j].ctx = epoch
        BY <2>2, <3>2 DEF JobType
      <3>4. job[j].adds + 1 > 0 /\ epoch \in 1..epoch
        BY <2>2 DEF JobType
      <3>5. HeldAt(j)'
        BY <2>1, <2>2, <3>3, <3>4 DEF HeldAt, HeldPcs, OwnerPcs
      <3>6. SingleOwner'
        BY <2>1, <3>2, <3>3, SameOwners DEF IInv, Owns, OwnerPcs
      <3> QED
        BY <1>t, <2>1, <2>3, <2>4, <3>2, <3>3, <3>5, <3>6, OneGoroutine DEF IInv
    <2>5. CASE ~started
      <3>1. GoTo(j, "abandoning")
        BY <1>13, <2>5 DEF ExecuteQueuedPipeline, GoTo
      <3>2. canceled # {}
        BY <2>2, <2>5 DEF IInv, ContextInv
      <3>3. HeldInv' /\ ContextInv' /\ StopInv' /\ AbandonInv'
        BY <1>go, <2>1, <3>1, <3>2 DEF HeldPcs, OwnerPcs
      <3>4. SingleOwner'
        BY <1>own, <2>1, <3>1 DEF OwnerPcs
      <3> QED
        BY <1>t, <2>3, <3>3, <3>4 DEF IInv
    <2> QED
      BY <2>4, <2>5
  <1>14. ASSUME NEW j \in Jobs, AbandonQueue(j)
         PROVE  IInv'
    <2>1. /\ job[j].pc = "abandoning"
          /\ job[j].reg \in Regs
          /\ GoTo(j, "unwinding")
          /\ running' = [running EXCEPT ![job[j].reg] = FALSE]
          /\ UNCHANGED <<queue, lifeVars>>
      BY <1>14 DEF AbandonQueue, IInv, HeldInv, HeldAt
    <2>2. HeldInv' /\ ContextInv' /\ StopInv' /\ AbandonInv'
      BY <1>go, <2>1 DEF HeldPcs, OwnerPcs
    <2>3. SingleOwner'
      BY <1>rel, <2>1 DEF OwnerPcs
    <2>4. QueuedHasOwner'
      BY <2>1 DEF IInv, AbandonInv, QueuedHasOwner
    <2> QED
      BY <1>t, <2>2, <2>3, <2>4 DEF IInv
  <1>15. ASSUME NEW j \in Jobs, Unwind(j)
         PROVE  IInv'
    <2>1. /\ \A k \in Jobs \ {j} : job'[k] = job[k]
          /\ job'[j] = IdleJob
          /\ job[j].pc = "unwinding"
          /\ UNCHANGED <<running, queue, lifeVars>>
      BY <1>15, <1>t, OthersKeep DEF Unwind
    <2>2. job'[j].pc = "idle" /\ job'[j].adds = 0
      BY <2>1 DEF IdleJob
    <2>3. HeldAt(j)'
      BY <2>2, PcsDisjoint DEF HeldAt
    <2>4. HeldInv' /\ ContextInv' /\ StopInv' /\ AbandonInv'
      BY <2>1, <2>2, <2>3, OneGoroutine
    <2>5. SingleOwner'
      BY <2>1, <2>2, SameOwners DEF IInv, Owns, OwnerPcs
    <2>6. QueuedHasOwner'
      BY <2>1 DEF IInv, QueuedHasOwner
    <2> QED
      BY <1>t, <2>4, <2>5, <2>6 DEF IInv
  <1>16. CASE UNCHANGED vars
    BY <1>t, <1>16, FrameIInv DEF vars
  <1> QED
    BY <1>1, <1>2, <1>3, <1>4, <1>5, <1>6, <1>7, <1>8, <1>9, <1>10, <1>11,
       <1>12, <1>13, <1>14, <1>15, <1>16 DEF Next, StopStep, JobStep

-----------------------------------------------------------------------------

(* The inductive invariant holds in every reachable state.                 *)
LEMMA SchedulerIInv == Spec => []IInv
  BY InitIInv, NextIInv, PTL DEF Spec

(* tryStartExecution, finishExecution and executeQueuedPipeline never let  *)
(* two goroutines own a registration, `running' is never stuck, and unless *)
(* a Stop interfered no queued request is left without an owner.           *)
THEOREM SchedulerOwnership == Spec => []OwnershipIsExact
  <1>1. IInv => OwnershipIsExact
    BY DEF IInv, OwnershipIsExact
  <1> QED
    BY <1>1, SchedulerIInv, PTL

(* When Stop's wait has returned no goroutine is executing or about to.    *)
THEOREM SchedulerStopDrains == Spec => []StopDrains
  BY SchedulerIInv, PTL DEF IInv, StopInv

(* While the scheduler is stopped, an admitted goroutine holds a canceled  *)
(* context, so no step enters doExecutePipeline.                           *)
LEMMA StoppedStep ==
    ASSUME IInv, [Next]_vars, ~started, NEW j \in Jobs,
           job'[j].pc = "executing"
    PROVE  job[j].pc = "executing"
  <1> USE DEF regVars, lifeVars
  <1>t. TypeOK
    BY DEF IInv
  <1>1. ASSUME NEW k \in Jobs, NEW v, job' = [job EXCEPT ![k] = v],
               v.pc # "executing"
        PROVE  job[j].pc = "executing"
    BY <1>t, <1>1, OthersKeep
  <1>2. ASSUME NEW k \in Jobs, NEW pc, GoTo(k, pc), pc # "executing"
        PROVE  job[j].pc = "executing"
    BY <1>t, <1>2, GoToKeeps
  <1>3. ASSUME NEW k \in Jobs, JobStep(k)
        PROVE  job[j].pc = "executing"
    <2>1. CASE ExecutePipelineAdmit(k)
      <3>1. job' = [job EXCEPT ![k] = IdleJob]
        BY <2>1 DEF ExecutePipelineAdmit
      <3> QED
        BY <1>1, <3>1 DEF IdleJob
    <2>2. CASE TryStartExecution(k)
      BY <1>2, <2>2 DEF TryStartExecution
    <2>3. CASE CheckContext(k)
      <3>1. job[k].ctx \in 1..epoch /\ epoch \in Nat
        BY <1>t, <2>3 DEF CheckContext, IInv, HeldInv, HeldAt, HeldPcs,
                          OwnerPcs, TypeOK
      <3>2. job[k].ctx \in canceled
        BY <3>1 DEF IInv, ContextInv
      <3> QED
        BY <1>2, <2>3, <3>2 DEF CheckContext
    <2>4. CASE DoExecutePipeline(k)
      BY <1>2, <2>4 DEF DoExecutePipeline
    <2>5. CASE FinishExecution(k)
      BY <1>2, <2>5 DEF FinishExecution
    <2>6. CASE ExecuteQueuedPipeline(k)
      <3>1. GoTo(k, "abandoning")
        BY <2>6 DEF ExecuteQueuedPipeline, GoTo
      <3> QED
        BY <1>2, <3>1
    <2>7. CASE AbandonQueue(k)
      BY <1>2, <2>7 DEF AbandonQueue
    <2>8. CASE Unwind(k)
      BY <1>1, <2>8 DEF Unwind, IdleJob
    <2> QED
      BY <1>3, <2>1, <2>2, <2>3, <2>4, <2>5, <2>6, <2>7, <2>8 DEF JobStep
  <1>4. ASSUME NEW k \in Jobs, NEW r \in Regs, CronTick(k, r)
        PROVE  job[j].pc = "executing"
    BY <1>1, <1>4 DEF CronTick, IdleJob
  <1>5. CASE RegisterStep \/ Start \/ StopCron \/ StopStep \/ UNCHANGED vars
    BY <1>5 DEF RegisterStep, Register, RegisterUpdateCheck,
                RegisterUpdateReplace, Unregister, AddRegistration, Start,
                StopCron, StopStep, StopMark, StopWaitDone, StopTimeout,
                StopClear, vars
  <1> QED
    BY <1>3, <1>4, <1>5 DEF Next

(* No execution begins while the scheduler is stopped, however late the    *)
(* goroutine was admitted or its request dequeued.                         *)
THEOREM SchedulerNoExecutionAfterStop == Spec => NoExecutionAfterStop
  <1>1. ASSUME IInv, [Next]_vars
        PROVE  [~started /\ ~started' =>
                  \A j \in Jobs : job'[j].pc = "executing"
                                  => job[j].pc = "executing"]_vars
    BY <1>1, StoppedStep
  <1> QED
    BY <1>1, SchedulerIInv, PTL DEF Spec, NoExecutionAfterStop

-----------------------------------------------------------------------------
(***************************************************************************)
(* The scheduled process: no execution meets a closed chain, and no chain  *)
(* is left open.                                                           *)
(*                                                                         *)
(* Both rest on the scheduler.  main registers one pipeline, once, so that *)
(* the single owner of its registration is the only goroutine in the       *)
(* adapter; and when main takes the cache, Stop has drained the scheduler. *)
(***************************************************************************)

(* Every goroutine that has fired serves the one registration main made.   *)
RegistrationInv ==
    /\ main = "starting" => \A r \in Regs : regPipe[r] = None
    /\ \A r, s \in Regs : regPipe[r] # None /\ regPipe[s] # None => r = s
    /\ \A r \in entries : regPipe[r] # None
    /\ \A j \in Jobs : job[j].pc # "idle" =>
          job[j].reg \in Regs /\ regPipe[job[j].reg] # None

(* Who has which chain: the cache, the execution that uses the cached one, *)
(* the goroutine that evicted it, or main on its way out.                  *)
InAdapter ==
    \A j \in Jobs :
        /\ adapter[j] # "outside" => job[j].pc = "executing"
        /\ adapter[j] = "using" => using[j] # None /\ set[PipelineOf(j)] = using[j]

InCache ==
    /\ \A p \in Pipelines : set[p] # None => chain[set[p]] = "open"
    /\ \A p, q \in Pipelines : set[p] # None /\ set[p] = set[q] => p = q
    /\ \A j \in Jobs, p \in Pipelines :
          adapter[j] = "evicted" /\ using[j] # None => set[p] # using[j]

AtExit ==
    /\ taken # {} => main = "closing"
    /\ main \in {"closing", "exited"} =>
          stop = "returned" /\ \A p \in Pipelines : set[p] = None

RunTypes ==
    /\ set \in [Pipelines -> Chains \cup {None}]
    /\ chain \in [Chains -> {"unbuilt", "open", "closed"}]
    /\ adapter \in [Jobs -> AdapterPcs]
    /\ using \in [Jobs -> Chains \cup {None}]
    /\ taken \in SUBSET Chains
    /\ main \in MainPcs

CustodyInv == InAdapter /\ InCache /\ AtExit /\ OpenChainIsOwned

RunInv == IInv /\ RunTypes /\ RegistrationInv /\ CustodyInv

-----------------------------------------------------------------------------

(* A step of the process is a step of the scheduler, or leaves it alone.   *)
LEMMA RunStepsAreSchedulerSteps == [RunNext]_allVars => [Next]_vars
  BY Zenon DEF RunNext, allVars, MainRegister, MainStep, MainStart, MainStopTimedOut,
     MainTakeCache, MainClose, MainSignal, SchedulerStopStep, GoroutineStep,
     SchedulerJobStep, AdapterStep, AdapterGet, AdapterSucceeds, AdapterFails,
     AdapterEvict, AdapterCloseEvicted, Next, RegisterStep, JobStep

(* At most one goroutine is executing: there is one registration.          *)
LEMMA OneExecutes ==
    ASSUME IInv, RegistrationInv, NEW j \in Jobs, NEW k \in Jobs,
           job[j].pc = "executing", job[k].pc = "executing"
    PROVE  j = k
  <1>1. job[j].reg \in Regs /\ job[k].reg = job[j].reg
    BY DEF RegistrationInv
  <1>2. Owns(j, job[j].reg) /\ Owns(k, job[j].reg)
    BY <1>1 DEF Owns, OwnerPcs
  <1> QED
    BY <1>1, <1>2 DEF IInv, SingleOwner

(* While somebody executes, main has not come to the cache.                *)
LEMMA ExecutingBeforeExit ==
    ASSUME RunInv, NEW j \in Jobs, job[j].pc = "executing"
    PROVE  /\ main \notin {"closing", "exited"} /\ taken = {}
           /\ PipelineOf(j) \in Pipelines
  <1>1. stop # "returned"
    BY DEF RunInv, IInv, StopInv, StopDrains
  <1>2. job[j].reg \in Regs /\ regPipe[job[j].reg] # None
    BY DEF RunInv, RegistrationInv
  <1> QED
    BY <1>1, <1>2 DEF RunInv, CustodyInv, AtExit, PipelineOf, IInv, TypeOK

(* The registrations of main stay when no entry is made: goroutines keep   *)
(* theirs, or come from the CRON table.                                    *)
LEMMA RegistrationStays ==
    ASSUME RegistrationInv, IInv, UNCHANGED <<regPipe, entries>>, main' = "starting" => main = "starting",
           \A k \in Jobs : job'[k].pc # "idle" =>
               \/ job[k].pc # "idle" /\ job'[k].reg = job[k].reg
               \/ job'[k].reg \in entries
    PROVE  RegistrationInv'
  BY DEF RegistrationInv, IInv, TypeOK

(* A step that leaves the cache and every execution alone keeps what is    *)
(* known of the chains.                                                    *)
LEMMA CustodyStays ==
    ASSUME RunInv, UNCHANGED <<regPipe, cacheVars>>, main' = main, stop = "returned" => stop' = stop,
           \A k \in Jobs : job[k].pc = "executing" => job'[k] = job[k]
    PROVE  CustodyInv'
  <1> USE DEF cacheVars, RunInv, CustodyInv
  <1>1. InAdapter'
    BY DEF InAdapter, PipelineOf
  <1>2. InCache'
    BY DEF InCache
  <1>3. AtExit'
    BY DEF AtExit
  <1>4. OpenChainIsOwned'
    BY DEF OpenChainIsOwned
  <1> QED
    BY <1>1, <1>2, <1>3, <1>4

-----------------------------------------------------------------------------

(* What a goroutine of the scheduler does outside the adapter touches no   *)
(* execution and gives no goroutine another registration.                  *)
LEMMA JobStepKeeps ==
    ASSUME TypeOK, NEW j \in Jobs, SchedulerJobStep(j)
    PROVE  /\ UNCHANGED <<regPipe, entries, stop>>
           /\ \A k \in Jobs : job[k].pc = "executing" => job'[k] = job[k]
           /\ \A k \in Jobs : job'[k].pc # "idle" =>
                  job[k].pc # "idle" /\ job'[k].reg = job[k].reg
  <1> USE DEF regVars, lifeVars, TypeOK, JobType, IdleJob, GoTo
  <1>1. CASE ExecutePipelineAdmit(j)
    BY <1>1 DEF ExecutePipelineAdmit
  <1>2. CASE TryStartExecution(j)
    BY <1>2 DEF TryStartExecution
  <1>3. CASE CheckContext(j)
    BY <1>3 DEF CheckContext
  <1>4. CASE FinishExecution(j)
    BY <1>4, SMTT(30) DEF FinishExecution
  <1>5. CASE ExecuteQueuedPipeline(j)
    BY <1>5 DEF ExecuteQueuedPipeline
  <1>6. CASE AbandonQueue(j)
    BY <1>6 DEF AbandonQueue
  <1>7. CASE Unwind(j)
    BY <1>7 DEF Unwind
  <1> QED
    BY <1>1, <1>2, <1>3, <1>4, <1>5, <1>6, <1>7 DEF SchedulerJobStep

(* A Stop under way touches neither goroutines nor registrations.          *)
LEMMA StopStepKeeps ==
    ASSUME StopStep
    PROVE  UNCHANGED <<regPipe, entries, job>> /\ stop # "returned"
  BY DEF StopStep, StopMark, StopWaitDone, StopTimeout, StopClear, regVars, lifeVars

(* The end of an execution moves one goroutine on.                         *)
LEMMA EndKeeps ==
    ASSUME TypeOK, NEW j \in Jobs, DoExecutePipeline(j)
    PROVE  /\ UNCHANGED <<regPipe, entries, stop>>
           /\ \A k \in Jobs \ {j} : job'[k] = job[k]
           /\ job'[j].pc = "finishing" /\ job'[j].reg = job[j].reg /\ job[j].pc = "executing"
  BY DEF DoExecutePipeline, GoTo, TypeOK, JobType, regVars, lifeVars

-----------------------------------------------------------------------------

(* The process at its start.                                               *)
LEMMA InitRunInv == RunInit => RunInv
  <1> SUFFICES ASSUME RunInit PROVE RunInv
    OBVIOUS
  <1>1. IInv
    BY InitIInv DEF RunInit
  <1>2. RunTypes
    BY DEF RunInit, RunTypes, AdapterPcs, MainPcs
  <1>3. RegistrationInv
    BY DEF RunInit, Init, IdleJob, RegistrationInv
  <1>4. CustodyInv
    BY DEF RunInit, CustodyInv, InAdapter, InCache, AtExit, OpenChainIsOwned
  <1> QED
    BY <1>1, <1>2, <1>3, <1>4 DEF RunInv

(* main's steps: it registers before anything has fired, and takes the     *)
(* cache when Stop has returned, that is when nothing executes.            *)
LEMMA MainKeeps ==
    ASSUME RunInv,
           \/ \E p \in Pipelines, r \in Regs : MainRegister(p, r)
           \/ MainStep \/ MainSignal
    PROVE  RunTypes' /\ RegistrationInv' /\ CustodyInv'
  <1>1. IInv /\ TypeOK /\ RunTypes /\ RegistrationInv /\ CustodyInv
    BY DEF RunInv, IInv
  <1> USE DEF cacheVars
  <1>2. ASSUME NEW p \in Pipelines, NEW r \in Regs, MainRegister(p, r)
        PROVE  RunTypes' /\ RegistrationInv' /\ CustodyInv'
    <2>1. /\ main = "starting" /\ main' = "registered" /\ UNCHANGED <<cacheVars, job>>
          /\ regPipe' = [regPipe EXCEPT ![r] = p] /\ entries' = entries \cup {r}
          /\ stop' = stop
      BY <1>2 DEF MainRegister, Register, AddRegistration, lifeVars
    <2>2. \A j \in Jobs : job[j].pc = "idle"
      BY <1>1, <2>1 DEF RegistrationInv
    <2>3. RunTypes'
      BY <1>1, <2>1 DEF RunTypes, MainPcs
    <2>4. RegistrationInv'
      BY <1>1, <2>1, <2>2, SchedulerAssumption DEF RegistrationInv, TypeOK, SchedulerAssumption
    <2>5. CustodyInv'
      BY <1>1, <2>1, <2>2 DEF CustodyInv, InAdapter, InCache, AtExit, OpenChainIsOwned
    <2> QED
      BY <2>3, <2>4, <2>5
  <1>3. CASE MainStart \/ MainSignal \/ MainStopTimedOut
    <2>1. /\ UNCHANGED <<cacheVars, job, regPipe, entries>>
          /\ main \in {"registered", "serving", "stopping"}
          /\ main' \in {"serving", "stopping", "killed"}
      BY <1>3 DEF MainStart, MainSignal, MainStopTimedOut, Start, StopCron, regVars, lifeVars, vars
    <2>2. RunTypes'
      BY <1>1, <2>1 DEF RunTypes, MainPcs
    <2>3. RegistrationInv'
      BY <1>1, <2>1 DEF RegistrationInv
    <2>4. CustodyInv'
      BY <1>1, <2>1 DEF CustodyInv, InAdapter, InCache, AtExit, OpenChainIsOwned, PipelineOf
    <2> QED
      BY <2>2, <2>3, <2>4
  <1>4. CASE MainTakeCache
    <2>1. /\ UNCHANGED <<vars, chain, adapter, using>> /\ stop = "returned" /\ main' = "closing"
          /\ taken' = {set[p] : p \in Pipelines} \ {None}
          /\ set' = [p \in Pipelines |-> None] /\ main = "stopping"
      BY <1>4 DEF MainTakeCache
    <2>2. \A j \in Jobs : adapter[j] = "outside"
      BY <1>1, <2>1 DEF IInv, StopInv, StopDrains, CustodyInv, InAdapter
    <2>3. RunTypes'
      BY <1>1, <2>1 DEF RunTypes, MainPcs
    <2>4. RegistrationInv'
      BY <1>1, <2>1 DEF RegistrationInv, vars, regVars
    <2>5. InAdapter' /\ InCache' /\ AtExit'
      BY <2>1, <2>2 DEF InAdapter, InCache, AtExit, vars, lifeVars
    <2>6. OpenChainIsOwned'
      BY <1>1, <2>1, <2>2, ScheduledRunAssumption
         DEF OpenChainIsOwned, CustodyInv, AtExit, ScheduledRunAssumption
    <2> QED
      BY <2>3, <2>4, <2>5, <2>6 DEF CustodyInv
  <1>5. CASE MainClose
    <2>1. /\ UNCHANGED <<vars, set, adapter, using>> /\ taken' = {}
          /\ main = "closing" /\ main' = "exited"
          /\ chain' = [c \in Chains |-> IF c \in taken THEN "closed" ELSE chain[c]]
      BY <1>5 DEF MainClose
    <2>2. /\ stop = "returned" /\ \A p \in Pipelines : set[p] = None
          /\ \A j \in Jobs : adapter[j] = "outside"
      BY <1>1, <2>1 DEF IInv, StopInv, StopDrains, CustodyInv, InAdapter, AtExit
    <2>3. RunTypes'
      BY <1>1, <2>1 DEF RunTypes, MainPcs
    <2>4. RegistrationInv'
      BY <1>1, <2>1 DEF RegistrationInv, vars, regVars
    <2>5. InAdapter' /\ InCache' /\ AtExit'
      BY <2>1, <2>2 DEF InAdapter, InCache, AtExit, vars, lifeVars
    <2>6. OpenChainIsOwned'
      BY <1>1, <2>1, <2>2 DEF OpenChainIsOwned, CustodyInv
    <2> QED
      BY <2>3, <2>4, <2>5, <2>6 DEF CustodyInv
  <1> QED
    BY <1>2, <1>3, <1>4, <1>5 DEF MainStep

-----------------------------------------------------------------------------

(* While goroutine j executes it is alone in the adapter, so that what it  *)
(* does to the cache disturbs nobody.                                      *)
LEMMA AdapterKeeps ==
    ASSUME RunInv, NEW j \in Jobs, AdapterStep(j), main' = main
    PROVE  RunTypes' /\ RegistrationInv' /\ CustodyInv'
  <1>1. IInv /\ TypeOK /\ RunTypes /\ RegistrationInv /\ CustodyInv
    BY DEF RunInv, IInv
  <1>2. job[j].pc = "executing"
    BY <1>1 DEF AdapterStep, AdapterGet, AdapterSucceeds, AdapterFails, AdapterEvict,
                AdapterCloseEvicted, CustodyInv, InAdapter
  <1>3. /\ \A k \in Jobs \ {j} : adapter[k] = "outside"
        /\ main \notin {"closing", "exited"} /\ taken = {}
        /\ PipelineOf(j) \in Pipelines
    BY <1>1, <1>2, OneExecutes, ExecutingBeforeExit DEF CustodyInv, InAdapter
  <1>4. CASE UNCHANGED vars
    <2>1. RegistrationInv'
      BY <1>1, <1>4 DEF RegistrationInv, vars, regVars
    <2>2. PipelineOf(j)' = PipelineOf(j) /\ job' = job
      BY <1>4 DEF PipelineOf, vars, regVars
    <2>3. CASE using' = [using EXCEPT ![j] = set[PipelineOf(j)]]
               /\ set[PipelineOf(j)] # None /\ adapter' = [adapter EXCEPT ![j] = "using"]
               /\ UNCHANGED <<set, chain, taken>> /\ adapter[j] = "outside"
      <3>1. RunTypes'
        BY <1>1, <1>3, <2>3 DEF RunTypes, AdapterPcs
      <3>2. InAdapter' /\ InCache' /\ AtExit'
        BY <1>1, <1>2, <1>3, <2>2, <2>3 DEF InAdapter, InCache, AtExit, CustodyInv, RunTypes
      <3>3. OpenChainIsOwned'
        BY <1>1, <1>3, <2>3 DEF OpenChainIsOwned, CustodyInv, RunTypes
      <3> QED
        BY <2>1, <3>1, <3>2, <3>3 DEF CustodyInv
    <2>4. ASSUME NEW c \in Chains, set[PipelineOf(j)] = None, chain[c] = "unbuilt",
                 chain' = [chain EXCEPT ![c] = "open"],
                 set' = [set EXCEPT ![PipelineOf(j)] = c],
                 using' = [using EXCEPT ![j] = c],
                 adapter' = [adapter EXCEPT ![j] = "using"], adapter[j] = "outside",
                 taken' = taken
          PROVE  RunTypes' /\ CustodyInv'
      <3>1. RunTypes'
        BY <1>1, <1>3, <2>4 DEF RunTypes, AdapterPcs
      <3>2. c # None
        BY <2>4, ScheduledRunAssumption DEF ScheduledRunAssumption
      <3>3. InAdapter'
        BY <1>1, <1>2, <1>3, <2>2, <2>4, <3>2 DEF InAdapter, CustodyInv, RunTypes
      <3>4. InCache'
        <4>1. \A p \in Pipelines : set'[p] = IF p = PipelineOf(j) THEN c ELSE set[p]
          BY <1>1, <2>4 DEF RunTypes
        <4>2. \A p \in Pipelines : set[p] # None => set[p] # c /\ set[p] \in Chains
          BY <1>1, <2>4 DEF RunTypes, CustodyInv, InCache
        <4>3. \A k \in Jobs : adapter'[k] # "evicted"
          BY <1>1, <1>3, <2>4 DEF RunTypes
        <4> QED
          BY <1>1, <2>4, <4>1, <4>2, <4>3 DEF InCache, CustodyInv, RunTypes
      <3>5. AtExit'
        BY <1>3, <2>4 DEF AtExit
      <3>6. OpenChainIsOwned'
        BY <1>1, <1>3, <2>4, ScheduledRunAssumption
           DEF OpenChainIsOwned, CustodyInv, RunTypes, ScheduledRunAssumption
      <3> QED
        BY <3>1, <3>3, <3>4, <3>5, <3>6 DEF CustodyInv
    <2>5. CASE AdapterFails(j)
      <3>1. RunTypes'
        BY <1>1, <2>5 DEF RunTypes, AdapterPcs, AdapterFails
      <3>2. InAdapter' /\ InCache' /\ AtExit'
        BY <1>1, <1>2, <1>3, <2>2, <2>5 DEF InAdapter, InCache, AtExit, CustodyInv, RunTypes,
           AdapterFails
      <3>3. OpenChainIsOwned'
        BY <1>1, <1>3, <2>5 DEF OpenChainIsOwned, CustodyInv, RunTypes, AdapterFails
      <3> QED
        BY <2>1, <3>1, <3>2, <3>3 DEF CustodyInv
    <2>6. CASE AdapterEvict(j)
      <3>1. /\ using' = [using EXCEPT ![j] = set[PipelineOf(j)]]
            /\ set' = [set EXCEPT ![PipelineOf(j)] = None]
            /\ adapter' = [adapter EXCEPT ![j] = "evicted"]
            /\ UNCHANGED <<chain, taken>>
        BY <2>6 DEF AdapterEvict
      <3>2. RunTypes'
        BY <1>1, <1>3, <3>1 DEF RunTypes, AdapterPcs
      <3>3. InAdapter' /\ AtExit'
        BY <1>1, <1>2, <1>3, <2>2, <3>1 DEF InAdapter, AtExit, CustodyInv, RunTypes
      <3>4. InCache'
        BY <1>1, <1>3, <3>1 DEF InCache, CustodyInv, RunTypes
      <3>5. OpenChainIsOwned'
        BY <1>1, <1>3, <2>6, <3>1
           DEF OpenChainIsOwned, CustodyInv, RunTypes, AdapterEvict
      <3> QED
        BY <2>1, <3>2, <3>3, <3>4, <3>5 DEF CustodyInv
    <2>7. \/ AdapterGet(j) \/ AdapterFails(j) \/ AdapterEvict(j)
      <3>1. ~DoExecutePipeline(j)
        BY <1>2, <1>4, EndKeeps, <1>1 DEF vars
      <3> QED
        BY <3>1 DEF AdapterStep, AdapterSucceeds, AdapterCloseEvicted
    <2>8. ~DoExecutePipeline(j)
      BY <1>2, <1>4, EndKeeps, <1>1 DEF vars
    <2>9. CASE AdapterGet(j)
      BY <2>1, <2>3, <2>4, <2>8, <2>9 DEF AdapterGet
    <2> QED
      BY <2>5, <2>6, <2>7, <2>9
  <1>5. CASE /\ DoExecutePipeline(j)
             /\ \/ adapter[j] = "outside" /\ UNCHANGED cacheVars
                \/ AdapterSucceeds(j)
                \/ AdapterCloseEvicted(j)
    <2>1. /\ UNCHANGED <<regPipe, entries, stop>>
          /\ \A k \in Jobs \ {j} : job'[k] = job[k]
          /\ job'[j].pc = "finishing" /\ job'[j].reg = job[j].reg
      BY <1>1, <1>5, EndKeeps
    <2>2. RegistrationInv'
      BY <1>1, <1>2, <2>1, RegistrationStays
    <2>3. /\ adapter' \in [Jobs -> AdapterPcs] /\ using' \in [Jobs -> Chains \cup {None}]
          /\ \A k \in Jobs : adapter'[k] = "outside"
      BY <1>1, <1>3, <1>5 DEF RunTypes, AdapterSucceeds, AdapterCloseEvicted, AdapterPcs, cacheVars
    <2>4. /\ UNCHANGED <<set, taken>>
          /\ \/ chain' = chain
             \/ /\ adapter[j] = "evicted" /\ using[j] # None
                /\ chain' = [chain EXCEPT ![using[j]] = "closed"]
      <3>1. CASE AdapterCloseEvicted(j)
        BY <3>1, Zenon DEF AdapterCloseEvicted
      <3>2. CASE AdapterSucceeds(j) \/ UNCHANGED cacheVars
        BY <3>2, Zenon DEF AdapterSucceeds, cacheVars
      <3> QED
        BY <1>5, <3>1, <3>2
    <2>5. RunTypes'
      BY <1>1, <2>3, <2>4 DEF RunTypes
    <2>6. InAdapter' /\ AtExit'
      BY <1>3, <2>3, <2>4 DEF InAdapter, AtExit
    <2>7. InCache'
      BY <1>1, <2>3, <2>4 DEF InCache, CustodyInv, RunTypes
    <2>8. OpenChainIsOwned'
      <3> SUFFICES ASSUME NEW c \in Chains, chain'[c] = "open"
                   PROVE  \E p \in Pipelines : set'[p] = c
        BY DEF OpenChainIsOwned
      <3>1. chain[c] = "open" /\ ~(adapter[j] = "evicted" /\ using[j] = c)
        BY <1>1, <1>5, <2>4, ScheduledRunAssumption
           DEF RunTypes, ScheduledRunAssumption, AdapterSucceeds, AdapterCloseEvicted
      <3>2. \A k \in Jobs : ~(adapter[k] = "evicted" /\ using[k] = c)
        BY <1>3, <3>1
      <3> QED
        BY <1>1, <1>3, <2>4, <3>1, <3>2 DEF OpenChainIsOwned, CustodyInv
    <2> QED
      BY <2>2, <2>5, <2>6, <2>7, <2>8 DEF CustodyInv
  <1> QED
    BY <1>4, <1>5 DEF AdapterStep, AdapterGet, AdapterSucceeds, AdapterFails, AdapterEvict,
       AdapterCloseEvicted

(* Every step of the process keeps the invariant.                          *)
LEMMA NextRunInv == RunInv /\ [RunNext]_allVars => RunInv'
  <1> SUFFICES ASSUME RunInv, [RunNext]_allVars PROVE RunInv'
    OBVIOUS
  <1>1. IInv /\ TypeOK /\ RunTypes /\ RegistrationInv
    BY DEF RunInv, IInv
  <1>2. IInv'
    BY <1>1, RunStepsAreSchedulerSteps, NextIInv
  <1>3. CASE \/ \E p \in Pipelines, r \in Regs : MainRegister(p, r)
             \/ MainStep \/ MainSignal
    BY <1>2, <1>3, MainKeeps DEF RunInv
  <1>4. CASE SchedulerStopStep
    <2>1. UNCHANGED <<regPipe, entries, job, cacheVars, main>> /\ stop # "returned"
      BY <1>4, StopStepKeeps DEF SchedulerStopStep
    <2>2. RegistrationInv' /\ CustodyInv'
      BY <1>1, <2>1, RegistrationStays, CustodyStays
    <2> QED
      BY <1>1, <1>2, <2>1, <2>2 DEF RunInv, RunTypes, cacheVars
  <1>5. ASSUME NEW j \in Jobs, NEW r \in Regs, CronTick(j, r), UNCHANGED <<cacheVars, main>>
        PROVE  RunInv'
    <2>1. /\ UNCHANGED <<regPipe, entries, stop>> /\ r \in entries /\ job[j].pc = "idle"
          /\ \A k \in Jobs \ {j} : job'[k] = job[k]
          /\ job'[j].reg = r
      BY <1>1, <1>5 DEF CronTick, regVars, lifeVars, IdleJob, TypeOK
    <2>2. RegistrationInv' /\ CustodyInv'
      BY <1>1, <1>5, <2>1, RegistrationStays, CustodyStays
    <2> QED
      BY <1>1, <1>2, <1>5, <2>2 DEF RunInv, RunTypes, cacheVars
  <1>6. ASSUME NEW j \in Jobs, SchedulerJobStep(j)
        PROVE  RunInv'
    <2>1. UNCHANGED <<cacheVars, main>>
      BY <1>6 DEF SchedulerJobStep
    <2>2. RegistrationInv' /\ CustodyInv'
      BY <1>1, <1>6, <2>1, JobStepKeeps, RegistrationStays, CustodyStays
    <2> QED
      BY <1>1, <1>2, <2>1, <2>2 DEF RunInv, RunTypes, cacheVars
  <1>7. ASSUME NEW j \in Jobs, AdapterStep(j), main' = main
        PROVE  RunInv'
    BY <1>2, <1>7, AdapterKeeps DEF RunInv
  <1>8. CASE UNCHANGED allVars
    BY <1>1, <1>2, <1>8, RegistrationStays, CustodyStays
       DEF RunInv, RunTypes, allVars, cacheVars, vars, regVars, lifeVars
  <1> QED
    BY <1>3, <1>4, <1>5, <1>6, <1>7, <1>8 DEF RunNext, GoroutineStep

-----------------------------------------------------------------------------

(* The invariant holds in every reachable state of the process.            *)
LEMMA ScheduledRunInv == RunSpec => []RunInv
  BY InitRunInv, NextRunInv, PTL DEF RunSpec

(* The cache, the adapter and main keep their types.                       *)
THEOREM ScheduledRunType == RunSpec => []RunTypeOK
  <1>1. RunInv => RunTypeOK
    BY DEF RunInv, IInv, RunTypes, RunTypeOK
  <1> QED
    BY <1>1, ScheduledRunInv, PTL

(* Executions of a pipeline never overlap, as moduleCache.get assumes, and *)
(* none works with a closed chain, whoever evicts or shuts down            *)
(* (PipelineExecutorAdapter.Execute, moduleCache.evict and Close).         *)
THEOREM ScheduledRunChainUse == RunSpec => []ChainUseIsSafe
  <1>1. RunInv => ExecutionsAreSerialized
    BY OneExecutes DEF RunInv, ExecutionsAreSerialized
  <1>2. RunInv => ChainInUseIsOpen
    BY ExecutingBeforeExit DEF RunInv, CustodyInv, InAdapter, InCache, ChainInUseIsOpen
  <1> QED
    BY <1>1, <1>2, ScheduledRunInv, PTL DEF ChainUseIsSafe

(* Every chain that is built is released, at run time and at a graceful    *)
(* exit (moduleCache.get, evict and Close).                                *)
THEOREM ScheduledRunReleases == RunSpec => []ChainsAreReleased
  <1>1. RunInv => ChainsAreReleased
    <2> SUFFICES ASSUME RunInv, main = "exited", NEW c \in Chains
                 PROVE  chain[c] # "open"
      BY DEF RunInv, CustodyInv, ChainsAreReleased, GracefulExitReleases
    <2>1. /\ stop = "returned" /\ taken = {} /\ \A p \in Pipelines : set[p] = None
      BY DEF RunInv, CustodyInv, AtExit
    <2>2. \A j \in Jobs : adapter[j] = "outside"
      BY <2>1 DEF RunInv, IInv, StopInv, StopDrains, CustodyInv, InAdapter
    <2> QED
      BY <2>1, <2>2, ScheduledRunAssumption
         DEF RunInv, CustodyInv, OpenChainIsOwned, ScheduledRunAssumption
  <1> QED
    BY <1>1, ScheduledRunInv, PTL
=============================================================================
