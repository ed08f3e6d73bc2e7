------------------------------ MODULE Executor ------------------------------
(***************************************************************************)
(* One pipeline executed again and again by internal/runtime/pipeline.go:  *)
(* Input -> Filters -> Output, then the resume state of                    *)
(* internal/persistence saved for the next execution, with failing stages, *)
(* failing state loads and saves, and a process that may die at any point. *)
(*                                                                         *)
(* A record is its ID, on which the source filters and which it may show   *)
(* in any order; its stamp is of the source's own clock.  A record may so  *)
(* become visible behind a watermark, and a fetch may end before it has    *)
(* read everything: those records are lost, and withheld says which they   *)
(* are.  Time is counted in ticks, of which TicksPerSecond make a second:  *)
(* the state keeps the full time, the request carries it in RFC 3339, cut  *)
(* to the second.  A nil timestamp or ID is 0.                             *)
(***************************************************************************)
EXTENDS Naturals, FiniteSets

CONSTANTS
    Configs,         \* pipeline configurations to consider
    TicksPerSecond,
    Stamps,          \* times the source may stamp a record with
    MaxRecords,      \* bound: records the source creates
    MaxTime,         \* bound: the clock
    MaxFailures,     \* bound: stages, loads and saves that fail
    MaxCrashes       \* bound: process deaths

(* ts, id: what statePersistence enables.  retain: a cached module chain   *)
(* (scheduled pipeline) instead of one built per process (single run).     *)
(* skip: onError of the output is skip or log instead of fail.  ordered:   *)
(* the source answers in the order of the IDs, as ExtractLastID assumes.   *)
ConfigType == [ts : BOOLEAN, id : BOOLEAN, retain : BOOLEAN,
               dryRun : BOOLEAN, skip : BOOLEAN, ordered : BOOLEAN]

ASSUME ExecutorAssumption ==
    /\ Configs \subseteq ConfigType
    /\ TicksPerSecond \in Nat \ {0}
    /\ Stamps \subseteq Nat
    /\ MaxRecords \in Nat
    /\ MaxTime \in Nat \ {0}
    /\ MaxFailures \in Nat
    /\ MaxCrashes \in Nat

VARIABLES
    config,     \* the configuration, fixed
    clock,      \* time.Now() of the runtime
    source,     \* records the source shows
    stamp,      \* time the source says each record is of
    withheld,   \* records the source showed too late for a watermark, or
                \* left out of a fetch whose watermark passes them
    file,       \* the state file
    tmp,        \* the temporary file next to it
    chain,      \* the module chain: open modules, and the input's lastState
    run,        \* the execution in progress, or its result
    delivered,  \* how often the destination received each record
    settled,    \* records dropped by a filter or skipped by the output, in an
                \* execution whose output succeeded
    failures,   \* failures so far
    crashes     \* crashes so far

world == <<config, clock, source, stamp, withheld>>
disk  == <<file, tmp>>
vars  == <<world, disk, chain, run, delivered, settled, failures, crashes>>

-----------------------------------------------------------------------------

RecordIds == 1..MaxRecords

StateType == [ts : 0..MaxTime, id : 0..MaxRecords, ok : BOOLEAN]
NoState   == [ts |-> 0, id |-> 0, ok |-> TRUE]   \* no file, or a nil *State
Torn      == [ts |-> 0, id |-> 0, ok |-> FALSE]  \* a file that does not parse

NoChain    == [open |-> {}, lastState |-> NoState]
FreshChain == [open |-> {"input", "output"}, lastState |-> NoState]

(* Fault: the watermark is sent rounded up to the next second.             *)
FormatTimestamp_Up(t) ==
    ((t + TicksPerSecond - 1) \div TicksPerSecond) * TicksPerSecond

(* FormatTimestamp: RFC 3339 has no fraction of a second.                  *)
FormatTimestamp(t) == (t \div TicksPerSecond) * TicksPerSecond

(* Records the query parameters built from state s keep out of a fetch.    *)
Behind(i, s) == stamp[i] < FormatTimestamp(s.ts) \/ i <= s.id

(* buildEndpointWithState: a cursor is sent only if it is enabled.         *)
Cursor(s) == [ts |-> IF config.ts THEN s.ts ELSE 0,
              id |-> IF config.id THEN s.id ELSE 0]

Selected == {i \in source : ~Behind(i, Cursor(chain.lastState))}

(* What a fetch may return: all that is selected, or the part it reached   *)
(* before the page cap, which ends it without an error.                    *)
Answers ==
    {S \in SUBSET Selected :
        /\ S = {} => Selected = {}
        /\ config.ordered => \A i \in S, k \in Selected : k < i => k \in S}

(* ExtractLastID: the ID of the last record received, 0 for none.          *)
LastReceived(S) ==
    IF S = {} THEN {0}
    ELSE {i \in S : config.ordered => \A k \in S : k <= i}

(* The watermark an execution is to leave.                                 *)
Claim == [ts |-> run.startedAt, id |-> run.lastID, ok |-> TRUE]

(* Watermarks that decide over a record not shown yet: that of the file,   *)
(* that the input holds, and that of an execution which has fetched.       *)
InForce == {file, chain.lastState} \cup
           (IF run.pc \in {"filter", "output", "persist", "rename"} THEN {Claim} ELSE {})

Pcs == {"idle", "setup", "connect", "input", "filter", "output", "persist",
        "rename", "finalize", "returned"}

NoResult == [status |-> "error", error |-> "nil", processed |-> 0, failed |-> 0]

IdleRun == [pc |-> "idle", startedAt |-> 0, fetched |-> {}, lastID |-> 0,
            kept |-> {}, result |-> NoResult]

GoTo(pc) == run' = [run EXCEPT !.pc = pc]

(* A stage returned an error: ExecuteWithContext returns, and its deferred *)
(* call closes the output module of a chain that is not retained.          *)
FailWith(error, closed) ==
    /\ failures < MaxFailures
    /\ failures' = failures + 1
    /\ run' = [run EXCEPT !.pc = "returned", !.result.error = error]
    /\ chain' = [chain EXCEPT !.open =
                   IF config.retain THEN @ ELSE @ \ (closed \cup {"output"})]

-----------------------------------------------------------------------------

Init ==
    /\ config \in Configs
    /\ clock = 1
    /\ source = {}
    /\ stamp = [i \in RecordIds |-> 0]
    /\ withheld = {}
    /\ file = NoState
    /\ tmp = NoState
    /\ chain = NoChain
    /\ run = IdleRun
    /\ delivered = [i \in RecordIds |-> 0]
    /\ settled = {}
    /\ failures = 0
    /\ crashes = 0

Tick ==
    /\ clock < MaxTime
    /\ clock' = clock + 1
    /\ UNCHANGED <<config, source, stamp, withheld, disk, chain, run, delivered,
                   settled, failures, crashes>>

(* A record is shown too late for a watermark if its stamp is of a second  *)
(* before, or its ID is one the watermark has passed.                      *)
TooLate(i, t, s) == t \div TicksPerSecond < s.ts \div TicksPerSecond \/ i <= s.id

(* A record becomes visible, with whatever ID and stamp: its transaction   *)
(* may be committed long after it was stamped, by a clock that differs.    *)
(* Only the timestamp cursor looks at the stamp.                           *)
CreateRecord ==
    /\ \E i \in RecordIds \ source, t \in IF config.ts THEN Stamps ELSE {0} :
         /\ source' = source \cup {i}
         /\ stamp' = [stamp EXCEPT ![i] = t]
         /\ withheld' =
              IF \E s \in InForce : TooLate(i, t, Cursor(s))
              THEN withheld \cup {i} ELSE withheld
    /\ UNCHANGED <<config, clock, disk, chain, run, delivered, settled,
                   failures, crashes>>

(* A tick of the schedule, or the command line, starts an execution; the   *)
(* adapter builds the chain unless it is cached.  startedAt is read first. *)
BeginExecution ==
    /\ run.pc = "idle"
    /\ run' = [IdleRun EXCEPT !.pc = "setup", !.startedAt = clock]
    /\ chain' = IF chain = NoChain THEN FreshChain ELSE chain
    /\ UNCHANGED <<world, disk, delivered, settled, failures, crashes>>

(* setupStatePersistence: a load that fails leaves lastState as it is and  *)
(* the execution goes on.                                                  *)
SetupStatePersistence ==
    /\ run.pc = "setup"
    /\ GoTo("connect")
    /\ \/ /\ file.ok
          /\ chain' = [chain EXCEPT !.lastState = file]
          /\ UNCHANGED failures
       \/ /\ file.ok => failures < MaxFailures
          /\ failures' = IF file.ok THEN failures + 1 ELSE failures
          /\ UNCHANGED chain
    /\ UNCHANGED <<world, disk, delivered, settled, crashes>>

(* connectOutput comes before the input, and does nothing in a dry run.    *)
ConnectOutput ==
    /\ run.pc = "connect"
    /\ \/ GoTo("input") /\ UNCHANGED <<chain, failures>>
       \/ ~config.dryRun /\ FailWith("nil", {})
    /\ UNCHANGED <<world, disk, delivered, settled, crashes>>

(* executeInput, the closing of an input that is not retained, and the     *)
(* extraction of the last ID, which may fail without failing the run.      *)
(* What the fetch left out is asked for again only if the ID cursor alone  *)
(* decides, and stops short of it.                                         *)
ExecuteInput ==
    /\ run.pc = "input"
    /\ \/ /\ \E fetched \in Answers, extracted \in BOOLEAN :
               \E last \in LastReceived(fetched) :
                 LET lastID == IF config.id /\ extracted THEN last ELSE 0
                 IN  /\ run' = [run EXCEPT !.pc = "filter", !.fetched = fetched,
                                           !.lastID = lastID]
                     /\ ~extracted => config.id /\ failures < MaxFailures
                     /\ failures' = IF extracted THEN failures ELSE failures + 1
                     /\ withheld' = withheld \cup
                          {i \in Selected \ fetched :
                             config.ts \/ ~config.id \/ i <= lastID}
          /\ chain' = [chain EXCEPT !.open =
                         IF config.retain THEN @ ELSE @ \ {"input"}]
       \/ FailWith("input", {"input"}) /\ UNCHANGED withheld
    /\ UNCHANGED <<config, clock, source, stamp, disk, delivered, settled, crashes>>

(* executeFilters: the filters keep some of the records, or one fails.     *)
ExecuteFilters ==
    /\ run.pc = "filter"
    /\ \/ /\ \E kept \in SUBSET run.fetched :
               run' = [run EXCEPT !.pc = "output", !.kept = kept]
          /\ UNCHANGED <<chain, failures>>
       \/ FailWith("filter", {})
    /\ UNCHANGED <<world, disk, delivered, settled, crashes>>

(* The destination receives the records of S.  Counts stop at two.         *)
Receive(S) ==
    delivered' = [i \in RecordIds |->
                    IF i \in S /\ delivered[i] < 2 THEN delivered[i] + 1
                                                   ELSE delivered[i]]

(* executeOutput and executeOutputWithResult.  Send succeeds, possibly     *)
(* leaving records out when onError is skip or log, or fails after having  *)
(* delivered some.  A dry run counts the records and sends none.           *)
ExecuteOutput ==
    /\ run.pc = "output"
    /\ \/ /\ config.dryRun
          /\ run' = [run EXCEPT !.pc = "persist",
                       !.result.processed = Cardinality(run.kept)]
          /\ UNCHANGED <<chain, delivered, settled, failures>>
       \/ /\ ~config.dryRun
          /\ \E sent \in SUBSET run.kept :
               /\ sent = run.kept \/ config.skip
               /\ Receive(sent)
               /\ settled' = settled \cup (run.fetched \ sent)
               /\ run' = [run EXCEPT !.pc = "persist",
                    !.result.processed = Cardinality(sent),
                    !.result.failed = Cardinality(run.kept \ sent)]
          /\ UNCHANGED <<chain, failures>>
       \/ /\ ~config.dryRun
          /\ \E sent \in SUBSET run.kept :
               /\ Receive(sent)
               /\ run' = [run EXCEPT !.pc = "returned",
                    !.result = [status |-> "error", error |-> "output",
                                processed |-> Cardinality(sent),
                                failed |-> Cardinality(run.kept \ sent)]]
          /\ failures < MaxFailures
          /\ failures' = failures + 1
          /\ chain' = [chain EXCEPT !.open =
                         IF config.retain THEN @ ELSE @ \ {"output"}]
          /\ UNCHANGED settled
    /\ UNCHANGED <<world, disk, crashes>>

(* Fault: the watermark is the time the state is saved, not the time the   *)
(* execution started.                                                      *)
NewState_EndTime == [ts |-> IF config.ts THEN clock ELSE 0,
                     id |-> IF config.id THEN run.lastID ELSE 0,
                     ok |-> TRUE]

(* Fault: the watermark is pushed past the start of the execution.         *)
NewState_StartPlusOne == [ts |-> IF config.ts THEN run.startedAt + 1 ELSE 0,
                          id |-> IF config.id THEN run.lastID ELSE 0,
                          ok |-> TRUE]

(* Fault: the extracted ID does not make it into the state.                *)
NewState_NoID == [ts |-> IF config.ts THEN run.startedAt ELSE 0,
                  id |-> 0,
                  ok |-> TRUE]

(* The state persistState builds; it is saved only if it says something.   *)
NewState == [ts |-> IF config.ts THEN run.startedAt ELSE 0,
             id |-> IF config.id THEN run.lastID ELSE 0,
             ok |-> TRUE]

(* Fault: the state file is written in place.                              *)
WriteTempFile_InPlace ==
    /\ run.pc = "persist"
    /\ \/ /\ file' = NewState
          /\ UNCHANGED failures
       \/ /\ failures < MaxFailures
          /\ failures' = failures + 1
          /\ file' = Torn
    /\ GoTo("finalize")
    /\ UNCHANGED <<world, tmp, chain, delivered, settled, crashes>>

(* persistState and the first half of StateStore.Save: the temporary file. *)
(* A save that fails is logged and forgotten.                              *)
WriteTempFile ==
    /\ run.pc = "persist"
    /\ \/ /\ NewState = NoState
          /\ GoTo("finalize")
          /\ UNCHANGED <<tmp, failures>>
       \/ /\ NewState # NoState
          /\ tmp' = NewState
          /\ GoTo("rename")
          /\ UNCHANGED failures
       \/ /\ NewState # NoState
          /\ failures < MaxFailures
          /\ failures' = failures + 1
          /\ tmp' = Torn
          /\ GoTo("finalize")
    /\ UNCHANGED <<world, file, chain, delivered, settled, crashes>>

RenameStateFile ==
    /\ run.pc = "rename"
    /\ \/ file' = tmp /\ UNCHANGED failures
       \/ /\ failures < MaxFailures
          /\ failures' = failures + 1
          /\ UNCHANGED file
    /\ tmp' = NoState
    /\ GoTo("finalize")
    /\ UNCHANGED <<world, chain, delivered, settled, crashes>>

(* finalizeSuccessWithMetrics, then the deferred close of the output.      *)
FinalizeSuccess ==
    /\ run.pc = "finalize"
    /\ run' = [run EXCEPT !.pc = "returned", !.result.status = "success",
                          !.result.error = "nil"]
    /\ chain' = [chain EXCEPT !.open =
                   IF config.retain THEN @ ELSE @ \ {"output"}]
    /\ UNCHANGED <<world, disk, delivered, settled, failures, crashes>>

(* The caller: a failed execution evicts the cached chain, a single run    *)
(* ends its process.                                                       *)
ReturnToCaller ==
    /\ run.pc = "returned"
    /\ run' = IdleRun
    /\ chain' = IF config.retain /\ run.result.status = "success"
                THEN chain ELSE NoChain
    /\ UNCHANGED <<world, disk, delivered, settled, failures, crashes>>

(* The process dies; a temporary file being written is left torn or whole. *)
Crash ==
    /\ run.pc # "idle"
    /\ crashes < MaxCrashes
    /\ crashes' = crashes + 1
    /\ run' = IdleRun
    /\ chain' = NoChain
    /\ tmp' \in {tmp} \cup (IF run.pc = "persist" /\ NewState # NoState
                            THEN {Torn, NewState} ELSE {})
    /\ UNCHANGED <<world, file, delivered, settled, failures>>

-----------------------------------------------------------------------------

ExecutionStep ==
    \/ BeginExecution
    \/ SetupStatePersistence
    \/ ConnectOutput
    \/ ExecuteInput
    \/ ExecuteFilters
    \/ ExecuteOutput
    \/ WriteTempFile
    \/ RenameStateFile
    \/ FinalizeSuccess
    \/ ReturnToCaller

Next == Tick \/ CreateRecord \/ ExecutionStep \/ Crash

Spec == Init /\ [][Next]_vars

(* The schedule keeps firing and a started execution keeps going.          *)
FairSpec == Spec /\ WF_vars(ExecutionStep)

-----------------------------------------------------------------------------

RunType ==
    [pc : Pcs, startedAt : 0..MaxTime, fetched : SUBSET RecordIds,
     lastID : 0..MaxRecords, kept : SUBSET RecordIds,
     result : [status : {"error", "success"},
               error : {"nil", "input", "filter", "output"},
               processed : 0..MaxRecords, failed : 0..MaxRecords]]

(* Type invariant.                                                         *)
TypeOK ==
    /\ config \in ConfigType
    /\ clock \in 1..MaxTime
    /\ source \in SUBSET RecordIds
    /\ stamp \in [RecordIds -> Stamps \cup {0}]
    /\ withheld \in SUBSET RecordIds
    /\ file \in StateType
    /\ tmp \in StateType
    /\ chain \in [open : SUBSET {"input", "output"}, lastState : StateType]
    /\ run \in RunType
    /\ delivered \in [RecordIds -> 0..2]
    /\ settled \in SUBSET RecordIds
    /\ failures \in 0..MaxFailures
    /\ crashes \in 0..MaxCrashes

Handled(i) == delivered[i] > 0 \/ i \in settled

(* At-least-once, for what the source shows in time: a record the saved    *)
(* state keeps out of every later fetch has reached the destination, or a  *)
(* filter or onError decided against it, or the source withheld it.  The   *)
(* state is saved only after the output succeeded, it is taken from the    *)
(* moment before the fetch, and it is cut to the second downwards.         *)
NoRecordLost ==
    ~config.dryRun =>
        \A i \in source : Behind(i, Cursor(file)) => Handled(i) \/ i \in withheld

(* A crash never leaves a state file that does not parse ("temp file +     *)
(* rename" in Save).                                                       *)
StateFileReadable == file.ok

(* A later run resumes from what Save left, after any crash, without       *)
(* skipping a record that was there to be fetched.                         *)
ResumeIsSafe == StateFileReadable /\ NoRecordLost

(* With the ID cursor alone, and a source that answers in its order,       *)
(* nothing is delivered twice unless something failed or crashed.          *)
NoNeedlessDuplicate ==
    config.id /\ config.ordered /\ failures = 0 /\ crashes = 0
        => \A i \in source : delivered[i] <= 1

(* Every record the source shows is eventually handled, as failures and    *)
(* crashes are finitely many, unless it is withheld: of the records shown  *)
(* in time and not left out of a fetch, no cursor hides one for good.      *)
EveryRecordHandled ==
    \A i \in RecordIds :
        (i \in source /\ ~config.dryRun) ~> (Handled(i) \/ i \in withheld)

-----------------------------------------------------------------------------

(* "Skipped in dry-run mode, where the point is to touch nothing"          *)
(* (executePipelineStages): a dry run changes nothing outside the process. *)
DryRunTouchesNothing == [][config.dryRun => UNCHANGED file]_vars

=============================================================================
