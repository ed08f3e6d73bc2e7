--------------------------- MODULE ExecutorProofs ---------------------------
(***************************************************************************)
(* Theorems about repeated executions with a saved state, for every number *)
(* of records, failures and crashes, every clock of the runtime and every  *)
(* stamp and order of the source: no record is lost but those the source   *)
(* withheld, with one cursor or both at once; and with one cursor each,    *)
(* and a source that answers in the order of the IDs, nothing is delivered *)
(* twice that no failure and no crash calls for.                           *)
(*                                                                         *)
(* That the saved state loses no record is inductive only together with    *)
(* what becomes that state: the cursor the input holds, which decides what *)
(* is fetched; the watermark an execution is to leave, which passes no     *)
(* more than the batch under way and what was handled before; and the      *)
(* temporary file on its way to the state file. A record shown later is    *)
(* ahead of all of them, or withheld.                                      *)
(***************************************************************************)
EXTENDS Executor, FiniteSetTheorems, TLAPS

(* A record the formatted watermark keeps out is of an earlier second: RFC *)
(* 3339 cuts the watermark downwards.                                      *)
LEMMA FormatCutsDown ==
  ASSUME NEW t \in Nat, NEW w \in Nat, t < FormatTimestamp(w)
  PROVE  t \div TicksPerSecond < w \div TicksPerSecond
<1> DEFINE T == TicksPerSecond
           q == w \div T
           d == t \div T
<1>1. T \in Nat /\ T > 0
  BY ExecutorAssumption
<1>2. q \in Nat /\ d \in Nat
  BY <1>1, SMTT(30)
<1>3. d * T <= t
  BY <1>1, SMTT(30)
<1>4. t < q * T
  BY DEF FormatTimestamp
<1> HIDE DEF T, q, d
<1>5. ASSUME ~(d < q) PROVE FALSE
  <2>1. PICK e \in Nat : d = q + e
    <3>1. d - q \in Nat /\ d = q + (d - q)
      BY <1>2, <1>5
    <3> QED BY <3>1
  <2>2. d * T = q * T + e * T /\ e * T \in Nat /\ q * T \in Nat
    BY <1>1, <1>2, <2>1, SMTT(30)
  <2> HIDE DEF T
  <2> QED BY <1>3, <1>4, <2>2
<1> QED BY <1>5 DEF T, q, d

(* A subset of the records has at most MaxRecords of them. *)
LEMMA CountBounded ==
  ASSUME NEW S, S \subseteq RecordIds
  PROVE  Cardinality(S) \in 0 .. MaxRecords
<1>1. MaxRecords \in Nat
  BY ExecutorAssumption
<1>2. IsFiniteSet(RecordIds) /\ Cardinality(RecordIds) = MaxRecords
  BY <1>1, FS_Interval DEF RecordIds
<1>3. IsFiniteSet(S) /\ Cardinality(S) <= MaxRecords
  BY <1>2, FS_Subset
<1>4. Cardinality(S) \in Nat
  BY <1>3, FS_CardinalityType
<1> QED BY <1>1, <1>3, <1>4

(* What the input may fetch are records the source shows; the last one     *)
(* received is one of them.                                                *)
LEMMA AnswerType ==
  ASSUME TypeOK, NEW S \in Answers, NEW last \in LastReceived(S)
  PROVE  /\ S \subseteq Selected /\ Selected \subseteq source /\ Selected \subseteq RecordIds
         /\ last \in S \cup {0} /\ last \in 0 .. MaxRecords
<1>1. S \subseteq Selected /\ Selected \subseteq source /\ Selected \subseteq RecordIds
  BY DEF Answers, Selected, TypeOK
<1>2. last \in S \cup {0}
  BY DEF LastReceived
<1>3. S \cup {0} \subseteq 0 .. MaxRecords
  BY <1>1, ExecutorAssumption DEF RecordIds
<1> QED BY <1>1, <1>2, <1>3

(* The state to be saved is well-formed. *)
LEMMA NewStateType ==
  ASSUME TypeOK
  PROVE  NewState \in StateType
  BY ExecutorAssumption DEF TypeOK, NewState, StateType, RunType

(* A fetch that succeeds: what it leaves of the run, the failures and what *)
(* the source withheld.                                                    *)
Fetches(fetched, lastID) ==
    /\ fetched \in Answers
    /\ lastID \in fetched \cup {0}
    /\ lastID \in 0 .. MaxRecords
    /\ config.ordered /\ failures' = failures /\ config.id =>
         lastID \in LastReceived(fetched)
    /\ ~config.id => lastID = 0
    /\ run' = [run EXCEPT !.pc = "filter", !.fetched = fetched, !.lastID = lastID]
    /\ failures' \in 0 .. MaxFailures
    /\ withheld' = withheld \cup
         {i \in Selected \ fetched : config.ts \/ ~config.id \/ i <= lastID}
    /\ chain' = [chain EXCEPT !.open = IF config.retain THEN @ ELSE @ \ {"input"}]

(* The input fails, or fetches something.                                  *)
LEMMA InputFetches ==
  ASSUME TypeOK, ExecuteInput
  PROVE  \/ FailWith("input", {"input"}) /\ UNCHANGED withheld
         \/ \E fetched, lastID : Fetches(fetched, lastID)
<1> SUFFICES ASSUME ~(FailWith("input", {"input"}) /\ UNCHANGED withheld)
             PROVE  \E fetched, lastID : Fetches(fetched, lastID)
  OBVIOUS
<1>1. PICK fetched \in Answers, extracted \in BOOLEAN :
        \E last \in LastReceived(fetched) :
          LET lastID == IF config.id /\ extracted THEN last ELSE 0
          IN  /\ run' = [run EXCEPT !.pc = "filter", !.fetched = fetched, !.lastID = lastID]
              /\ ~extracted => config.id /\ failures < MaxFailures
              /\ failures' = IF extracted THEN failures ELSE failures + 1
              /\ withheld' = withheld \cup
                   {i \in Selected \ fetched : config.ts \/ ~config.id \/ i <= lastID}
  BY Zenon DEF ExecuteInput
<1>2. PICK last \in LastReceived(fetched) :
          LET lastID == IF config.id /\ extracted THEN last ELSE 0
          IN  /\ run' = [run EXCEPT !.pc = "filter", !.fetched = fetched, !.lastID = lastID]
              /\ ~extracted => config.id /\ failures < MaxFailures
              /\ failures' = IF extracted THEN failures ELSE failures + 1
              /\ withheld' = withheld \cup
                   {i \in Selected \ fetched : config.ts \/ ~config.id \/ i <= lastID}
  BY <1>1, Zenon
<1> DEFINE lastID == IF config.id /\ extracted THEN last ELSE 0
<1>3. last \in fetched \cup {0} /\ last \in 0 .. MaxRecords
  BY AnswerType
<1>4. failures' \in 0 .. MaxFailures /\ (failures' = failures => extracted)
  BY <1>2, ExecutorAssumption DEF TypeOK
<1>5. lastID \in fetched \cup {0} /\ lastID \in 0 .. MaxRecords
  BY <1>3, ExecutorAssumption
<1>6. config.ordered /\ failures' = failures /\ config.id => lastID \in LastReceived(fetched)
  BY <1>4
<1>7. ~config.id => lastID = 0
  OBVIOUS
<1>8. /\ run' = [run EXCEPT !.pc = "filter", !.fetched = fetched, !.lastID = lastID]
      /\ withheld' = withheld \cup
           {i \in Selected \ fetched : config.ts \/ ~config.id \/ i <= lastID}
  BY <1>2
<1>9. chain' = [chain EXCEPT !.open = IF config.retain THEN @ ELSE @ \ {"input"}]
  BY DEF ExecuteInput
<1> HIDE DEF lastID
<1>10. Fetches(fetched, lastID)
  BY <1>4, <1>5, <1>6, <1>7, <1>8, <1>9 DEF Fetches
<1> QED BY <1>10

-----------------------------------------------------------------------------
(* Type correctness.                                                       *)

(* A failing stage leaves a well-formed result. *)
LEMMA FailWithType ==
  ASSUME TypeOK, NEW error \in {"nil", "input", "filter", "output"}, NEW closed,
         FailWith(error, closed)
  PROVE  /\ run' \in RunType /\ failures' \in 0 .. MaxFailures
         /\ chain' \in [open : SUBSET {"input", "output"}, lastState : StateType]
<1>1. run' \in RunType
  <2>1. run.result \in [status : {"error", "success"},
                        error : {"nil", "input", "filter", "output"},
                        processed : 0..MaxRecords, failed : 0..MaxRecords]
    BY DEF TypeOK, RunType
  <2> DEFINE res == [run.result EXCEPT !.error = error]
  <2>2. res \in [status : {"error", "success"},
                 error : {"nil", "input", "filter", "output"},
                 processed : 0..MaxRecords, failed : 0..MaxRecords]
    BY <2>1
  <2> HIDE DEF res
  <2>3. run' = [run EXCEPT !.pc = "returned", !.result = res]
    BY DEF FailWith, TypeOK, RunType, res
  <2> QED BY <2>2, <2>3 DEF TypeOK, RunType, Pcs
<1>2. failures' \in 0 .. MaxFailures
  BY ExecutorAssumption DEF FailWith, TypeOK
<1>3. chain' \in [open : SUBSET {"input", "output"}, lastState : StateType]
  BY DEF FailWith, TypeOK
<1> QED BY <1>1, <1>2, <1>3

(* Before an execution nothing is under way: a well-formed run. *)
LEMMA IdleRunType == IdleRun \in RunType
  BY ExecutorAssumption DEF IdleRun, RunType, NoResult, Pcs

(* The chain of modules before it is built is well-formed. *)
LEMMA NoChainType == NoChain \in [open : SUBSET {"input", "output"}, lastState : StateType]
  BY ExecutorAssumption DEF NoChain, NoState, StateType

(* A torn file is a state like any other, except that it is unreadable. *)
LEMMA TornType == Torn \in StateType
  BY ExecutorAssumption DEF Torn, StateType

(* The counts of a result stay within the number of records. *)
LEMMA ResultType ==
  ASSUME TypeOK,
         NEW st \in {"error", "success"}, NEW error \in {"nil", "input", "filter", "output"},
         NEW S, S \subseteq RecordIds, NEW T, T \subseteq RecordIds, NEW pc \in Pcs
  PROVE  [run EXCEPT !.pc = pc,
                     !.result = [status |-> st, error |-> error,
                                 processed |-> Cardinality(S), failed |-> Cardinality(T)]]
           \in RunType
<1>1. Cardinality(S) \in 0 .. MaxRecords /\ Cardinality(T) \in 0 .. MaxRecords
  BY CountBounded
<1> QED BY <1>1 DEF TypeOK, RunType

(* The initial state is typed. *)
LEMMA InitType == Init => TypeOK
<1> SUFFICES ASSUME Init PROVE TypeOK
  OBVIOUS
<1>1. NoState \in StateType
  BY ExecutorAssumption DEF NoState, StateType
<1>2. IdleRun \in RunType
  BY IdleRunType
<1>3. NoChain \in [open : SUBSET {"input", "output"}, lastState : StateType]
  BY NoChainType
<1>4. /\ stamp \in [RecordIds -> Stamps \cup {0}]
      /\ delivered \in [RecordIds -> 0 .. 2]
  BY ExecutorAssumption DEF Init
<1> QED BY <1>1, <1>2, <1>3, <1>4, ExecutorAssumption DEF Init, TypeOK

(* Every step keeps every variable in its type. *)
LEMMA NextType == TypeOK /\ [Next]_vars => TypeOK'
<1> SUFFICES ASSUME TypeOK, [Next]_vars PROVE TypeOK'
  OBVIOUS
<1> USE DEF world, disk
<1>1. CASE Tick
  BY <1>1, ExecutorAssumption DEF Tick, TypeOK
<1>2. CASE CreateRecord
  <2>1. PICK i \in RecordIds \ source, t \in Stamps \cup {0} :
          /\ source' = source \cup {i}
          /\ stamp' = [stamp EXCEPT ![i] = t]
          /\ withheld' \in {withheld, withheld \cup {i}}
    BY <1>2 DEF CreateRecord
  <2>2. stamp' \in [RecordIds -> Stamps \cup {0}]
    BY <2>1 DEF TypeOK
  <2>3. source' \in SUBSET RecordIds /\ withheld' \in SUBSET RecordIds
    BY <2>1 DEF TypeOK
  <2> QED BY <1>2, <2>2, <2>3 DEF CreateRecord, TypeOK
<1>3. CASE BeginExecution
  <2>1. run' \in RunType
    <3>1. clock \in 0 .. MaxTime
      BY ExecutorAssumption DEF TypeOK
    <3> QED BY <1>3, <3>1, IdleRunType DEF BeginExecution, RunType, Pcs
  <2>2. chain' \in [open : SUBSET {"input", "output"}, lastState : StateType]
    BY <1>3, ExecutorAssumption DEF BeginExecution, FreshChain, NoState, StateType, TypeOK
  <2> QED BY <1>3, <2>1, <2>2 DEF BeginExecution, TypeOK
<1>4. CASE SetupStatePersistence
  <2>1. run' \in RunType
    BY <1>4 DEF SetupStatePersistence, GoTo, TypeOK, RunType, Pcs
  <2>2. chain' \in [open : SUBSET {"input", "output"}, lastState : StateType]
    BY <1>4 DEF SetupStatePersistence, TypeOK
  <2>3. failures' \in 0 .. MaxFailures
    BY <1>4, ExecutorAssumption DEF SetupStatePersistence, TypeOK
  <2> QED BY <1>4, <2>1, <2>2, <2>3 DEF SetupStatePersistence, TypeOK
<1>5. CASE ConnectOutput
  <2>1. CASE GoTo("input") /\ UNCHANGED <<chain, failures>>
    <3>1. run' \in RunType
      BY <2>1 DEF GoTo, TypeOK, RunType, Pcs
    <3> QED BY <1>5, <2>1, <3>1 DEF ConnectOutput, TypeOK
  <2>2. CASE FailWith("nil", {})
    BY <1>5, <2>2, FailWithType DEF ConnectOutput, TypeOK
  <2> QED BY <1>5, <2>1, <2>2 DEF ConnectOutput
<1>6. CASE ExecuteInput
  <2>1. CASE FailWith("input", {"input"}) /\ UNCHANGED withheld
    BY <1>6, <2>1, FailWithType DEF ExecuteInput, TypeOK
  <2>2. ASSUME NEW fetched, NEW lastID, Fetches(fetched, lastID)
        PROVE  TypeOK'
    <3>1. fetched \subseteq RecordIds /\ Selected \subseteq RecordIds
      BY <2>2 DEF Fetches, Answers, Selected, TypeOK
    <3>2. run' \in RunType
      BY <2>2, <3>1 DEF Fetches, TypeOK, RunType, Pcs
    <3>3. chain' \in [open : SUBSET {"input", "output"}, lastState : StateType]
      BY <2>2 DEF Fetches, TypeOK
    <3>4. failures' \in 0 .. MaxFailures /\ withheld' \in SUBSET RecordIds
      BY <2>2, <3>1 DEF Fetches, TypeOK
    <3> QED BY <1>6, <3>2, <3>3, <3>4 DEF ExecuteInput, TypeOK
  <2> QED BY <1>6, <2>1, <2>2, InputFetches
<1>7. CASE ExecuteFilters
  <2>1. CASE FailWith("filter", {})
    BY <1>7, <2>1, FailWithType DEF ExecuteFilters, TypeOK
  <2>2. ASSUME NEW kept \in SUBSET run.fetched,
               run' = [run EXCEPT !.pc = "output", !.kept = kept],
               UNCHANGED <<chain, failures>>
        PROVE  TypeOK'
    <3>1. run' \in RunType
      BY <2>2 DEF TypeOK, RunType, Pcs
    <3> QED BY <1>7, <2>2, <3>1 DEF ExecuteFilters, TypeOK
  <2> QED BY <1>7, <2>1, <2>2 DEF ExecuteFilters
<1>8. CASE ExecuteOutput
  <2>1. delivered' \in [RecordIds -> 0 .. 2] /\ settled' \subseteq RecordIds
    <3>1. \A S : Receive(S) => delivered' \in [RecordIds -> 0 .. 2]
      BY DEF Receive, TypeOK
    <3> QED BY <1>8, <3>1 DEF ExecuteOutput, TypeOK, RunType
  <2>2. /\ chain' \in [open : SUBSET {"input", "output"}, lastState : StateType]
        /\ failures' \in 0 .. MaxFailures
    <3>1. chain' \in [open : SUBSET {"input", "output"}, lastState : StateType]
      <4>1. CASE UNCHANGED chain
        BY <4>1 DEF TypeOK
      <4>2. CASE chain' = [chain EXCEPT !.open = IF config.retain THEN @ ELSE @ \ {"output"}]
        BY <4>2 DEF TypeOK
      <4> QED BY <1>8, <4>1, <4>2 DEF ExecuteOutput
    <3>2. failures' \in 0 .. MaxFailures
      <4>1. UNCHANGED failures \/ (failures < MaxFailures /\ failures' = failures + 1)
        BY <1>8 DEF ExecuteOutput
      <4> QED BY <4>1, ExecutorAssumption DEF TypeOK
    <3> QED BY <3>1, <3>2
  <2>3. run.kept \subseteq RecordIds /\ Pcs = Pcs \cup {"persist", "returned"}
    BY DEF TypeOK, RunType, Pcs
  <2>4. run' \in RunType
    <3>1. CASE run' = [run EXCEPT !.pc = "persist", !.result.processed = Cardinality(run.kept)]
      <4>1. Cardinality(run.kept) \in 0 .. MaxRecords
        BY <2>3, CountBounded
      <4> QED BY <3>1, <4>1, <2>3 DEF TypeOK, RunType
    <3>2. ASSUME NEW sent \in SUBSET run.kept,
                 run' = [run EXCEPT !.pc = "persist",
                    !.result.processed = Cardinality(sent),
                    !.result.failed = Cardinality(run.kept \ sent)]
          PROVE  run' \in RunType
      <4>1. Cardinality(sent) \in 0 .. MaxRecords /\ Cardinality(run.kept \ sent) \in 0 .. MaxRecords
        BY <2>3, CountBounded
      <4> QED BY <3>2, <4>1, <2>3 DEF TypeOK, RunType
    <3>3. ASSUME NEW sent \in SUBSET run.kept,
                 run' = [run EXCEPT !.pc = "returned",
                    !.result = [status |-> "error", error |-> "output",
                                processed |-> Cardinality(sent),
                                failed |-> Cardinality(run.kept \ sent)]]
          PROVE  run' \in RunType
      BY <3>3, <2>3, ResultType
    <3> QED BY <1>8, <3>1, <3>2, <3>3 DEF ExecuteOutput
  <2> QED BY <1>8, <2>1, <2>2, <2>4 DEF ExecuteOutput, TypeOK
<1>9. CASE WriteTempFile
  <2>1. run' \in RunType
    BY <1>9 DEF WriteTempFile, GoTo, TypeOK, RunType, Pcs
  <2>2. tmp' \in StateType
    <3>1. tmp' \in {tmp, NewState, Torn}
      BY <1>9 DEF WriteTempFile
    <3> QED BY <3>1, NewStateType, TornType DEF TypeOK
  <2>3. failures' \in 0 .. MaxFailures
    BY <1>9, ExecutorAssumption DEF WriteTempFile, TypeOK
  <2> QED BY <1>9, <2>1, <2>2, <2>3 DEF WriteTempFile, TypeOK
<1>10. CASE RenameStateFile
  <2>1. run' \in RunType
    BY <1>10 DEF RenameStateFile, GoTo, TypeOK, RunType, Pcs
  <2>2. tmp' \in StateType /\ file' \in StateType
    BY <1>10, ExecutorAssumption DEF RenameStateFile, NoState, StateType, TypeOK
  <2>3. failures' \in 0 .. MaxFailures
    BY <1>10, ExecutorAssumption DEF RenameStateFile, TypeOK
  <2> QED BY <1>10, <2>1, <2>2, <2>3 DEF RenameStateFile, TypeOK
<1>11. CASE FinalizeSuccess
  <2>1. run' \in RunType
    BY <1>11 DEF FinalizeSuccess, TypeOK, RunType, Pcs
  <2>2. chain' \in [open : SUBSET {"input", "output"}, lastState : StateType]
    BY <1>11 DEF FinalizeSuccess, TypeOK
  <2> QED BY <1>11, <2>1, <2>2 DEF FinalizeSuccess, TypeOK
<1>12. CASE ReturnToCaller
  BY <1>12, IdleRunType, NoChainType DEF ReturnToCaller, TypeOK
<1>13. CASE Crash
  <2>1. tmp' \in StateType
    <3>1. tmp' \in {tmp, NewState, Torn}
      BY <1>13 DEF Crash
    <3> QED BY <3>1, NewStateType, TornType DEF TypeOK
  <2>2. crashes' \in 0 .. MaxCrashes
    BY <1>13, ExecutorAssumption DEF Crash, TypeOK
  <2> QED BY <1>13, <2>1, <2>2, IdleRunType, NoChainType DEF Crash, TypeOK
<1>14. CASE UNCHANGED vars
  BY <1>14 DEF vars, TypeOK
<1> QED BY <1>1, <1>2, <1>3, <1>4, <1>5, <1>6, <1>7, <1>8, <1>9, <1>10, <1>11, <1>12, <1>13, <1>14
        DEF Next, ExecutionStep

(* Every execution, and every crash, leaves well-formed state.             *)
THEOREM ExecutorType == Spec => []TypeOK
  BY InitType, NextType, PTL DEF Spec

-----------------------------------------------------------------------------
(* No record is lost.                                                      *)

Excused(i) == Handled(i) \/ i \in withheld

(* Every record that state s keeps out of a fetch has been handled, or was *)
(* withheld.                                                               *)
Passed(s) == \A i \in source : Behind(i, Cursor(s)) => Excused(i)

(* What the watermark of the execution passes is in the batch under way,   *)
(* or was handled before, or was withheld.                                 *)
Covered == \A i \in source : Behind(i, Cursor(Claim)) => i \in run.fetched \/ Excused(i)

ResumeInv ==
    /\ file.ok
    /\ run.pc = "rename" => tmp = NewState
    /\ ~config.dryRun =>
          /\ Passed(file) /\ Passed(chain.lastState)
          /\ run.pc \in {"filter", "output"} => Covered
          /\ run.pc \in {"persist", "rename"} => Passed(Claim)

(* The state to be saved asks for what the watermark asks for.             *)
LEMMA NewStateIsClaim ==
  ASSUME TypeOK
  PROVE  Cursor(NewState) = Cursor(Claim) /\ NewState.ok
  BY DEF NewState, Claim, Cursor

(* Initially no state keeps anything out of a fetch. *)
LEMMA InitResumeInv == Init => ResumeInv
  BY DEF Init, ResumeInv, Passed, NoState, NoChain, IdleRun

(* A step in which the source shows nothing, and that leaves excused what  *)
(* was excused, leaves passed what was passed.                             *)
LEMMA StaysPassed ==
  ASSUME UNCHANGED <<config, source, stamp>>,
         \A i \in source : Excused(i) => Excused(i)'
  PROVE  /\ Passed(file) /\ file' = file => Passed(file)'
         /\ Passed(NewState) /\ file' = NewState => Passed(file)'
         /\ Passed(chain.lastState) /\ chain'.lastState = chain.lastState => Passed(chain.lastState)'
         /\ Passed(file) /\ chain'.lastState = file => Passed(chain.lastState)'
         /\ Passed(NoState) /\ chain'.lastState = NoState => Passed(chain.lastState)'
         /\ Passed(Claim) /\ Claim' = Claim => Passed(Claim)'
         /\ Covered /\ Claim' = Claim /\ run'.fetched = run.fetched => Covered'
<1>1. \A i \in source' : i \in source
  OBVIOUS
<1> USE <1>1 DEF Passed, Behind, Cursor, FormatTimestamp
<1>2. Passed(file) /\ file' = file => Passed(file)'
  OBVIOUS
<1>3. Passed(NewState) /\ file' = NewState => Passed(file)'
  OBVIOUS
<1>4. Passed(chain.lastState) /\ chain'.lastState = chain.lastState => Passed(chain.lastState)'
  OBVIOUS
<1>5. Passed(file) /\ chain'.lastState = file => Passed(chain.lastState)'
  OBVIOUS
<1>6. Passed(NoState) /\ chain'.lastState = NoState => Passed(chain.lastState)'
  OBVIOUS
<1>7. Passed(Claim) /\ Claim' = Claim => Passed(Claim)'
  OBVIOUS
<1>8. Covered /\ Claim' = Claim /\ run'.fetched = run.fetched => Covered'
  BY DEF Covered
<1> QED BY <1>2, <1>3, <1>4, <1>5, <1>6, <1>7, <1>8

(* No record is before the time of a nil timestamp.                        *)
LEMMA NothingBeforeNil ==
  ASSUME TypeOK, NEW i \in source
  PROVE  i \in Nat /\ i > 0 /\ ~(stamp[i] < FormatTimestamp(0))
<1>1. i \in RecordIds
  BY DEF TypeOK
<1>2. stamp[i] \in Stamps \cup {0}
  BY <1>1 DEF TypeOK
<1>3. Stamps \cup {0} \subseteq Nat
  BY ExecutorAssumption
<1>4. stamp[i] \in Nat
  BY <1>2, <1>3
<1>5. FormatTimestamp(0) = 0
  <2>1. 0 \div TicksPerSecond = 0
    BY ExecutorAssumption, SMTT(30)
  <2> QED BY <2>1, ExecutorAssumption DEF FormatTimestamp
<1>6. i \in Nat /\ i > 0
  BY <1>1, ExecutorAssumption DEF RecordIds
<1> QED BY <1>4, <1>5, <1>6

(* Nothing is behind the state of a first execution.                       *)
LEMMA NothingBehindNoState ==
  ASSUME TypeOK
  PROVE  Passed(NoState)
<1> SUFFICES ASSUME NEW i \in source PROVE ~Behind(i, Cursor(NoState))
  BY DEF Passed
<1>1. Cursor(NoState).ts = 0 /\ Cursor(NoState).id = 0
  BY DEF Cursor, NoState
<1> QED BY <1>1, NothingBeforeNil DEF Behind

(* The states in force are well-formed.                                    *)
LEMMA InForceType ==
  ASSUME TypeOK, NEW s \in InForce
  PROVE  Cursor(s).ts \in Nat /\ Cursor(s).id \in Nat
<1>1. s \in StateType
  <2>1. file \in StateType /\ chain.lastState \in StateType
    BY DEF TypeOK
  <2>2. Claim \in StateType
    BY DEF TypeOK, Claim, RunType, StateType
  <2> QED BY <2>1, <2>2 DEF InForce
<1> QED BY <1>1, ExecutorAssumption DEF StateType, Cursor

(* A record shown behind a state in force is withheld; the others are      *)
(* behind it only if they were.                                            *)
LEMMA NewcomerIsAhead ==
  ASSUME TypeOK, CreateRecord, NEW s \in InForce, NEW i \in source',
         stamp'[i] < FormatTimestamp(Cursor(s).ts) \/ i <= Cursor(s).id
  PROVE  i \in withheld' \/ (i \in source /\ Behind(i, Cursor(s)))
<1>1. PICK j \in RecordIds \ source, t \in Stamps \cup {0} :
        /\ source' = source \cup {j}
        /\ stamp' = [stamp EXCEPT ![j] = t]
        /\ withheld' = IF \E r \in InForce : TooLate(j, t, Cursor(r))
                       THEN withheld \cup {j} ELSE withheld
  BY DEF CreateRecord
<1>2. CASE i # j
  BY <1>1, <1>2 DEF Behind, TypeOK
<1>3. CASE i = j
  <2>1. stamp'[i] = t /\ t \in Nat
    BY <1>1, <1>3, ExecutorAssumption DEF TypeOK
  <2>2. Cursor(s).ts \in Nat
    BY InForceType
  <2>3. TooLate(j, t, Cursor(s))
    BY <1>3, <2>1, <2>2, FormatCutsDown DEF TooLate
  <2> QED BY <1>1, <1>3, <2>3
<1> QED BY <1>2, <1>3

(* A record shown while an execution is at any stage is ahead of every     *)
(* state that may become the cursor, or withheld.                          *)
LEMMA CreateResumeInv ==
  ASSUME TypeOK, ResumeInv, CreateRecord
  PROVE  ResumeInv'
<1> USE DEF world, disk
<1>1. UNCHANGED <<config, file, tmp, chain, run, delivered, settled>>
  BY DEF CreateRecord
<1>2. NewState' = NewState /\ Claim' = Claim
  BY <1>1 DEF NewState, Claim
<1>3. \A i : Excused(i) => Excused(i)'
  <2>1. withheld \subseteq withheld'
    BY DEF CreateRecord
  <2> QED BY <1>1, <2>1 DEF Excused, Handled
<1>4. ASSUME Passed(file) PROVE Passed(file)'
  <2> SUFFICES ASSUME NEW i \in source', Behind(i, Cursor(file))' PROVE Excused(i)'
    BY DEF Passed
  <2>1. stamp'[i] < FormatTimestamp(Cursor(file).ts) \/ i <= Cursor(file).id
    BY <1>1 DEF Behind, Cursor, FormatTimestamp
  <2>2. i \in withheld' \/ (i \in source /\ Behind(i, Cursor(file)))
    BY <2>1, NewcomerIsAhead DEF InForce
  <2> QED BY <1>3, <1>4, <2>2 DEF Passed, Excused
<1>5. ASSUME Passed(chain.lastState) PROVE Passed(chain.lastState)'
  <2> SUFFICES ASSUME NEW i \in source', Behind(i, Cursor(chain.lastState))' PROVE Excused(i)'
    BY DEF Passed
  <2>1. \/ stamp'[i] < FormatTimestamp(Cursor(chain.lastState).ts)
        \/ i <= Cursor(chain.lastState).id
    BY <1>1 DEF Behind, Cursor, FormatTimestamp
  <2>2. i \in withheld' \/ (i \in source /\ Behind(i, Cursor(chain.lastState)))
    BY <2>1, NewcomerIsAhead DEF InForce
  <2> QED BY <1>3, <1>5, <2>2 DEF Passed, Excused
<1>6. ASSUME run.pc \in {"filter", "output", "persist", "rename"},
             NEW i \in source', Behind(i, Cursor(Claim))'
      PROVE  Excused(i)' \/ (i \in source /\ Behind(i, Cursor(Claim)))
  <2>1. stamp'[i] < FormatTimestamp(Cursor(Claim).ts) \/ i <= Cursor(Claim).id
    BY <1>1, <1>2, <1>6 DEF Behind, Cursor, FormatTimestamp
  <2>2. Claim \in InForce
    BY <1>6 DEF InForce
  <2> QED BY <2>1, <2>2, NewcomerIsAhead DEF Excused
<1>7. run.pc \in {"filter", "output"} /\ Covered => Covered'
  BY <1>1, <1>3, <1>6 DEF Covered
<1>8. run.pc \in {"persist", "rename"} /\ Passed(Claim) => Passed(Claim)'
  BY <1>1, <1>3, <1>6 DEF Passed
<1> QED BY <1>1, <1>2, <1>4, <1>5, <1>7, <1>8 DEF ResumeInv

(* A failing stage returns, and leaves the cursor the input holds alone.   *)
LEMMA FailWithKeeps ==
  ASSUME NEW error, NEW closed, FailWith(error, closed), TypeOK
  PROVE  chain'.lastState = chain.lastState /\ run'.pc = "returned"
  BY DEF FailWith, TypeOK, RunType

(* The steps that receive nothing and save nothing: what they leave of the *)
(* cursors, of the batch and of the phase.                                 *)
LEMMA QuietStep ==
  ASSUME TypeOK, ResumeInv,
         UNCHANGED <<config, source, stamp, withheld, delivered, settled>>,
         file' = file,
         chain'.lastState \in {chain.lastState, file, NoState},
         run'.pc \notin {"filter", "persist", "rename"},
         run'.pc = "output" => /\ run.pc = "filter" /\ run'.fetched = run.fetched
                              /\ run'.startedAt = run.startedAt /\ run'.lastID = run.lastID
  PROVE  ResumeInv'
<1>1. \A i : Excused(i)' <=> Excused(i)
  BY DEF Excused, Handled
<1>2. ASSUME ~config.dryRun
      PROVE  /\ Passed(file)' /\ Passed(chain.lastState)'
             /\ run'.pc = "output" => Covered'
  <2>1. Passed(file) /\ Passed(chain.lastState) /\ Passed(NoState)
    BY <1>2, NothingBehindNoState DEF ResumeInv
  <2>2. Passed(file)' /\ Passed(chain.lastState)'
    BY <1>1, <2>1, StaysPassed
  <2>3. ASSUME run'.pc = "output" PROVE Covered'
    <3>1. Claim' = Claim
      BY <2>3 DEF Claim
    <3>2. Covered
      BY <1>2, <2>3 DEF ResumeInv
    <3> QED BY <1>1, <2>3, <3>1, <3>2, StaysPassed
  <2> QED BY <2>2, <2>3
<1> QED BY <1>2 DEF ResumeInv

(* After a fetch, what its watermark passes is in the batch, was handled   *)
(* or was left out of the answer.                                          *)
LEMMA InputResumeInv ==
  ASSUME TypeOK, ResumeInv, ExecuteInput
  PROVE  ResumeInv'
<1> USE DEF world, disk
<1>1. CASE FailWith("input", {"input"}) /\ UNCHANGED withheld
  BY <1>1, FailWithKeeps, QuietStep DEF ExecuteInput
<1>2. ASSUME NEW fetched, NEW lastID, Fetches(fetched, lastID)
      PROVE  ResumeInv'
  <2>1. UNCHANGED <<config, source, stamp, file, delivered, settled>>
    BY DEF ExecuteInput
  <2>2. chain'.lastState = chain.lastState /\ withheld \subseteq withheld'
    BY <1>2 DEF Fetches, TypeOK
  <2>3. /\ run'.pc = "filter" /\ run'.fetched = fetched /\ run'.startedAt = run.startedAt
        /\ run'.lastID = lastID
    BY <1>2 DEF Fetches, TypeOK, RunType
  <2>4. \A i : Excused(i) => Excused(i)'
    BY <2>1, <2>2 DEF Excused, Handled
  <2>5. ASSUME ~config.dryRun
        PROVE  Passed(file)' /\ Passed(chain.lastState)' /\ Covered'
    <3>1. Passed(file) /\ Passed(chain.lastState)
      BY <2>5 DEF ResumeInv
    <3>2. Passed(file)' /\ Passed(chain.lastState)'
      BY <2>1, <2>2, <2>4, <3>1, StaysPassed
    <3>3. ASSUME NEW i \in source', Behind(i, Cursor(Claim))'
          PROVE  i \in run'.fetched \/ Excused(i)'
      <4>1. i \in source /\ (i \notin Selected => Excused(i))
        BY <2>1, <3>1 DEF Selected, Passed
      <4>2. config.ts \/ ~config.id \/ i <= lastID
        <5> SUFFICES ASSUME ~config.ts, config.id PROVE i <= lastID
          OBVIOUS
        <5>1. Cursor(Claim)'.ts = 0 /\ Cursor(Claim)'.id = lastID
          BY <2>1, <2>3 DEF Cursor, Claim
        <5>2. stamp[i] < FormatTimestamp(0) \/ i <= lastID
          BY <2>1, <3>3, <5>1 DEF Behind, FormatTimestamp
        <5> QED BY <4>1, <5>2, NothingBeforeNil
      <4>3. ASSUME i \in Selected \ fetched PROVE i \in withheld'
        <5>1. i \in {k \in Selected \ fetched : config.ts \/ ~config.id \/ k <= lastID}
          BY <4>2, <4>3
        <5> QED BY <1>2, <5>1 DEF Fetches
      <4> QED BY <2>3, <2>4, <4>1, <4>3 DEF Excused
    <3> QED BY <3>2, <3>3 DEF Covered
  <2> QED BY <2>1, <2>3, <2>5 DEF ResumeInv
<1> QED BY <1>1, <1>2, InputFetches

(* What is received stays received, and what is settled settled.           *)
LEMMA OutputKeepsExcused ==
  ASSUME TypeOK, ExecuteOutput
  PROVE  \A i \in source : Excused(i) => Excused(i)'
<1> USE DEF world
<1> SUFFICES ASSUME NEW i \in source, Excused(i) PROVE Excused(i)'
  OBVIOUS
<1>1. i \in RecordIds /\ delivered[i] \in Nat
  BY DEF TypeOK
<1>2. settled \subseteq settled' /\ withheld' = withheld
  BY DEF ExecuteOutput
<1>3. delivered' = delivered \/ \E S : Receive(S)
  BY DEF ExecuteOutput
<1>4. delivered[i] > 0 => delivered'[i] > 0
  BY <1>1, <1>3 DEF Receive
<1> QED BY <1>2, <1>4 DEF Excused, Handled

(* Once the output has taken the batch, all that the watermark of the      *)
(* execution passes is handled or was withheld.                            *)
LEMMA OutputResumeInv ==
  ASSUME TypeOK, ResumeInv, ExecuteOutput
  PROVE  ResumeInv'
<1> USE DEF world, disk
<1>1. /\ UNCHANGED <<config, source, stamp, withheld, file>>
      /\ chain'.lastState = chain.lastState
      /\ run.pc = "output" /\ run'.pc \in {"persist", "returned"}
      /\ run'.startedAt = run.startedAt /\ run'.lastID = run.lastID
      /\ run'.fetched = run.fetched
  <2>1. UNCHANGED <<config, source, stamp, withheld, file>> /\ run.pc = "output"
    BY DEF ExecuteOutput
  <2>2. chain'.lastState = chain.lastState
    BY DEF ExecuteOutput, TypeOK
  <2>3. /\ run'.pc \in {"persist", "returned"}
        /\ run'.startedAt = run.startedAt /\ run'.lastID = run.lastID
        /\ run'.fetched = run.fetched
    BY ZenonT(30) DEF ExecuteOutput, TypeOK, RunType
  <2> QED BY <2>1, <2>2, <2>3
<1>2. Claim' = Claim
  BY <1>1 DEF Claim
<1>3. ASSUME ~config.dryRun
      PROVE  Passed(file)' /\ Passed(chain.lastState)'
  <2>1. Passed(file) /\ Passed(chain.lastState)
    BY <1>3 DEF ResumeInv
  <2> QED BY <1>1, <2>1, OutputKeepsExcused, StaysPassed
<1>4. ASSUME ~config.dryRun, run'.pc = "persist"
      PROVE  Passed(Claim)'
  <2>1. PICK sent \in SUBSET run.kept :
           Receive(sent) /\ settled' = settled \cup (run.fetched \ sent)
    BY <1>4 DEF ExecuteOutput, TypeOK, RunType
  <2>2. ASSUME NEW i \in source, i \in run.fetched PROVE Handled(i)'
    <3>1. i \in RecordIds /\ delivered[i] \in Nat
      BY DEF TypeOK
    <3>2. CASE i \in sent
      BY <2>1, <3>1, <3>2 DEF Receive, Handled
    <3>3. CASE i \notin sent
      BY <2>1, <2>2, <3>3 DEF Handled
    <3> QED BY <3>2, <3>3
  <2>3. Covered
    BY <1>1, <1>4 DEF ResumeInv
  <2>4. ASSUME NEW i \in source, Behind(i, Cursor(Claim)) PROVE Excused(i)'
    BY <2>2, <2>3, <2>4, OutputKeepsExcused DEF Covered, Excused
  <2> QED BY <1>1, <1>2, <2>4 DEF Passed, Behind, Cursor, FormatTimestamp
<1> QED BY <1>1, <1>3, <1>4 DEF ResumeInv

(* Saving moves a state that passes only excused records into the file, by *)
(* way of the temporary one.                                               *)
LEMMA SaveResumeInv ==
  ASSUME TypeOK, ResumeInv, WriteTempFile \/ RenameStateFile
  PROVE  ResumeInv'
<1> USE DEF world, disk
<1>1. /\ UNCHANGED <<config, source, stamp, withheld, chain, delivered, settled>>
      /\ run'.startedAt = run.startedAt /\ run'.lastID = run.lastID
      /\ run.pc \in {"persist", "rename"} /\ run'.pc \in {"rename", "finalize"}
  BY DEF WriteTempFile, RenameStateFile, GoTo, TypeOK, RunType
<1>2. CASE file' = file /\ run'.pc = "finalize"
  BY <1>1, <1>2, QuietStep
<1>3. NewState' = NewState /\ Claim' = Claim /\ \A i : Excused(i)' <=> Excused(i)
  BY <1>1 DEF NewState, Claim, Excused, Handled
<1>4. ASSUME ~config.dryRun
      PROVE  Passed(NewState) /\ Passed(Claim)' /\ Passed(file) /\ Passed(chain.lastState)'
  <2>1. Passed(Claim) /\ Passed(file) /\ Passed(chain.lastState)
    BY <1>1, <1>4 DEF ResumeInv
  <2>2. Passed(NewState)
    BY <2>1, NewStateIsClaim DEF Passed
  <2> QED BY <1>1, <1>3, <2>1, <2>2, StaysPassed
<1>5. CASE file' = file /\ tmp' = NewState /\ run'.pc = "rename"
  <2>1. ~config.dryRun => Passed(file)'
    BY <1>1, <1>3, <1>4, <1>5, StaysPassed
  <2> QED BY <1>1, <1>3, <1>4, <1>5, <2>1 DEF ResumeInv
<1>6. CASE file' = NewState /\ run'.pc = "finalize"
  <2>1. ~config.dryRun => Passed(file)'
    BY <1>1, <1>3, <1>4, <1>6, StaysPassed
  <2> QED BY <1>1, <1>4, <1>6, <2>1, NewStateIsClaim DEF ResumeInv
<1>7. \/ file' = file /\ run'.pc = "finalize"
      \/ file' = file /\ tmp' = NewState /\ run'.pc = "rename"
      \/ file' = NewState /\ run'.pc = "finalize"
  <2>1. CASE WriteTempFile
    BY <2>1 DEF WriteTempFile, GoTo, TypeOK, RunType
  <2>2. CASE RenameStateFile
    BY <2>2 DEF RenameStateFile, GoTo, TypeOK, RunType, ResumeInv
  <2> QED BY <2>1, <2>2
<1> QED BY <1>2, <1>5, <1>6, <1>7

(* Every step, a crash included, keeps the invariant. *)
LEMMA NextResumeInv == TypeOK /\ ResumeInv /\ [Next]_vars => ResumeInv'
<1> SUFFICES ASSUME TypeOK, ResumeInv, [Next]_vars PROVE ResumeInv'
  OBVIOUS
<1> USE DEF world, disk
<1>1. CASE UNCHANGED <<config, source, stamp, withheld, file, tmp, chain, run, delivered, settled>>
  <2>1. NewState' = NewState /\ Claim' = Claim /\ \A i : Excused(i)' <=> Excused(i)
    BY <1>1 DEF NewState, Claim, Excused, Handled
  <2>2. /\ Passed(file) => Passed(file)'
        /\ Passed(chain.lastState) => Passed(chain.lastState)'
        /\ Passed(Claim) => Passed(Claim)'
        /\ Covered => Covered'
    BY <1>1, <2>1, StaysPassed
  <2> QED BY <1>1, <2>1, <2>2 DEF ResumeInv
<1>2. CASE CreateRecord
  BY <1>2, CreateResumeInv
<1>3. CASE BeginExecution
  <2>1. /\ run'.pc = "setup"
        /\ chain'.lastState \in {chain.lastState, NoState}
    BY <1>3 DEF BeginExecution, IdleRun, FreshChain
  <2> QED BY <1>3, <2>1, QuietStep DEF BeginExecution
<1>4. CASE SetupStatePersistence
  <2>1. /\ run'.pc = "connect"
        /\ chain'.lastState \in {chain.lastState, file}
    BY <1>4 DEF SetupStatePersistence, GoTo, TypeOK, RunType
  <2> QED BY <1>4, <2>1, QuietStep DEF SetupStatePersistence
<1>5. CASE ConnectOutput
  <2>1. CASE GoTo("input") /\ UNCHANGED chain
    <3>1. run'.pc = "input"
      BY <2>1 DEF GoTo, TypeOK, RunType
    <3> QED BY <1>5, <2>1, <3>1, QuietStep DEF ConnectOutput
  <2>2. CASE FailWith("nil", {})
    BY <1>5, <2>2, FailWithKeeps, QuietStep DEF ConnectOutput
  <2> QED BY <1>5, <2>1, <2>2 DEF ConnectOutput
<1>6. CASE ExecuteInput
  BY <1>6, InputResumeInv
<1>7. CASE ExecuteFilters
  <2>1. CASE FailWith("filter", {})
    BY <1>7, <2>1, FailWithKeeps, QuietStep DEF ExecuteFilters
  <2>2. ASSUME NEW kept, run' = [run EXCEPT !.pc = "output", !.kept = kept], UNCHANGED chain
        PROVE  ResumeInv'
    <3>1. /\ run'.pc = "output" /\ run'.fetched = run.fetched
          /\ run'.startedAt = run.startedAt /\ run'.lastID = run.lastID
      BY <2>2 DEF TypeOK, RunType
    <3> QED BY <1>7, <2>2, <3>1, QuietStep DEF ExecuteFilters
  <2> QED BY <1>7, <2>1, <2>2 DEF ExecuteFilters
<1>8. CASE ExecuteOutput
  BY <1>8, OutputResumeInv
<1>9. CASE WriteTempFile \/ RenameStateFile
  BY <1>9, SaveResumeInv
<1>10. CASE FinalizeSuccess
  <2>1. /\ run'.pc = "returned"
        /\ chain'.lastState = chain.lastState
    BY <1>10 DEF FinalizeSuccess, TypeOK, RunType
  <2> QED BY <1>10, <2>1, QuietStep DEF FinalizeSuccess
<1>11. CASE ReturnToCaller \/ Crash
  <2>1. /\ run'.pc = "idle"
        /\ chain'.lastState \in {chain.lastState, NoState}
    BY <1>11 DEF ReturnToCaller, Crash, IdleRun, NoChain
  <2>2. UNCHANGED <<config, source, stamp, withheld, file, delivered, settled>>
    BY <1>11 DEF ReturnToCaller, Crash
  <2> QED BY <2>1, <2>2, QuietStep
<1>12. CASE Tick \/ UNCHANGED vars
  BY <1>1, <1>12 DEF Tick, vars
<1> QED BY <1>2, <1>3, <1>4, <1>5, <1>6, <1>7, <1>8, <1>9, <1>10, <1>11, <1>12
        DEF Next, ExecutionStep

(* Whatever fails, whenever the process dies, with one cursor, both or     *)
(* none, whatever clock stamps the records and in whatever order they      *)
(* show: the state file can be read, and each record it keeps out of later *)
(* fetches was handled, or was shown behind a watermark or left out of an  *)
(* answer (ExecuteWithContext, persistState, Save).                        *)
THEOREM ExecutorResumes == Spec => []ResumeIsSafe
<1>1. TypeOK /\ ResumeInv => ResumeIsSafe
  BY DEF ResumeInv, Passed, Excused, ResumeIsSafe, StateFileReadable, NoRecordLost
<1> QED BY <1>1, InitType, NextType, InitResumeInv, NextResumeInv, PTL DEF Spec

-----------------------------------------------------------------------------
(* Nothing is delivered twice without need.                                *)

Delivered(i) == delivered[i] > 0

(* With the ID cursor alone, and nothing gone wrong: what was delivered is *)
(* behind the saved ID, or behind the ID about to be saved; what is in the *)
(* batch lies between the two.                                             *)
Unique ==
    /\ \A i \in RecordIds : delivered[i] <= 1
    /\ run.pc \notin {"persist", "rename"} =>
          \A i \in RecordIds : Delivered(i) => i <= file.id
    /\ run.pc \in {"persist", "rename"} =>
          \A i \in RecordIds : Delivered(i) => i <= file.id \/ i <= run.lastID
    /\ run.pc \in {"connect", "input"} => chain.lastState = file
    /\ run.pc \in {"filter", "output"} =>
          \A i \in run.fetched : file.id < i /\ i <= run.lastID
    /\ run.pc = "output" => run.kept \subseteq run.fetched
    /\ run.pc \in {"filter", "output", "persist", "rename"} =>
          run.lastID = 0 \/ file.id < run.lastID
    /\ run.pc = "rename" => run.lastID # 0

NothingWrong == config.id /\ config.ordered /\ failures = 0 /\ crashes = 0

UniqueInv == config \in Configs /\ (NothingWrong => Unique)

OneCursorEach == \A c \in Configs : ~(c.ts /\ c.id)

(* Initially nothing was delivered. *)
LEMMA InitUniqueInv == Init => UniqueInv
  BY DEF Init, UniqueInv, Unique, Delivered, IdleRun

(* With the ID cursor alone, what is fetched lies beyond the saved ID. *)
LEMMA FetchedIsNew ==
  ASSUME TypeOK, ~config.ts, config.id, chain.lastState = file, NEW i \in Selected
  PROVE  file.id < i
<1>1. i \in Nat /\ file.id \in Nat /\ Cursor(file).id = file.id
  BY ExecutorAssumption DEF TypeOK, StateType, Cursor, RecordIds, Selected
<1>2. ~(i <= Cursor(file).id)
  BY DEF Selected, Behind
<1> QED BY <1>1, <1>2

(* Every step of executions with one cursor each keeps what was delivered  *)
(* behind the cursor.                                                      *)
LEMMA NextUniqueInv ==
  ASSUME OneCursorEach, TypeOK, ResumeInv, UniqueInv, [Next]_vars
  PROVE  UniqueInv'
<1> USE DEF world, disk
<1>1. config' = config
  BY DEF Next, ExecutionStep, Tick, CreateRecord, BeginExecution, SetupStatePersistence,
         ConnectOutput, ExecuteInput, ExecuteFilters, ExecuteOutput, WriteTempFile,
         RenameStateFile, FinalizeSuccess, ReturnToCaller, Crash, vars
<1> SUFFICES ASSUME NothingWrong' PROVE Unique'
  BY <1>1 DEF UniqueInv
<1>2. failures \in Nat /\ crashes \in Nat /\ failures' = 0 /\ crashes' = 0
  BY ExecutorAssumption DEF TypeOK, NothingWrong
<1>3. \A error, closed : ~FailWith(error, closed)
  BY <1>2 DEF FailWith
<1>4. failures = 0 /\ crashes = 0
  <2>1. failures' # failures + 1 /\ crashes' # crashes + 1
    BY <1>2
  <2> QED BY <1>2, <1>3, <2>1
        DEF Next, ExecutionStep, Tick, CreateRecord, BeginExecution, SetupStatePersistence,
            ConnectOutput, ExecuteInput, ExecuteFilters, ExecuteOutput, WriteTempFile,
            RenameStateFile, FinalizeSuccess, ReturnToCaller, Crash, vars
<1>5. Unique /\ config.id /\ ~config.ts
  BY <1>1, <1>4 DEF UniqueInv, NothingWrong, OneCursorEach, TypeOK, ConfigType
<1>6. CASE /\ UNCHANGED <<file, chain, run, delivered>>
  BY <1>5, <1>6 DEF Unique, Delivered
<1>7. CASE /\ UNCHANGED <<file, delivered>>
           /\ run'.pc \in {"idle", "setup", "returned", "finalize"}
           /\ run.pc \notin {"persist", "rename"}
  BY <1>5, <1>7 DEF Unique, Delivered
<1>8. CASE BeginExecution
  BY <1>7, <1>8 DEF BeginExecution, IdleRun
<1>9. CASE SetupStatePersistence
  <2>1. run'.pc = "connect" /\ run.pc = "setup"
    BY <1>9 DEF SetupStatePersistence, GoTo, TypeOK, RunType
  <2>2. chain'.lastState = file
    BY <1>2, <1>4, <1>9 DEF SetupStatePersistence, TypeOK, ResumeInv
  <2> QED BY <1>5, <1>9, <2>1, <2>2 DEF SetupStatePersistence, Unique, Delivered
<1>10. CASE ConnectOutput
  <2>1. run'.pc = "input" /\ run.pc = "connect" /\ UNCHANGED <<file, delivered, chain>>
    BY <1>3, <1>10 DEF ConnectOutput, GoTo, TypeOK, RunType
  <2> QED BY <1>5, <2>1 DEF Unique, Delivered
<1>11. CASE ExecuteInput
  <2>1. PICK fetched, lastID : Fetches(fetched, lastID)
    BY <1>3, <1>11, InputFetches
  <2>2. lastID \in LastReceived(fetched) /\ fetched \subseteq Selected
    BY <1>1, <1>2, <1>4, <2>1, <1>5 DEF Fetches, Answers, NothingWrong
  <2>3. /\ fetched # {} => lastID \in fetched
        /\ \A i \in fetched : i <= lastID
        /\ fetched = {} => lastID = 0
    BY <1>1, <2>2 DEF LastReceived, NothingWrong
  <2>4. /\ run'.pc = "filter" /\ run'.fetched = fetched /\ run'.lastID = lastID
        /\ run.pc = "input" /\ UNCHANGED <<file, delivered>>
    BY <1>11, <2>1 DEF ExecuteInput, Fetches, TypeOK, RunType
  <2>5. \A i \in fetched : file.id < i
    BY <1>5, <2>2, <2>4, FetchedIsNew DEF Unique
  <2> QED BY <1>5, <2>3, <2>4, <2>5 DEF Unique, Delivered
<1>12. CASE ExecuteFilters
  <2>1. PICK kept \in SUBSET run.fetched : run' = [run EXCEPT !.pc = "output", !.kept = kept]
    BY <1>3, <1>12 DEF ExecuteFilters
  <2>2. /\ run'.pc = "output" /\ run'.kept \subseteq run'.fetched /\ run'.fetched = run.fetched
        /\ run'.lastID = run.lastID /\ run.pc = "filter" /\ UNCHANGED <<file, delivered>>
    BY <1>12, <2>1 DEF ExecuteFilters, TypeOK, RunType
  <2> QED BY <1>5, <2>2 DEF Unique, Delivered
<1>13. CASE ExecuteOutput
  <2>1. /\ run'.pc = "persist" /\ run.pc = "output" /\ run'.lastID = run.lastID
        /\ file' = file
    <3>1. failures' # failures + 1
      BY <1>2, <1>4
    <3>2. \/ run' = [run EXCEPT !.pc = "persist", !.result.processed = Cardinality(run.kept)]
          \/ \E sent \in SUBSET run.kept :
                run' = [run EXCEPT !.pc = "persist",
                  !.result.processed = Cardinality(sent),
                  !.result.failed = Cardinality(run.kept \ sent)]
      BY <1>13, <3>1, Zenon DEF ExecuteOutput
    <3>3. run'.pc = "persist" /\ run'.lastID = run.lastID
      BY <3>2 DEF TypeOK, RunType
    <3>4. run.pc = "output" /\ file' = file
      BY <1>13 DEF ExecuteOutput
    <3> QED BY <3>3, <3>4
  <2>2. \/ delivered' = delivered
        \/ \E sent \in SUBSET run.kept : Receive(sent)
    BY <1>13 DEF ExecuteOutput
  <2>3. ASSUME NEW i \in RecordIds
        PROVE  delivered'[i] <= 1 /\ (delivered'[i] > 0 => i <= file.id \/ i <= run.lastID)
    <3>1. delivered[i] \in Nat /\ delivered[i] <= 1 /\ (delivered[i] > 0 => i <= file.id)
      BY <1>5, <2>1 DEF Unique, Delivered, TypeOK
    <3>2. i \in run.kept => file.id < i /\ i <= run.lastID
      BY <1>5, <2>1 DEF Unique
    <3>3. i \in run.kept => delivered[i] = 0
      <4>1. i \in Nat /\ file.id \in Nat
        BY ExecutorAssumption DEF TypeOK, StateType, RecordIds
      <4> QED BY <3>1, <3>2, <4>1
    <3>4. CASE delivered' = delivered
      BY <3>1, <3>4
    <3>5. ASSUME NEW sent \in SUBSET run.kept, Receive(sent)
          PROVE  delivered'[i] = IF i \in sent THEN delivered[i] + 1 ELSE delivered[i]
      BY <3>1, <3>5 DEF Receive
    <3> QED BY <2>2, <3>1, <3>2, <3>3, <3>4, <3>5
  <2> QED BY <1>5, <2>1, <2>3 DEF Unique, Delivered
<1>14. CASE WriteTempFile
  <2>1. /\ UNCHANGED <<file, delivered>> /\ run.pc = "persist" /\ run'.lastID = run.lastID
        /\ \/ run'.pc = "finalize" /\ NewState = NoState
           \/ run'.pc = "rename" /\ NewState # NoState
    BY <1>2, <1>4, <1>14 DEF WriteTempFile, GoTo, TypeOK, RunType
  <2>2. NewState = NoState <=> run.lastID = 0
    BY <1>5 DEF NewState, NoState
  <2>3. \A i \in RecordIds : ~(i <= 0)
    BY ExecutorAssumption DEF RecordIds
  <2> QED BY <1>5, <2>1, <2>2, <2>3 DEF Unique, Delivered
<1>15. CASE RenameStateFile
  <2>1. /\ run.pc = "rename" /\ run'.pc = "finalize" /\ delivered' = delivered /\ file' = tmp
    BY <1>2, <1>4, <1>15 DEF RenameStateFile, GoTo, TypeOK, RunType
  <2>2. file'.id = run.lastID
    BY <1>5, <2>1 DEF ResumeInv, NewState
  <2>3. file.id < run.lastID
    BY <1>5, <2>1 DEF Unique
  <2>4. ASSUME NEW i \in RecordIds, Delivered(i) PROVE i <= file'.id
    <3>1. i \in Nat /\ file.id \in Nat /\ run.lastID \in Nat
      BY ExecutorAssumption DEF TypeOK, StateType, RunType, RecordIds
    <3>2. i <= file.id \/ i <= run.lastID
      BY <1>5, <2>1, <2>4 DEF Unique
    <3> QED BY <2>2, <2>3, <3>1, <3>2
  <2> QED BY <1>5, <2>1, <2>4 DEF Unique, Delivered
<1>16. CASE FinalizeSuccess
  <2>1. run'.pc = "returned"
    BY <1>16 DEF FinalizeSuccess, TypeOK, RunType
  <2> QED BY <1>7, <1>16, <2>1 DEF FinalizeSuccess
<1>17. CASE ReturnToCaller
  BY <1>7, <1>17 DEF ReturnToCaller, IdleRun
<1>18. CASE Crash
  BY <1>2, <1>4, <1>18 DEF Crash
<1> QED BY <1>6, <1>8, <1>9, <1>10, <1>11, <1>12, <1>13, <1>14, <1>15, <1>16, <1>17, <1>18
        DEF Next, ExecutionStep, Tick, CreateRecord, vars

(* No execution enables both cursors, the ID cursor is on, and the source  *)
(* answers in the order of the IDs: nothing is delivered twice unless      *)
(* something failed or the process died (ExtractLastID, persistState).     *)
THEOREM ExecutorUnique ==
  ASSUME OneCursorEach
  PROVE  Spec => []NoNeedlessDuplicate
<1>1. TypeOK /\ UniqueInv => NoNeedlessDuplicate
  <2> SUFFICES ASSUME TypeOK, UniqueInv, NothingWrong, NEW i \in source
               PROVE  delivered[i] <= 1
    BY DEF NoNeedlessDuplicate, NothingWrong
  <2>1. i \in RecordIds
    BY DEF TypeOK
  <2> QED BY <2>1 DEF UniqueInv, Unique
<1>2. TypeOK /\ ResumeInv /\ UniqueInv /\ [Next]_vars => UniqueInv'
  BY NextUniqueInv
<1> QED BY <1>1, <1>2, InitType, NextType, InitResumeInv, NextResumeInv, InitUniqueInv, PTL DEF Spec
=============================================================================
