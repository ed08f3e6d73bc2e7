------------------------------ MODULE Delivery ------------------------------
(***************************************************************************)
(* One execution from the input's records to its result                    *)
(* (executePipelineStages, internal/runtime/pipeline.go): the destination  *)
(* is connected, the batch fetched and cleaned, filtered, previewed in a   *)
(* dry run, sent, and accounted for.  FilterChain and Outputs model the    *)
(* two stages; the context may be done and the output closed at any point. *)
(***************************************************************************)
EXTENDS FilterChain, Outputs

VARIABLES dryRun,   \* the executor's mode; not looked at before the output stage,
                    \* except to leave the destination unconnected
          fetched,  \* the batch as the input returned it
          phase,    \* the stage under way
          result    \* ExecutionResult

vars == <<records, cancelled, troubles, chainVars, outputVars, dryRun, fetched, phase, result>>

NoResult == [status |-> "error", error |-> "nil", processed |-> 0, failed |-> 0,
             errorCounts |-> 0, preview |-> <<>>]

DeliveryType ==
    /\ BatchType /\ FilterTypeOK /\ OutputType
    /\ dryRun \in BOOLEAN
    /\ fetched \in Seq(Ids)
    /\ phase \in {"connect", "input", "filter", "preview", "output", "done"}
    /\ result \in [status : {"success", "error"}, processed : Nat, failed : Nat,
                   error : {"nil", "connect", "input", "filter", "output"},
                   errorCounts : Nat, preview : Seq(Nat)]

Init ==
    /\ BatchInit /\ FilterInit /\ OutputInit
    /\ dryRun = FALSE
    /\ fetched = <<>>
    /\ phase = "connect"
    /\ result = NoResult

FailWith(error) == phase' = "done" /\ result' = [result EXCEPT !.error = error]

TroubleOrCancel == Trouble \/ (cancelled /\ UNCHANGED troubles)

(* connectOutput: a database that cannot be reached fails the execution    *)
(* before anything is fetched; a dry run opens nothing.                    *)
ConnectOutput ==
    /\ phase = "connect"
    /\ \/ phase' = "input" /\ UNCHANGED <<db, result, troubles>>
       \/ ConnectDatabase /\ phase' = "input" /\ UNCHANGED <<result, troubles>>
       \/ TroubleOrCancel /\ FailWith("connect") /\ UNCHANGED db
    /\ UNCHANGED <<records, cancelled, chainVars, output, badBody, badUrl, send, received, lost, dryRun, fetched>>

(* reserveMetadataField: whatever the source sent as _metadata goes.       *)
ReserveMetadataField(sent) == {}

(* executeInput. A source may send fields named _metadata and _errors; the *)
(* runtime removes the first, not the second.                              *)
ExecuteInput ==
    /\ phase = "input"
    /\ \/ /\ \E n \in 0 .. MaxRecords :
                /\ fetched' = Fetched(n) /\ records' = Fetched(n)
                /\ \E errors \in {{}, 1 .. n} :
                      /\ carried' = errors
                      /\ marks' = [r \in Ids |-> IF r \in errors THEN 1 ELSE 0]
          /\ \E metadata \in SUBSET Aliases : aliases' = ReserveMetadataField(metadata)
          /\ phase' = "filter"
          /\ UNCHANGED <<result, troubles>>
       \/ TroubleOrCancel /\ FailWith("input") /\ UNCHANGED <<fetched, records, carried, marks, aliases>>
    /\ UNCHANGED <<cancelled, stage, stack, raised, stale, tally, used, outputVars, dryRun>>

ExecuteFilters ==
    /\ phase = "filter"
    /\ FilterStep
    /\ UNCHANGED <<outputVars, dryRun, fetched, phase, result>>

(* executeFilters returns an error: nothing is sent.                       *)
FiltersFailed ==
    /\ phase = "filter" /\ stack = <<>> /\ raised
    /\ FailWith("filter")
    /\ Forget /\ fetched' = <<>>
    /\ UNCHANGED <<records, cancelled, troubles, outputVars, dryRun>>

(* No filter is left: the tally becomes ErrorCounts.                       *)
FiltersDone ==
    /\ phase = "filter" /\ BetweenFilters
    /\ phase' = "output"
    /\ result' = [result EXCEPT !.errorCounts = tally]
    /\ Forget /\ fetched' = <<>>
    /\ UNCHANGED <<records, cancelled, troubles, outputVars, dryRun>>

(* A dry run: the executor has an output it has not connected.             *)
BeginDryRun ==
    /\ phase = "output" /\ db = "none" /\ send.pc = "idle"
    /\ dryRun' = TRUE
    /\ \E o \in OutputConfigs : Configure(o)
    /\ phase' = "preview"
    /\ UNCHANGED <<records, cancelled, troubles, chainVars, db, send, received, lost, fetched, result>>

(* executeDryRunPreview: a preview that fails is reported and changes      *)
(* nothing else; executeOutput counts every record without calling Send.   *)
ExecuteDryRunPreview ==
    /\ phase = "preview"
    /\ \E preview \in (IF PreviewRenders THEN Previews ELSE {<<>>}) :
          result' = [result EXCEPT !.status = "success", !.preview = preview,
                                   !.processed = Len(records)]
    /\ phase' = "done"
    /\ UNCHANGED <<records, cancelled, troubles, chainVars, outputVars, dryRun, fetched>>

BeginSend ==
    /\ phase = "output" /\ send.pc = "idle"
    /\ \E o \in OutputConfigs :
          /\ (o.kind = "database") = (db # "none")
          /\ SendNothing(o) \/ SendRequests(o) \/ SendStatements(o)
    /\ UNCHANGED <<records, cancelled, chainVars, dryRun, fetched, phase, result>>

ExecuteSend ==
    /\ phase = "output"
    /\ SendStep
    /\ UNCHANGED <<chainVars, dryRun, fetched, phase, result>>

(* Fault: an output without an error has no failed record.                 *)
OutputDone_ZeroFailed ==
    /\ phase = "output" /\ Returned
    /\ phase' = "done"
    /\ result' = [result EXCEPT !.status = IF send.failed THEN "error" ELSE "success",
                                !.error = IF send.failed THEN "output" ELSE "nil",
                                !.processed = send.sent,
                                !.failed = IF send.failed THEN Len(records) - send.sent ELSE 0]
    /\ UNCHANGED <<records, cancelled, troubles, chainVars, outputVars, dryRun, fetched>>

(* executeOutputWithResult: what was not sent has failed.                  *)
OutputDone ==
    /\ phase = "output" /\ Returned
    /\ phase' = "done"
    /\ result' = [result EXCEPT !.status = IF send.failed THEN "error" ELSE "success",
                                !.error = IF send.failed THEN "output" ELSE "nil",
                                !.processed = send.sent,
                                !.failed = Len(records) - send.sent]
    /\ UNCHANGED <<records, cancelled, troubles, chainVars, outputVars, dryRun, fetched>>

-----------------------------------------------------------------------------

Running == phase # "done"

(* SIGTERM, the stop of the scheduler, the end of a webhook's request.     *)
Cancel ==
    /\ Running /\ ~cancelled
    /\ cancelled' = TRUE
    /\ UNCHANGED <<records, troubles, chainVars, outputVars, dryRun, fetched, phase, result>>

(* A close before the output stage is not noticed before it either.        *)
Close ==
    /\ phase = "output" /\ CloseOutput
    /\ UNCHANGED <<chainVars, dryRun, fetched, phase, result>>

Step == \/ ConnectOutput \/ ExecuteInput
        \/ ExecuteFilters \/ FiltersFailed \/ FiltersDone
        \/ BeginDryRun \/ ExecuteDryRunPreview \/ BeginSend \/ ExecuteSend \/ OutputDone

Next == Step \/ Cancel \/ Close

Spec == Init /\ [][Next]_vars

(* The execution is a sequential program; the environment owes nothing.    *)
FairSpec == Spec /\ WF_vars(Step)

-----------------------------------------------------------------------------
Done == phase = "done"

OrderKept == phase = "filter" => OnlySkipOrDropRemoves(fetched)

(* A failed record does not go unnoticed (HandleRecordError, the markers   *)
(* and executeFilters): it stays in its place, marked, unless the step is  *)
(* configured to skip it.                                                  *)
FailuresShow == OrderKept /\ FailuresAreMarked

EndedEarly == result.error \in {"connect", "input", "filter"}

(* The result accounts for the batch: of the records that reached the      *)
(* output each is processed or failed; a run that ended earlier, and a dry *)
(* run, sent none.                                                         *)
ResultAccounts ==
    Done => /\ EndedEarly \/ result.processed + result.failed = Len(records)
            /\ EndedEarly \/ dryRun => Taken = {}

(* What the result says was processed is what the destination has, and the *)
(* rest is reported as failed (executeOutput, Send).                       *)
ResultIsHonest == ResultAccounts /\ CountIsReceived

(* The operations a preview shows carry every record between them.         *)
PreviewCountsAll ==
    dryRun /\ result.preview # <<>> =>
        FoldSeq(LAMBDA a, b : a + b, 0, result.preview) = result.processed

(* Every execution ends, whatever fails and whenever it is cancelled, and  *)
(* a preview that was rendered by then is complete.                        *)
DeliveryEnds == <>(Done /\ PreviewCountsAll)
=============================================================================
