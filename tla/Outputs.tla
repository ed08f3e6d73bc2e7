------------------------------ MODULE Outputs ------------------------------
(***************************************************************************)
(* Send of the output modules httpRequest, soapRequest and database        *)
(* (internal/modules/output), with the destination they write to.  The     *)
(* three share one shape: the batch is cut into units (requests or         *)
(* statements), each unit is rendered and attempted, and onError decides   *)
(* what its failure does to the rest.                                      *)
(*                                                                         *)
(* What a record holds is left out: rendering it may fail, a request or a  *)
(* statement may be accepted or not, and the answer to an accepted one may *)
(* be lost.  The destination counts how often it took each record.         *)
(***************************************************************************)
EXTENDS Batch, FiniteSets

CONSTANT OutputConfigs  \* output modules to consider

(* single: requestMode single, or a statement per record.  size: batchSize,*)
(* 0 when not given.  body: a template, the records as JSON, or nothing for*)
(* a method without a default body (GET, DELETE).  named: the endpoint, the*)
(* query or the headers name fields of a record.  attempts: 1 +            *)
(* retry.maxAttempts.                                                      *)
OutputConfig == [kind : {"http", "soap", "database"}, single : BOOLEAN, size : Nat,
                 body : {"template", "records", "none"}, named : BOOLEAN,
                 onError : {"fail", "skip", "log"}, attempts : Nat \ {0}, tx : BOOLEAN,
                 driver : {"none", "postgres", "mysql", "sqlite"}]

(* normalizeBatchSize: a batch size belongs to batch mode.                 *)
BatchSizeBelongs(o) == o.single => o.size = 0

(* What the constructors let through.                                      *)
NewHTTPRequest(o) == ~o.tx /\ o.driver = "none" /\ BatchSizeBelongs(o)
NewSOAPRequest(o) == NewHTTPRequest(o) /\ o.body = "template"
NewDatabaseOutput(o) ==
    /\ o.single /\ o.body = "template" /\ BatchSizeBelongs(o)
    /\ o.attempts = 1          \* a statement is never retried
    /\ o.driver # "none"

WellFormed(o) ==
    CASE o.kind = "http" -> NewHTTPRequest(o)
      [] o.kind = "soap" -> NewSOAPRequest(o)
      [] OTHER -> NewDatabaseOutput(o)

ASSUME OutputsAssumption == \A o \in OutputConfigs : o \in OutputConfig /\ WellFormed(o)

VARIABLES output,    \* the module's configuration, NoOutput until Send is called
          badBody,   \* records whose body, SOAP body or SQL does not render
          badUrl,    \* records whose endpoint, query or headers do not
          db,        \* the database pool: "none", "open" or "closed"
          send,      \* local variables of Send
          received,  \* how often the destination took each record
          lost       \* history: units taken whose answer was lost

outputVars == <<output, badBody, badUrl, db, send, received, lost>>

(* What a step of Send leaves alone. *)
fixed == <<records, cancelled, output, badBody, badUrl, db>>

NoOutput == [kind |-> "none"]

Send == [pc : {"idle", "unit", "attempt", "commit", "returned"},
         unit : Nat \ {0}, tries : Nat, sent : Nat,
         written : SUBSET Ids,     \* rows of the open transaction
         aborted : BOOLEAN,        \* ... which the server will not commit
         rolledBack : BOOLEAN,     \* ... or has ended: each statement commits itself
         failed : BOOLEAN]         \* Send returned an error

Idle == [pc |-> "idle", unit |-> 1, tries |-> 0, sent |-> 0, written |-> {},
         aborted |-> FALSE, rolledBack |-> FALSE, failed |-> FALSE]

OutputType ==
    /\ output \in OutputConfigs \cup {NoOutput}
    /\ badBody \subseteq Ids /\ badUrl \subseteq Ids
    /\ db \in {"none", "open", "closed"}
    /\ send \in Send
    /\ received \in [Ids -> Nat]
    /\ lost \in Nat

OutputInit ==
    /\ output = NoOutput
    /\ badBody = {} /\ badUrl = {}
    /\ db = "none"
    /\ send = Idle
    /\ received = [r \in Ids |-> 0]
    /\ lost = 0

-----------------------------------------------------------------------------
(* The units of a batch.                                                   *)

(* chunkRecords: without a size the whole batch is one unit.               *)
UnitSize == IF output.single THEN 1
            ELSE IF output.size = 0 THEN Len(records) ELSE output.size

Unit(u) == {records[i] : i \in {j \in 1 .. Len(records) :
                                  (u - 1) * UnitSize < j /\ j <= u * UnitSize}}

MoreUnits == (send.unit - 1) * UnitSize < Len(records)

-----------------------------------------------------------------------------
(* Rendering. A record that does not render fails the unit it is in, if    *)
(* its part of the unit is rendered at all.                                *)

(* buildBodyForRecord, or the SQL of one record.                           *)
BodyRenders(u) == output.body # "none" => badBody \cap Unit(u) = {}

(* A batch renders its body template from its first record, and without    *)
(* one encodes every record, unless its method has no body.                *)
FirstOf(u) == {records[i] : i \in DOMAIN records \cap {(u - 1) * UnitSize + 1}}

InBody(u) == CASE output.body = "template" -> FirstOf(u)
               [] output.body = "records"  -> Unit(u)
               [] OTHER -> {}
BatchBodyRenders(u) == badBody \cap InBody(u) = {}

(* resolveEndpointForBatch, and the headers: from the first record alone.  *)
BatchUrlRenders(u) == badUrl \cap FirstOf(u) = {}

(* resolveEndpointForRecord. *)
UrlRenders(u) == badUrl \cap Unit(u) = {}

(* soaputil.BuildOperation and BuildEnvelope: body, endpoint and headers   *)
(* from the record, or from the batch as one record.                       *)
EnvelopeRenders(u) == BodyRenders(u) /\ UrlRenders(u)

Renders(u) ==
    CASE output.kind = "http" /\ output.single  -> BodyRenders(u) /\ UrlRenders(u)
      [] output.kind = "http" /\ ~output.single -> BatchBodyRenders(u) /\ BatchUrlRenders(u)
      [] output.kind = "soap" -> EnvelopeRenders(u)
      [] OTHER -> BodyRenders(u)

-----------------------------------------------------------------------------
(* Send returns, a unit succeeds, a unit fails.                            *)

ReturnWith(err) == send' = [send EXCEPT !.pc = "returned", !.failed = err]

UnitSent ==
    send' = [send EXCEPT !.pc = "unit", !.unit = @ + 1, !.tries = 0,
                         !.sent = @ + Cardinality(Unit(send.unit))]

(* Fault: the failed unit is counted as sent.                              *)
UnitFails_Counts(aborted) ==
    send' = IF output.onError = "fail"
            THEN [send EXCEPT !.pc = "returned", !.failed = TRUE, !.written = {}]
            ELSE [send EXCEPT !.pc = "unit", !.unit = @ + 1, !.tries = 0,
                              !.sent = @ + Cardinality(Unit(send.unit)),
                              !.aborted = @ \/ aborted]

(* Fault: fail remembers its error and goes on.                            *)
UnitFails_GoesOn(aborted) ==
    send' = [send EXCEPT !.pc = "unit", !.unit = @ + 1, !.tries = 0,
                         !.failed = output.onError = "fail",
                         !.aborted = @ \/ aborted]

(* onError: fail returns what was sent so far, and rolls a transaction     *)
(* back; skip and log both go on with the next unit.                       *)
UnitFails(aborted) ==
    send' = IF output.onError = "fail"
            THEN [send EXCEPT !.pc = "returned", !.failed = TRUE, !.written = {}]
            ELSE [send EXCEPT !.pc = "unit", !.unit = @ + 1, !.tries = 0,
                              !.aborted = @ \/ aborted]

(* What a request or a statement carries of its unit: a batch its body and *)
(* what endpoint, query and headers render, which is the first record's;   *)
(* without a body, there is only the latter.                               *)
InUrl(u) == CASE ~output.named -> {}
              [] output.single -> Unit(u)
              [] OTHER -> FirstOf(u)
Carried(u) ==
    CASE output.kind # "http" -> Unit(u)
      [] output.single -> IF output.body = "none" THEN InUrl(u) ELSE Unit(u)
      [] OTHER -> InBody(u) \cup InUrl(u)

(* A request need not carry all of the unit that is counted as sent for it *)
(* (sendBatchMode adds len(batch)).                                        *)
CarriesPart ==
    /\ output.kind = "http"
    /\ IF output.single THEN output.body = "none" /\ ~output.named
                        ELSE output.body # "records"

Take(ids) == received' = [r \in Ids |-> received[r] + IF r \in ids THEN 1 ELSE 0]

-----------------------------------------------------------------------------
(* Connect and Close, of the database output; the others hold nothing.     *)

ConnectDatabase == db = "none" /\ db' = "open"

(* conn: the pool of the moment.                                           *)
PoolOpen == db = "open"

(* Another goroutine closes the module, before or during Send.             *)
CloseOutput ==
    /\ db = "open"
    /\ db' = "closed"
    /\ UNCHANGED <<records, cancelled, troubles, output, badBody, badUrl, send, received, lost>>

-----------------------------------------------------------------------------
(* Send begins.                                                            *)

(* The module and the batch meet; at most one record does not render in    *)
(* either way.                                                             *)
Configure(o) ==
    /\ output' = o
    /\ badBody' \in {{}} \cup {{r} : r \in ToSet(records)}
    /\ badUrl' \in (IF o.named THEN {{}} \cup {{r} : r \in ToSet(records)} ELSE {{}})

(* Nothing to send returns before anything is opened.                      *)
SendNothing(o) ==
    /\ records = <<>>
    /\ Configure(o) /\ ReturnWith(FALSE)
    /\ UNCHANGED <<db, received, lost, troubles>>

(* httpRequest and soapRequest start with their first unit.                *)
SendRequests(o) ==
    /\ records # <<>> /\ o.kind # "database"
    /\ Configure(o) /\ send' = [send EXCEPT !.pc = "unit"]
    /\ UNCHANGED <<db, received, lost, troubles>>

(* DatabaseOutput.Send connects, which fails once closed, then conn and    *)
(* BeginTx in transaction mode.                                            *)
SendStatements(o) ==
    /\ records # <<>> /\ o.kind = "database"
    /\ Configure(o)
    /\ \/ /\ db # "closed" /\ ~(o.tx /\ cancelled)
          /\ db' = "open" /\ send' = [send EXCEPT !.pc = "unit"] /\ UNCHANGED troubles
       \/ /\ db = "closed" \/ (o.tx /\ cancelled)
          /\ ReturnWith(TRUE) /\ UNCHANGED <<db, troubles>>
       \/ Trouble /\ ReturnWith(TRUE) /\ UNCHANGED db
    /\ UNCHANGED <<received, lost>>

-----------------------------------------------------------------------------
(* The loops over the units.                                               *)

(* Fault: a unit that does not render is taken up again.                   *)
StartUnit_Repeats == /\ IF Renders(send.unit) THEN send' = [send EXCEPT !.pc = "attempt"]
                                              ELSE UNCHANGED send
                     /\ UNCHANGED <<received, lost, troubles, fixed>>

StartUnit == /\ IF Renders(send.unit) THEN send' = [send EXCEPT !.pc = "attempt"]
                                      ELSE UnitFails(FALSE)
             /\ UNCHANGED <<received, lost, troubles, fixed>>

StopAtContext == ReturnWith(TRUE) /\ UNCHANGED <<received, lost, troubles, fixed>>

AtUnit(kind) == send.pc = "unit" /\ MoreUnits /\ output.kind = kind

(* sendBatchMode looks at ctx before every batch.                          *)
NextBatch ==
    /\ AtUnit("http") /\ ~output.single
    /\ IF cancelled THEN StopAtContext ELSE StartUnit

(* sendSingleRecordMode never does.                                        *)
NextRecord == AtUnit("http") /\ output.single /\ StartUnit

(* sendBatch and sendSingle of soapRequest both do.                        *)
NextEnvelope == AtUnit("soap") /\ (IF cancelled THEN StopAtContext ELSE StartUnit)

(* Neither loop of the database does.                                      *)
NextStatement == AtUnit("database") /\ StartUnit

(* No unit is left.                                                        *)
LastUnitDone ==
    /\ send.pc = "unit" /\ ~MoreUnits
    /\ IF output.tx THEN send' = [send EXCEPT !.pc = "commit"] ELSE ReturnWith(FALSE)
    /\ UNCHANGED <<received, lost, troubles, fixed>>

-----------------------------------------------------------------------------
(* Requests: doRequestWithHeaders and soapclient.Call, one attempt a step. *)

IsRequest == send.pc = "attempt" /\ output.kind # "database"

RequestSucceeds ==
    /\ IsRequest /\ ~cancelled
    /\ Take(Carried(send.unit)) /\ UnitSent
    /\ UNCHANGED <<lost, troubles, fixed>>

(* The next attempt, or the end of this unit when the error is fatal or    *)
(* no attempt is left.                                                     *)
RetryOrFail ==
    \/ send.tries + 1 < output.attempts /\ send' = [send EXCEPT !.tries = @ + 1]
    \/ UnitFails(FALSE)

RequestRefused ==
    /\ IsRequest /\ ~cancelled /\ Trouble
    /\ RetryOrFail
    /\ UNCHANGED <<received, lost, fixed>>

(* The destination took the records; the answer is late or gets lost.      *)
AnswerLost ==
    /\ IsRequest /\ ~cancelled /\ Trouble
    /\ Take(Carried(send.unit)) /\ lost' = lost + 1
    /\ RetryOrFail
    /\ UNCHANGED fixed

(* A request that ends without a retry, and without having been made:      *)
(* buildHTTPRequest refuses its URL or gets no token.                      *)
RequestNotBuilt ==
    /\ IsRequest /\ output.kind = "http" /\ send.tries = 0 /\ Trouble
    /\ UnitFails(FALSE)
    /\ UNCHANGED <<received, lost, fixed>>

(* soapclient.Call: an endpoint, header, attachment or token is not to be  *)
(* had.                                                                    *)
CallNotBuilt ==
    /\ IsRequest /\ output.kind = "soap" /\ send.tries = 0 /\ Trouble
    /\ UnitFails(FALSE)
    /\ UNCHANGED <<received, lost, fixed>>

(* ... or with an answer that is none of the success codes, or not what    *)
(* success.expression asks for.                                            *)
AnswerNotSuccess ==
    /\ IsRequest /\ output.kind = "http" /\ ~cancelled /\ Trouble
    /\ Take(Carried(send.unit)) /\ lost' = lost + 1
    /\ UnitFails(FALSE)
    /\ UNCHANGED fixed

(* A SOAP answer may besides be a fault, or no envelope at all.            *)
EnvelopeNotSuccess ==
    /\ IsRequest /\ output.kind = "soap" /\ ~cancelled /\ Trouble
    /\ Take(Carried(send.unit)) /\ lost' = lost + 1
    /\ UnitFails(FALSE)
    /\ UNCHANGED fixed

(* A request made, or waiting for its next attempt, when ctx is done.      *)
RequestInterrupted ==
    /\ IsRequest /\ cancelled
    /\ UnitFails(FALSE)
    /\ UNCHANGED <<received, lost, troubles, fixed>>

-----------------------------------------------------------------------------
(* Statements.                                                             *)

AtStatement(tx) == send.pc = "attempt" /\ output.kind = "database" /\ output.tx = tx

(* Without a transaction every statement looks the pool up again; once it  *)
(* is closed, Send stops whatever onError says.                            *)
StatementWithoutPool ==
    /\ AtStatement(FALSE) /\ ~PoolOpen
    /\ ReturnWith(TRUE)
    /\ UNCHANGED <<received, lost, troubles, fixed>>

(* Fault: a statement whose answer was lost is executed again.             *)
ExecuteAlone_Again ==
    /\ AtStatement(FALSE) /\ PoolOpen /\ ~cancelled
    /\ \/ Take(Unit(send.unit)) /\ UnitSent /\ UNCHANGED <<lost, troubles>>
       \/ Trouble /\ UnitFails(FALSE) /\ UNCHANGED <<received, lost>>
       \/ Trouble /\ Take(Unit(send.unit)) /\ lost' = lost + 1 /\ UNCHANGED send
    /\ UNCHANGED fixed

(* processRecordWithoutTransaction: done, failed, or done without answer.  *)
ExecuteAlone ==
    /\ AtStatement(FALSE) /\ PoolOpen /\ ~cancelled
    /\ \/ Take(Unit(send.unit)) /\ UnitSent /\ UNCHANGED <<lost, troubles>>
       \/ Trouble /\ UnitFails(FALSE) /\ UNCHANGED <<received, lost>>
       \/ Trouble /\ Take(Unit(send.unit)) /\ lost' = lost + 1 /\ UnitFails(FALSE)
    /\ UNCHANGED fixed

(* A statement of the transaction that BeginTx gave Send.                  *)
InTransaction == AtStatement(TRUE) /\ ~cancelled /\ ~send.aborted

(* Fault: the statement runs on the pool, not in the transaction.          *)
ExecuteInTransaction_OnPool ==
    /\ InTransaction /\ ~send.rolledBack
    /\ \/ Take(Unit(send.unit)) /\ UnitSent /\ UNCHANGED troubles
       \/ Trouble /\ UnitFails(FALSE) /\ UNCHANGED received
    /\ UNCHANGED <<lost, fixed>>

(* processRecordInTransaction: a failure may take the connection with it,  *)
(* and on PostgreSQL always ends the transaction.                          *)
ExecuteInTransaction ==
    /\ InTransaction /\ ~send.rolledBack
    /\ \/ /\ send' = [send EXCEPT !.pc = "unit", !.unit = @ + 1, !.tries = 0, !.sent = @ + 1,
                                  !.written = @ \cup Unit(send.unit)]
          /\ UNCHANGED troubles
       \/ /\ Trouble
          /\ \E ends \in BOOLEAN : (output.driver = "postgres" => ends) /\ UnitFails(ends)
    /\ UNCHANGED <<received, lost, fixed>>

(* MySQL at a deadlock, and SQLite at an interrupt or a full disk, roll the*)
(* whole transaction back.  handleDatabaseError treats that as any error of*)
(* one record.                                                             *)
TransactionLost ==
    /\ InTransaction /\ ~send.rolledBack
    /\ output.driver \in {"mysql", "sqlite"} /\ Trouble
    /\ send' = IF output.onError = "fail"
               THEN [send EXCEPT !.pc = "returned", !.failed = TRUE, !.written = {}]
               ELSE [send EXCEPT !.pc = "unit", !.unit = @ + 1, !.tries = 0, !.written = {},
                                 !.rolledBack = TRUE]
    /\ UNCHANGED <<received, lost, fixed>>

(* Outside a transaction the server commits every further statement.       *)
ExecuteAfterRollback ==
    /\ InTransaction /\ send.rolledBack
    /\ \/ Take(Unit(send.unit)) /\ UnitSent /\ UNCHANGED <<lost, troubles>>
       \/ /\ Trouble /\ UNCHANGED <<received, lost>>
          /\ \E ends \in BOOLEAN : UnitFails(ends)
       \/ Trouble /\ Take(Unit(send.unit)) /\ lost' = lost + 1 /\ UnitFails(TRUE)
    /\ UNCHANGED fixed

(* The rest of an aborted transaction, or of a canceled execution: BeginTx *)
(* was given ctx, so that its end rolls the transaction back.              *)
StatementRefused ==
    /\ \/ AtStatement(TRUE) /\ (cancelled \/ send.aborted)
       \/ AtStatement(FALSE) /\ PoolOpen /\ cancelled
    /\ UnitFails(output.tx)
    /\ UNCHANGED <<received, lost, troubles, fixed>>

(* Without a transaction there is nothing to commit: MySQL takes that for  *)
(* done, SQLite for an error.                                              *)
NothingToCommit == send.rolledBack /\ output.driver = "sqlite"

(* Commit; what it answers need not be what it did.                        *)
Commit ==
    /\ send.pc = "commit"
    /\ \/ /\ ~send.aborted /\ ~cancelled /\ ~NothingToCommit
          /\ Take(send.written) /\ ReturnWith(FALSE) /\ UNCHANGED <<lost, troubles>>
       \/ /\ send.aborted \/ cancelled \/ NothingToCommit
          /\ ReturnWith(TRUE) /\ UNCHANGED <<received, lost, troubles>>
       \/ /\ ~send.aborted /\ Trouble /\ ReturnWith(TRUE)
          /\ UNCHANGED <<received, lost>>
       \/ /\ ~send.aborted /\ Trouble /\ ReturnWith(TRUE)
          /\ Take(send.written) /\ lost' = lost + 1
    /\ UNCHANGED fixed

SendStep ==
    \/ NextBatch \/ NextRecord \/ NextEnvelope \/ NextStatement \/ LastUnitDone
    \/ RequestSucceeds \/ RequestRefused \/ AnswerLost \/ RequestNotBuilt
    \/ CallNotBuilt \/ AnswerNotSuccess \/ EnvelopeNotSuccess
    \/ RequestInterrupted
    \/ StatementWithoutPool \/ ExecuteAlone \/ ExecuteInTransaction
    \/ TransactionLost \/ ExecuteAfterRollback \/ StatementRefused \/ Commit

-----------------------------------------------------------------------------
(* PreviewOperations: the records each operation would carry, one entry an *)
(* operation; the first that does not render makes all of it fail.         *)

Units == {u \in 1 .. Len(records) : (u - 1) * UnitSize < Len(records)}

UnitLengths == [u \in 1 .. Cardinality(Units) |-> Cardinality(Unit(u))]

(* previewBatchMode and previewSingleRecordMode of httpRequest describe    *)
(* endpoint and headers, and the records in the place of the body.         *)
PreviewBatchMode == \A u \in Units : BatchUrlRenders(u)
PreviewSingleRecordMode == \A u \in Units : UrlRenders(u)

(* soapRequest builds the envelopes, the database output the statements.   *)
PreviewEnvelopes == \A u \in Units : EnvelopeRenders(u)
PreviewStatements == \A u \in Units : BodyRenders(u)

PreviewRenders ==
    CASE output.kind = "http" -> IF output.single THEN PreviewSingleRecordMode
                                                  ELSE PreviewBatchMode
      [] output.kind = "soap" -> PreviewEnvelopes
      [] OTHER -> PreviewStatements

(* DatabaseOutput groups the rows that share a statement.                  *)
StatementCounts ==
    {p \in UNION {[1 .. n -> 1 .. Len(records)] : n \in 0 .. Len(records)} :
        FoldSeq(LAMBDA x, y : x + y, 0, p) = Len(records)}

Previews == IF output.kind = "database" THEN StatementCounts ELSE {UnitLengths}

-----------------------------------------------------------------------------
(* What Send promises.                                                     *)

Returned == send.pc = "returned"
Taken == {r \in Ids : received[r] > 0}

(* The count Send returns is made of records the destination has: each of  *)
(* them is there, and what it has beyond them was taken by a request whose *)
(* answer was lost. Only three counts may claim more than was kept: that of*)
(* a transaction that returns an error (database.go:263 returns what it    *)
(* rolled back) or that the server has rolled back under skip or log, and  *)
(* that of requests which carry a part of what is counted for them.        *)
CountIsReceived ==
    Returned /\ output # NoOutput
      => /\ Cardinality(Taken) <= send.sent + lost * MaxRecords
         /\ ~(output.tx /\ (send.failed \/ send.rolledBack)) /\ ~CarriesPart
              => send.sent <= Cardinality(Taken)

(* What the first n units carry.                                           *)
CarriedUpTo(n) == UNION {Carried(u) : u \in 1 .. n}

(* onError fail stops at the first failure, so that the destination holds  *)
(* what an initial part of the batch carries, and all of it when Send      *)
(* reports no error. Unless a request carries a part of its unit, that is  *)
(* an initial part of the records, and all of them.                        *)
FailStopsInOrder ==
    output # NoOutput /\ output.onError = "fail"
      => /\ \E n \in 0 .. Len(records) :
               Taken = IF CarriesPart THEN CarriedUpTo(n) ELSE ToSet(SubSeq(records, 1, n))
         /\ Returned /\ ~send.failed =>
               Taken = IF CarriesPart THEN CarriedUpTo(Len(records)) ELSE ToSet(records)

(* A transaction shows its rows all together, when Send returns, or never; *)
(* the rows it shows are the ones counted.  The exception is a transaction *)
(* the server has rolled back by itself while skip or log went on: what    *)
(* comes after it is there, and what came before it is not.                *)
TransactionAllOrNothing ==
    output # NoOutput /\ output.tx /\ ~send.rolledBack /\ Taken # {}
      => Returned /\ Cardinality(Taken) = send.sent

(* A record reaches the destination twice only when the answer to a        *)
(* request that carried it was lost and it was retried.                    *)
DuplicatesNeedLostAnswers ==
    \A r \in Ids : /\ received[r] <= 1 + lost
                   /\ received[r] > 1 => output.attempts > 1

(* The destination after any failure, lost answer or end of ctx: it holds  *)
(* an initial part of the batch when Send stops at failures, all or        *)
(* nothing of a transaction, and no record twice without cause.            *)
DestinationIsExact ==
    FailStopsInOrder /\ TransactionAllOrNothing /\ DuplicatesNeedLostAnswers
=============================================================================
