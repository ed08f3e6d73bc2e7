------------------------------- MODULE Fetch -------------------------------
(***************************************************************************)
(* One Fetch of a polling input: httpPolling, soapPolling or database      *)
(* (internal/modules/input).  The source is a table in key order that      *)
(* other writers change between two requests; a fetch reads it in one      *)
(* answer, by page number, by offset or by cursor, and gives up at         *)
(* maxPaginationPages answers (the database loops have no such limit).     *)
(* The rows are those the rendered query selects: what the persisted state *)
(* makes of the query is Executor's subject.                               *)
(***************************************************************************)
EXTENDS Naturals, FiniteSets

CONSTANTS MaxKey,     \* bound: keys the source ever uses
          MaxPages,   \* maxPaginationPages; 1000 in the code
          MaxChanges, \* bound: rows inserted and deleted during the fetch
          MaxOAuth2Retries,
          Configs     \* the inputs considered

ASSUME FetchAssumption ==
    /\ MaxKey \in Nat /\ MaxPages \in Nat \ {0} /\ MaxChanges \in Nat /\ MaxOAuth2Retries \in Nat
    /\ Configs \subseteq [input : {"http", "soap", "database"},
                          type : {"single", "page", "offset", "cursor"},
                          limit : Nat \ {0},   \* what the request asks for
                          served : Nat \ {0},  \* the most the server answers
                          totals : BOOLEAN,    \* whether it counts pages, rows
                          \* what the request's template or the query's
                          \* parameters read of the pagination
                          binds : SUBSET {"limit", "position"},
                          returned : BOOLEAN]  \* cursorField is a column of the rows
    \* NewDatabaseInputFromConfig asks that a query by cursor binds something
    /\ \A c \in Configs : c.input = "database" /\ c.type = "cursor" => c.binds # {}

VARIABLES config,
          source,     \* keys of the rows there are
          junk,       \* of these, items that are no objects
          gone,       \* keys deleted: never used again
          changes,
          pos,        \* page, offset or cursor of the next request
          requests,   \* pages read, at most one more than MaxPages
          count,      \* len(allRecords), at most MaxKey
          got,        \* times each row was appended; 2 stands for more
          refreshes,  \* oauth2RetryCount
          cancelled,  \* ctx is done
          pc,         \* "capped" returns what was read, like "done"
          stable,     \* rows there since the fetch began
          pushed,     \* a row came in among those already passed
          pulled      \* one of those went

sourceVars == <<source, junk, gone, changes, stable, pushed, pulled>>
pageVars == <<pos, requests, count, got>>
vars == <<config, sourceVars, pageVars, refreshes, cancelled, pc>>

Keys == 1 .. MaxKey

Least(m, n) == IF m < n THEN m ELSE n

FetchInit ==
    /\ config \in Configs
    /\ source \in SUBSET Keys
    /\ junk \in IF config.input = "database" THEN {{}} ELSE {{}} \cup {{k} : k \in source}
    /\ gone = {} /\ changes = 0 /\ stable = source /\ pushed = FALSE /\ pulled = FALSE
    /\ pos = 0 /\ requests = 0 /\ count = 0 /\ got = [k \in Keys |-> 0]
    /\ refreshes = 0 /\ cancelled = FALSE /\ pc = "idle"

-----------------------------------------------------------------------------
(* The source.                                                             *)

Rank(k) == Cardinality({j \in source : j < k})

RowsAt(offset, n) == {k \in source : offset <= Rank(k) /\ Rank(k) < offset + n}

RowsAfter(key, n) == {k \in source : key < k /\ Rank(k) < n + Cardinality({j \in source : j <= key})}

PagesOf(rows, n) == (Cardinality(rows) + n - 1) \div n

Starts == IF config.type = "page" THEN 1 ELSE 0

(* The page, offset or cursor reaches the server.  A database query gets an*)
(* OFFSET when its parameters read nothing of the pagination; they may read*)
(* the limit alone, and a cursor that is no column of the rows is nil.     *)
Moves ==
    \/ config.type = "single"
    \/ "position" \in config.binds
       /\ (config.input = "database" /\ config.type = "cursor" => config.returned)
    \/ config.input = "database" /\ config.type = "offset" /\ config.binds = {}

At == IF Moves THEN pos ELSE Starts

(* What the server answers to the request for pos.                         *)
Answer ==
    CASE config.type = "single" -> source
      [] config.type = "page" -> RowsAt((At - 1) * config.served, config.served)
      [] config.type = "offset" -> RowsAt(At, Least(config.limit, config.served))
      [] config.type = "cursor" -> RowsAfter(At, Least(config.limit, config.served))

LastKey(rows) == CHOOSE k \in rows : \A j \in rows : j <= k

(* Rows the next page or offset counts on having passed.                   *)
Passed ==
    CASE config.type = "page" -> (pos - 1) * config.served
      [] config.type = "offset" -> pos
      [] OTHER -> 0

Change == pc = "request" /\ changes < MaxChanges /\ changes' = changes + 1
          /\ UNCHANGED <<config, junk, pageVars, refreshes, cancelled, pc>>

Insert(k) ==
    /\ Change
    /\ k \notin source \cup gone
    /\ source' = source \cup {k}
    /\ pushed' = (pushed \/ Rank(k) < Passed)
    /\ UNCHANGED <<gone, stable, pulled>>

Delete(k) ==
    /\ Change
    /\ k \in source
    /\ source' = source \ {k}
    /\ gone' = gone \cup {k}
    /\ stable' = stable \ {k}
    /\ pulled' = (pulled \/ Rank(k) < Passed)
    /\ UNCHANGED pushed

-----------------------------------------------------------------------------
(* Beginning and failing.                                                  *)

(* HTTPPolling.Fetch: the endpoint and its parameters may not render.      *)
BeginHTTP ==
    /\ pc = "idle" /\ config.input = "http"
    /\ refreshes' = 0
    /\ \/ pc' = "request" /\ pos' = Starts
       \/ pc' = "failed" /\ UNCHANGED pos
    /\ UNCHANGED <<config, sourceVars, requests, count, got, cancelled>>

(* SOAPPolling.Fetch: the body is rendered call by call.                   *)
BeginSOAP ==
    /\ pc = "idle" /\ config.input = "soap"
    /\ pc' = "request" /\ pos' = Starts
    /\ UNCHANGED <<config, sourceVars, requests, count, got, refreshes, cancelled>>

(* DatabaseInput.Fetch: a state that does not load is logged, not an error.*)
BeginDatabase ==
    /\ pc = "idle" /\ config.input = "database"
    /\ pc' = "request" /\ pos' = Starts
    /\ UNCHANGED <<config, sourceVars, requests, count, got, refreshes, cancelled>>

GiveUp ==
    /\ pc = "request" /\ pc' = "failed"
    /\ UNCHANGED <<config, sourceVars, pageVars, refreshes, cancelled>>

(* A request that does not render, is not answered, or is answered with an *)
(* error to the last attempt; what earlier pages held is dropped.          *)
RequestFails == GiveUp

(* ctx is done: the request under way or the next one returns its error.   *)
Interrupted == cancelled /\ GiveUp

(* handleOAuth2Unauthorized: another token, so many times in one Fetch     *)
(* however many pages it has.                                              *)
HandleOAuth2Unauthorized ==
    /\ pc = "request" /\ config.input = "http"
    /\ refreshes < MaxOAuth2Retries
    /\ refreshes' = refreshes + 1
    /\ UNCHANGED <<config, sourceVars, pageVars, cancelled, pc>>

-----------------------------------------------------------------------------
(* Reading one answer.                                                     *)

(* convertToRecords leaves out what is no object of the list in a data     *)
(* field.                                                                  *)
ConvertToRecords(answer) == answer \ junk

(* ValueAsRecords refuses it, and ExtractDataField finds no field in the   *)
(* XML of a page without elements.                                         *)
ValueAsRecords(answer) == answer # {} /\ answer \cap junk = {}

(* rowsToRecords: every row is a record.                                   *)
RowsToRecords(answer) == answer

ExtractTotalPages == IF config.totals THEN PagesOf(source, config.served) ELSE 0
ExtractTotal == IF config.totals THEN Cardinality(source) ELSE 0

AppendRecords(rows) ==
    /\ requests' = Least(requests + 1, MaxPages + 1)
    /\ count' = Least(count + Cardinality(rows), MaxKey)
    /\ got' = [k \in Keys |-> IF k \in rows THEN Least(got[k] + 1, 2) ELSE got[k]]
    /\ UNCHANGED <<config, sourceVars, refreshes, cancelled>>

(* for-loop: it broke off, ran out of pages, or goes on.                   *)
Go(next, last, capped) ==
    /\ pc' = IF last THEN "done" ELSE IF capped THEN "capped" ELSE "request"
    /\ pos' = IF last THEN pos ELSE next

Reads(input, type) == pc = "request" /\ ~cancelled /\ config.input = input /\ config.type = type

PageLast(rows) ==
    \/ ExtractTotalPages > 0 /\ pos >= ExtractTotalPages
    \/ rows = {}

(* Fault: the pages are counted from zero.                                 *)
PageCapped_OffByOne == pos > MaxPages
PageCapped == pos + 1 > MaxPages

OffsetLast_OffByOne(rows) ==
    \/ ExtractTotal > 0 /\ count + Cardinality(rows) >= ExtractTotal
    \/ Cardinality(rows) <= config.limit
OffsetLast(rows) ==
    \/ ExtractTotal > 0 /\ count + Cardinality(rows) >= ExtractTotal
    \/ Cardinality(rows) < config.limit

OffsetCapped == pos + config.limit >= MaxPages * config.limit

(* The server's next cursor: none after the last row, or only once it was  *)
(* asked for rows that are not there.                                      *)
NextCursors(answer) ==
    IF answer = {} THEN {0}
    ELSE {LastKey(answer)} \cup
         (IF RowsAfter(LastKey(answer), 1) = {} THEN {0} ELSE {})

CursorCapped == requests + 1 >= MaxPages

HTTPSingle ==
    /\ Reads("http", "single")
    /\ AppendRecords(ConvertToRecords(Answer))
    /\ Go(pos, TRUE, FALSE)

HTTPPage ==
    /\ Reads("http", "page")
    /\ LET rows == ConvertToRecords(Answer)
       IN  AppendRecords(rows) /\ Go(pos + 1, PageLast(rows), PageCapped)

HTTPOffset ==
    /\ Reads("http", "offset")
    /\ LET rows == ConvertToRecords(Answer)
       IN  AppendRecords(rows) /\ Go(pos + config.limit, OffsetLast(rows), OffsetCapped)

HTTPCursor ==
    /\ Reads("http", "cursor")
    /\ AppendRecords(ConvertToRecords(Answer))
    /\ \E next \in NextCursors(Answer) : Go(next, next = 0, CursorCapped)

(* A SOAP answer without records; a bare JSON array, which parseResponse   *)
(* takes only when every item is an object.                                *)
RecordsRefused ==
    /\ \/ config.input = "soap" /\ ~ValueAsRecords(Answer)
       \/ config.input = "http" /\ config.type = "single" /\ Answer \cap junk # {}
    /\ GiveUp

SOAPSingle ==
    /\ Reads("soap", "single")
    /\ ValueAsRecords(Answer)
    /\ AppendRecords(Answer)
    /\ Go(pos, TRUE, FALSE)

SOAPPage ==
    /\ Reads("soap", "page")
    /\ ValueAsRecords(Answer)
    /\ AppendRecords(Answer)
    /\ Go(pos + 1, PageLast(Answer), PageCapped)

SOAPOffset ==
    /\ Reads("soap", "offset")
    /\ ValueAsRecords(Answer)
    /\ AppendRecords(Answer)
    /\ Go(pos + config.limit, OffsetLast(Answer), OffsetCapped)

SOAPCursor ==
    /\ Reads("soap", "cursor")
    /\ ValueAsRecords(Answer)
    /\ AppendRecords(Answer)
    /\ \E next \in NextCursors(Answer) : Go(next, next = 0, CursorCapped)

DatabaseSingle ==
    /\ Reads("database", "single")
    /\ AppendRecords(RowsToRecords(Answer))
    /\ Go(pos, TRUE, FALSE)

(* A position that nobody reads is not counted up: bound.                  *)
Onward(next) == IF Moves THEN next ELSE pos

(* Fault: the offset is set to the limit, not moved on by it.              *)
DatabaseOffset_NotAdded ==
    /\ Reads("database", "offset")
    /\ LET rows == RowsToRecords(Answer)
       IN  /\ AppendRecords(rows)
           /\ Go(Onward(config.limit), Cardinality(rows) < config.limit, FALSE)
DatabaseOffset ==
    /\ Reads("database", "offset")
    /\ LET rows == RowsToRecords(Answer)
       IN  /\ AppendRecords(rows)
           /\ Go(Onward(pos + config.limit), Cardinality(rows) < config.limit, FALSE)

(* The cursor is the last row's cursorField.                               *)
DatabaseCursor ==
    /\ Reads("database", "cursor")
    /\ LET rows == RowsToRecords(Answer)
       IN  /\ AppendRecords(rows)
           /\ Go(Onward(LastKey(rows)), Cardinality(rows) < config.limit, FALSE)

-----------------------------------------------------------------------------
(* The executor's context ends.                                            *)
Cancel ==
    /\ ~cancelled
    /\ cancelled' = TRUE
    /\ UNCHANGED <<config, sourceVars, pageVars, refreshes, pc>>

HTTPFetch == HTTPSingle \/ HTTPPage \/ HTTPOffset \/ HTTPCursor
SOAPFetch == SOAPSingle \/ SOAPPage \/ SOAPOffset \/ SOAPCursor
DatabaseFetch == DatabaseSingle \/ DatabaseOffset \/ DatabaseCursor

(* What the input does once it has its answers; the HTTP client and the    *)
(* query timeout see to it that it has them.                               *)
FetchStep ==
    \/ BeginHTTP \/ BeginSOAP \/ BeginDatabase
    \/ HTTPFetch \/ SOAPFetch \/ DatabaseFetch
    \/ RecordsRefused \/ Interrupted

FetchNext ==
    \/ FetchStep
    \/ RequestFails \/ HandleOAuth2Unauthorized
    \/ Cancel
    \/ \E k \in Keys : Insert(k) \/ Delete(k)

FetchSpec == FetchInit /\ [][FetchNext]_vars /\ WF_vars(FetchStep)

-----------------------------------------------------------------------------
(* Type invariant.  An HTTP or SOAP fetch never asks for more pages than   *)
(* maxPaginationPages allows.                                              *)
FetchType ==
    /\ config \in Configs
    /\ source \subseteq Keys /\ junk \subseteq Keys /\ gone \subseteq Keys /\ stable \subseteq Keys
    /\ source \cap gone = {} /\ stable \subseteq source
    /\ changes \in 0 .. MaxChanges
    /\ pos \in Nat
    /\ requests \in 0 .. MaxPages + 1
    /\ config.input # "database" => requests <= MaxPages
    /\ count \in 0 .. MaxKey
    /\ got \in [Keys -> 0 .. 2]
    /\ refreshes \in 0 .. MaxOAuth2Retries
    /\ cancelled \in BOOLEAN /\ pushed \in BOOLEAN /\ pulled \in BOOLEAN
    /\ pc \in {"idle", "request", "done", "capped", "failed"}

(* Page and offset loops, and the database by cursor, tell the end from    *)
(* what an answer holds: a server that answers less than it was asked for, *)
(* or items that are dropped, end them early.                              *)
EndIsSeen ==
    /\ \/ config.type = "offset"
       \/ config.input = "database" /\ config.type = "cursor"
       => config.served >= config.limit
    /\ config.type \in {"page", "offset"} => junk = {}

(* A fetch that read to the end (fetchPageBased, fetchOffsetBased,         *)
(* fetchCursorBased, fetchLimitOffset, fetchCursor) holds every row that   *)
(* was there all the time, unless a row it had passed was deleted under a  *)
(* page number or an offset; and it holds no row twice, unless one was     *)
(* inserted there.  By cursor both hold whatever others write.  All of this*)
(* if what it asks for reaches the server.                                 *)
RowsFetchedOnce ==
    Moves =>
        /\ pc = "done" /\ EndIsSeen /\ ~pulled => \A k \in stable \ junk : got[k] >= 1
        /\ pc \in {"done", "capped"} /\ ~pushed => \A k \in Keys : got[k] <= 1

(* A fetch returns, even of a server that answers the same page for ever   *)
(* (maxPaginationPages).  A database loop has no such limit: it returns if *)
(* its offset or cursor reaches the query, or when its context ends.       *)
FetchReturns ==
    pc = "request" /\ (config.input # "database" \/ Moves \/ cancelled)
        ~> pc \in {"done", "capped", "failed"}
=============================================================================
