# Verification of the Cannectors runtime

Cannectors runs data pipelines *Input -> Filters -> Output* described in YAML or JSON: once from the
command line, on a CRON schedule, or behind a webhook. This directory holds TLA+ models of the parts
of the runtime that are concurrent, persistent or fallible, the TLC configurations that check them,
and TLAPS proofs about the scheduler and the process around it, executions with a saved state, the
webhook input, polling inputs, the way of a batch through filters and output, the shared tokens, the
cache, the call filters and the editing of records in place. All paths below are relative to `src/`.

## 1. The system

### 1.1 Components

| Component | State it keeps | Operations | How it interacts |
|---|---|---|---|
| Scheduler, `internal/scheduler/scheduler.go` | map of registrations, each with a lock, a `running` flag and a bounded queue; `started`, context, wait group, CRON table | `Register` (new, update), `Unregister`, `Start`, `Stop`, CRON tick -> `executePipeline` | driven by main, ticked by robfig/cron, calls an executor |
| Scheduled process, `cmd/cannectors/main.go`, `modulecache.go` | cached module chain per pipeline | `runScheduledPipeline`, adapter `Execute`, cache `get`, `evict`, `Close` | is the scheduler's executor; shuts everything down on a signal |
| Pipeline executor, `internal/runtime/pipeline.go` | the execution under way and its result | `ExecuteWithContext`: set-up, connect, input, filters, output, save | calls modules and the state store, returns a result to the adapter or the CLI |
| State persistence, `internal/persistence` | one state file per pipeline | `Load`, `Save` (temporary file, rename), `Delete`, `Exists` | read before the fetch, written after the output |
| Webhook input, `internal/modules/input/webhook.go` | server, queue, workers, rate limiter, `shutdownOnce` | `Start`, `Stop`, request handling, workers | calls back into the executor for every request |
| OAuth2 tokens, `internal/auth/oauth2*.go` | process-wide token cache, singleflight group | `ApplyAuth`, `getValidToken`, `InvalidateToken` | shared by every HTTP module with the same credentials |
| Retry loop, `internal/errhandling/retry.go`, `internal/httpclient/doretry.go` | attempt count, `RetryInfo` | `ExecuteWithHooks`, `DoWithRetry` | used by the HTTP and SOAP modules |
| LRU cache, `internal/cache/lru.go` | entries with expiry and access time | `Get`, `Set`, eviction | memo of the HTTP, SOAP and SQL call filters |
| Inputs: HTTP polling with pagination, database, SOAP polling | page cursor, last state, connection | `Fetch`, `Close` | first stage of an execution |
| Filters: mapping, set, remove, drop, script, condition, loop, HTTP/SQL/SOAP call | per-filter configuration, caches | `Process` | each transforms the records; `onError` decides about failures |
| Outputs: HTTP request, database, SOAP request | connection, transaction, per-send retry state | `Connect`, `Send`, `Close` | last stage; batching and `onError` |
| Error handling, `internal/errhandling` | markers, tally, record errors | classification, marking | between filters, outputs and the executor |
| Configuration, registry, factory, templates, record paths, logging | none after start-up | parsing, building, rendering | sequential |

### 1.2 What is hard about it

- *Goroutines against shutdown and update.* A tick's goroutine takes the scheduler lock and a
  registration's lock in turn; `Stop`, `Start` and an updating `Register` slip in between.
- *Recursion instead of a worker.* A queued execution runs on the stack of the one before it, with a
  nested `wg.Add`; `Stop` must neither miss it nor wait for the whole queue.
- *Crash and failure between the stages of an execution.* The cursor is a time cut to the second, an
  ID, or both; it must never pass a record that was there to be fetched and was not handled. The time is
  the runtime's, the stamps are the source's.
- *Shutdown of a server with requests in flight,* run once by whichever of `Start` and `Stop` comes
  first, after a five second limit.
- *A token cache shared by callers that see 401s at different times.*
- *A memo shared by the concurrent `Process` calls of one call filter:* looking up, fetching and
  storing are separate steps, and the objects stored must not be reachable from the records that
  later filters edit in place.
- *A failure inside nested filters.* Each level of conditions and loops has its own `onError`; a
  record may be skipped, marked and kept, or end the batch, while the loops around it have an alias
  to take out of it and an item to put back.
- *A batch half sent.* A request whose answer was lost is sent again; a request carries less than what
  is counted for it; a statement fails inside a transaction, which the server may end or roll back; the
  context ends, or another goroutine closes the output, between two units.
- *Pages of a source that changes* between two requests, with positions that shift, or that never reach
  the server.
- *Records edited in place.* Paths lead through maps and slices that a mapping or a set filter has
  written into two places without a copy, or that the input put into every record.

`PROJECT.json` lists the hazards that weigh most at their source lines, with the properties that
cover them; the smaller ones are among the divergences of section 6.

### 1.3 What makes each component correct

- Scheduler: a registration is executed by at most one goroutine, the flag never sticks, a queued
  request is neither lost nor starved, `Stop` drains.
- Scheduled process: an execution never meets a closed chain, no chain leaks, a signal ends the
  process.
- Executor with persistence: at-least-once handling across crashes, of what the source shows in time
  and a fetch does not leave out; no duplicate without a failure or a crash to excuse it; the state file
  is always readable; results add up.
- Webhook: what was accepted is kept, what was refused by a status is not handled, a 200 means the
  handler ran, a clean shutdown leaves nothing behind, every request's handler ends. Of an answer that
  was cut off nothing follows.
- Tokens and retries: no needless token request, a rejected token does not come back, a call makes a
  bounded number of attempts, counts them and returns.
- LRU cache: a lossy map; it never answers with a value that was not the last one stored under that
  key within its time, it keeps to its size, and what goes is what was unused longest.
- Call filters: every record comes out once and in order, enriched with the response to its own call,
  marked, dropped or failing the batch as `onError` says; no record shares an object with the memo.
- Filter chain: a record leaves the batch only where a step skips or drops it, order is kept, a
  failed record is marked and counted, and loops leave no alias behind.
- Outputs: the count `Send` returns is what the destination has, unless requests carry a part of what
  is counted for them or a transaction was rolled back; with `onError: fail` the destination holds an
  initial part of the batch, or what that carries; in a transaction all or nothing, unless the server
  rolls it back by itself; a record arrives twice only after a lost answer; the result splits the batch
  into processed and failed.
- Inputs: a fetch whose position reaches the server and that reads to the end holds each row once that
  was there all the time, as far as its strategy can; every fetch ends, that of a query which does not
  advance only with its context.
- Record edits: what a filter has written it reads back, what it removed is gone, an edit reaches no
  other field and no other record unless an object was written without a copy, or is an attachment of
  their common answer.

## 2. The models

Conventions: a critical section, or a stretch of code without another actor's view into it, is one
action named after its function. `Fault` operators named `X_Something` are defective variants of `X`
kept for sensitivity testing (section 5); they occur in no specification.

### Scheduler

`Scheduler.tla` models `scheduler.go`. A CRON goroutine is a *job* with a program counter, the
registration it serves, its outstanding `wg.Add`s and the context it captured.

| Code | Model |
|---|---|
| `Register` for a new id | `Register` |
| `Register` for a known id | `RegisterUpdateCheck`, then `RegisterUpdateReplace`; `updating` stands for `s.mu` held in between, because the registration's own lock is dropped there |
| `Unregister`, `Start` | `Unregister`, `Start` |
| `Stop` | `StopCron`, `StopMark`, then `StopWaitDone`, `StopClear` or `StopTimeout` |
| tick | `CronTick` |
| `executePipeline` | `ExecutePipelineAdmit`, `TryStartExecution`, `CheckContext`, `DoExecutePipeline`, `FinishExecution`, `Unwind` |
| `executeQueuedPipeline` | `ExecuteQueuedPipeline` (nested add), `AbandonQueue` (stopped) |

The queue holds only the number of waiting requests: the entries are indistinguishable. The two
second wait for CRON's own jobs and the unread `stopChan` constrain nothing and are left out.

### ScheduledRun

`ScheduledRun.tla` composes `Scheduler` with `runScheduledPipeline`, the executor adapter and the
module cache. Each step is a scheduler step that leaves the cache alone, a main or adapter step that
leaves the scheduler alone, or both at once where the call returns (`DoExecutePipeline` is opened up
into `AdapterGet`, `AdapterSucceeds`, `AdapterFails`, `AdapterEvict`, `AdapterCloseEvicted`). `get`
holds the cache lock while it builds, so it is one step; `evict` and `Close` drop the lock before they
close, so they are two.

### Executor

`Executor.tla` models `ExecuteWithContext` together with `StateStore` and the cursors of the polling
input: one action per stage, each with its failure branch, plus `Tick`, `CreateRecord` and `Crash`.
A record is its ID. `CreateRecord` makes it visible with any ID and with any stamp: the source's clock is
not the runtime's, and a transaction may be committed long after its rows were stamped. Formatting a
timestamp cuts it to the second (`FormatTimestamp`); `Behind` says which records a cursor keeps out.
A fetch returns all that is selected, or the part it had read when the page cap ended it (`Answers`); the
ID that is saved is that of the last record received (`LastReceived`), the largest if the source answers
in the order of the IDs (`ordered`). `withheld` is a history of the records the code loses by this: those
shown behind a watermark that is in force (`InForce`: of the state file, of the input, or of an execution
that has fetched), and those left out of a fetch whose watermark passes them. `WriteTempFile` and
`RenameStateFile` are the two halves of `Save`. `ReturnToCaller` is the caller's part: the adapter
evicts a chain whose execution failed, a single run ends its process.

### Webhook

`Webhook.tla` models `webhook.go` and `runWebhookPipeline`. Four kinds of actors step independently:
`Start`, main (signal, `Stop`), the body of `shutdownOnce` (whoever entered it), and one actor per
request and per worker. `field` is `w.queue` as the handlers read it, without the lock under which
`stopWorkers` writes it, so `Dispatch`, `EnqueueRead`, `EnqueueSend` and `Respond` are separate steps.
A send on a closed channel panics and the HTTP server aborts the connection. Every answer may be lost
after the handler has done its work, since the server's `WriteTimeout` runs from the request on (`Answer`:
the code, or `lost`). Signature and payload checks are a free choice to refuse. A pipeline handler that
panics in a worker ends the process, which is left out; one that panics in a synchronous request reads
as one whose answer is lost.

### TokenCache and AuthorizedCalls

`TokenCache.tla` models `getValidToken` for one set of credentials: the first look at the cache,
joining the flight, the leader's second look, fetch, store, and the hand-over to everyone who waited.
Tokens are numbered; of time only the passing of the computed expiry matters. `AuthorizedCalls.tla`
adds the callers: the retry loop (`Attempt`, `Conclude`, `Backoff`), the 401 handler
(`HandleUnauthorized`), cancellation, and an API that may stop accepting a token at any time. The
request header is set once per call and cloned for each attempt, as in `doretry.go`. `dead` is a
history variable: the tokens whose 401 was handled.

### LossyMap, LRUCache and CallFilter

`LossyMap.tla` is what the interface `Cache` promises: a map that may forget any entry at any time,
and otherwise answers with what was stored last under the key, up to its deadline. `LRUCache.tla`
models `lru.go`, one action per method, since each holds the mutex throughout: `Get` (refreshes
`lastUsed`, deletes an expired entry), `Set` (evicts only for a new key, at the limit), `Delete`,
`Clear`, `CleanExpired`. `evictLRU` scans a Go map, whose order is arbitrary, so any entry with the
smallest `lastUsed` may go; the empty key is never deleted (`Victims`). `ImplementsLossyMap` maps the
entries to the promised map.

`CallFilter.tla` models `Process` of the `http_call`, `soap_call` and `sql_call` filters over that
cache, for several concurrent calls of one module, as the webhook makes them:

| Code | Model |
|---|---|
| `Process`, the head of its loop | `Process`, `NextRecord` (context test, key and URL extraction) |
| `cache.Get` in `processRecord` | `Lookup` |
| `fetchResponseData` | `Fetch`: fails, or makes a response object |
| `cache.Set` | `Store` |
| `mergeCallResult`, `cloneCallData` | `Merge`: a copy joins the record, or the response does not fit |
| `HandleRecordError` and the switch on its outcome | `RecordError` |
| the cancellation of a request, `ClearCache` | `Cancel`, `Maintain` |
| a later filter editing records in place | `Downstream` |

`kind` tells the three filters apart where they differ: an HTTP or SOAP call may fail before the
look-up, while its request is built (`FailsBeforeLookup`); an SQL query answers with one row, which
always has a place in the record (`AnswersWithRow`).

A record is represented by the cache key its call has. Object identity is what matters: `heap` maps
each response or copy to the key it was fetched for, whether a record has a place for it (`fits`), and
whether somebody edited it.

### Batch, FilterChain, Outputs and Delivery

`Batch.tla` is what both stages of an execution share: records by their number, whether the context
is done, and a bound on the failures the environment may cause.

`FilterChain.tla` models `executeFilters` and the `Process` of the mapping, set, remove, drop, script,
condition, loop and call filters. Nested filters run on a stack of frames, one per active `Process`,
each with its filter, its batch, the record at hand and what it has handed on. The pipeline's
configuration is chosen as it is reached, filter by filter, so that one run covers all of them. `Enter` and `Return` begin and end a `Process`; `HandleRecordError` and `KeepUnmarked` are what the
filters make of a failed record, `ConditionCatches` and `LoopCatches` what they make of an error from a
nested filter. A loop puts its alias in scope (`LoopRecord`), runs its nested filters once per item
(`LoopItem`, `LoopItemDone`) and takes the alias out on every way out (`LoopDone`, `LoopFails`,
`LoopCatches`). The nested filters see a map made for the item (`Scope`, record 0), whose markers go with
it. `marks` and `aliases`
stand for the record's `_errors` and `_metadata`, `tally` for the executor's error count. `stale`,
`carried` and `used` are histories: which markers a script or a remove may have cleared, which came from
the source, which filters were configured.

`Outputs.tla` models `Send` of the HTTP, SOAP and database outputs, in single and batch mode. The batch
is cut into units; each is rendered, delivered (a request, in up to `attempts` tries, or a statement) and
counted, or fails under `onError`. `received` counts what the destination has of each record, `lost`
the answers lost after it took a request. `Carried` says what a request carries of its unit: in batch mode
all records as JSON, the first record where there is a body template, and nothing but what endpoint and
headers name of the first record for a method without a default body (`body`, `named`); `CarriesPart` names
the cases in which more is counted. A template is taken to show its record, and an endpoint, query or
header that is `named` to identify it. `db` is the pool, which may be closed between any two statements.
`driver` says what a failed statement makes of a transaction: PostgreSQL ends it and
refuses the rest (`aborted`); MySQL at a deadlock, and SQLite at an interrupt or a full disk, roll it back
(`TransactionLost`), after which every statement commits itself (`ExecuteAfterRollback`) and `Commit` is a
success on MySQL and an error on SQLite (`NothingToCommit`).

`Delivery.tla` composes the two as `executePipelineStages` does: connect, fetch, filter, preview or
send, account. `Cancel` may happen at any point, `Close` at any point of the output stage.

### Fetch

`Fetch.tla` models `Fetch` of the HTTP, SOAP and database inputs: one answer, pages by number or offset,
cursors; `LIMIT/OFFSET` and cursor queries. The source is a set of keys in their order, which others
`Insert` into and `Delete` from between two requests. `junk` holds the items that are not objects and
that the HTTP input drops, `served` the most the server answers with. `binds` is what the request or the
query's parameters read of the pagination, `returned` says whether the cursor field is a column of the
rows: `Moves` follows from them, whether the position reaches the server at all. A query without
parameters for it gets `LIMIT` and `OFFSET` appended; one that reads the limit alone does not, and is
asked for its first page again, as one whose cursor is nil is. Page caps, the 401 budget of
a fetch, failing requests and cancellation end a fetch. `stable`, `pulled`, `pushed` are histories: the rows
that were there all the time, and whether a row moved across the position the fetch had reached.

### RecordEdits

`RecordEdits.tla` models `recordpath` (`Get`, `Set`, `Delete`) and the set, remove and mapping filters
over a heap of Go maps and arrays: a value is a scalar, a map by reference, or a list by its array and a
length, so that `append` may find room in an array that another list shows. `Set` goes down its path
segment by segment (`Descend`, `Descent`) and makes what is missing (`New`, `EnsureMapAtPath`,
`EnsureArrayAtPath`, `Extended`); `Delete` and `Get` look for theirs with `Navigate`. The literal of a set
filter and the value read by a mapping are written without a copy, as in the code. Transforms matter
as far as they copy, make a new object, or fail. A batch is decoded record by record (`LoadBatch`); the
attachments of a SOAP answer are decoded once and put into every record (`Attached`). A mapping filter has
one mapping: those of a list run record by record (`mapping.go:381`), filters one after the other. Objects
nobody holds any more are dropped after each edit (`Live`), as the garbage collector does. `edit` is the
last edit, for the properties to look at; `given` (the objects the configuration has held, or the input
has put into every record) and `aliased` (something was written or put without a copy) are histories. Paths, transforms and batches are folded by recursive functions, so that they can be proved
about.

## 3. What TLC checks

| Run | Instance | What it shows |
|---|---|---|
| `Scheduler` | 1 pipeline, 2 registrations, 2 goroutines, queue of 1, 2 starts, 4 ticks | `OwnershipIsExact` (one owner, no queue without one), `StopDrains`, `NoExecutionAfterStop`, `SchedulerProgress` (a stop winds down, a queued request is served) |
| `ScheduledRun` | 1 pipeline, 2 registrations, 2 goroutines, 3 chains, 4 ticks | `ChainUseIsSafe` (executions do not overlap, and their chain is open), `ChainsAreReleased`, `SignalEndsProcess` |
| `Executor` | one cursor enabled, 2 records with stamps of 1 or 2, clock to 3 with 2 ticks a second, 1 failure, 1 crash | `ResumeIsSafe` (no record lost that was not withheld, state file readable), `NoNeedlessDuplicate`, `EveryRecordHandled` |
| `Webhook` | 2 requests, 2 workers, queue of 0 (synchronous) or 1, rate limit 1 | `StatusIsHonest`, `ShutdownIsClean`, `ServesThenStops` |
| `AuthorizedCalls` | a polling and an output caller, 2 tokens, 1 retry, 1 retry after a 401 | `FetchesAreJustified`, `RejectedStaysOut`, `CallReturns` |
| `CallFilter` | 2 callers with 2 records each, memo of 2, four keys with the empty one, TTL 1, clock to 2, 1 trouble; five filters | `CachedAsFetched`, `OutputAccounted`, `ImplementsLossyMap`, `MemoMakesRoom`, `ProcessReturns` |
| `Delivery` | 3 records, 2 troubles, 2 filters in a row, 1 nested, loops two deep with 1 item, 2 aliases, all output kinds | `FailuresShow`, `LoopScopeIsExact`, `ResultIsHonest`, `DestinationIsExact`, `DeliveryEnds` (every execution ends, a preview shows every record) |
| `Fetch` | 4 keys, 3 pages, 2 changes by others, 1 refresh after a 401, every input and strategy; servers that answer less, or are not told the position; queries that bind nothing, the limit, the position or both | `RowsFetchedOnce`, `FetchReturns` |
| `RecordEdits` | 2 filters over 2 batches of 2 records of three shapes, with and without attachments, 2 field names, paths of one to three segments | `EditIsRead`, `SharingIsKnown`, `EditKeepsOthers`, `EditIsLocal` |

Each but `ScheduledRun`, whose type invariant is proved, also checks its type invariant. Three further
runs show disagreements between the code and its documentation; they expect a violation (section 6).

### Why the bounds are enough

- Scheduler: two goroutines for one registration give every race on `running` and the queue, two
  registrations an update under way, two starts a stop followed by a restart with a goroutine left
  over from before, four ticks a full queue with an owner and a dropped request. The safety
  properties are proved without bounds (section 4).
- ScheduledRun: three chains allow two evictions and a rebuild.
- Executor: two records are the least with one handled and one not; the clock reaches into a second
  second, so a watermark is both cut and crossed; stamps of 1 and 2 lie before and behind the first cut,
  and a record may show at any time with either. One failure and one crash may both fall into one
  execution or into two; with a bound of one each, losing a record would need no more.
- Webhook: a queue of one with two requests is full while one is accepted; two workers let one exit
  while the other still handles.
- AuthorizedCalls: two tokens allow one to be replaced; a refused fetch is possible throughout.
- Delivery: of three records one can fail between two that do not, and a batch size of 2 leaves a last
  batch of one; without a body, only what names its first record is there. In a transaction of three
  rows one goes before the server rolls it back and one after it. Two troubles allow a lost answer and a failed retry, or a failed record and a failed
  statement. A loop in a loop, with two aliases, gives equal and different names; one item is enough for
  an alias to be left behind, and a record goes through the same loop as the next record does.
- Fetch: four keys of which some exist at first make two full pages of two, or a full one and a short one,
  with room to insert before and behind the position; pages of one row reach the cap of three with a row
  left out. Two changes let an insertion and a deletion cancel out in the totals. A first page as long as
  the limit is enough for a query that does not advance to go on for ever.
- RecordEdits: two filters write an object and then edit it through the other path; the second batch
  shows what the first has left in the configuration. Three shapes: maps in a map, a list with and one
  without room; the attachments are a map in a map, which the filters' paths reach.
- CallFilter: two callers share one key and use three more with room for two, so that entries are
  evicted between a caller's look-up and its store; a deadline falls between two ticks and is passed by
  the second. A trouble is a failure, a response without a place, a cancellation or a clearing of the
  memo; with one, each of these meets every state of the other caller. The theorems of section 4 hold
  for any number of callers, records and troubles.

### Fairness

Weak fairness of each goroutine's own steps: the Go scheduler runs a runnable goroutine, and external
calls are bounded by a timeout or a context. `Commit` (`output/database.go:270`) takes no context and is
the exception: that it returns is assumed of the driver. Nothing makes the clock tick, a signal arrive, a
request arrive or a caller call: no fairness is assumed for `CronTick`, `Start`, `StopCron`,
`Signal`, `Arrive`, `RefillTokens`, `BeginCall`, `Cancel`, `RejectToken`, `Process`, `Downstream`,
`Maintain` or `PassTime`. The executor's fairness is on
`ExecutionStep` as a whole, since a schedule or the user starts it again; its liveness property
also relies on the bounds on failures and crashes, that is, on their being finitely many.
A delivery and a fetch are sequential programs: weak fairness of `Step` and of `FetchStep`, each of whose
requests and statements a timeout bounds; a fetch may take such steps for ever, and `FetchReturns` says
when it does not. Nothing makes a request fail, a token be refused, a context end, an output be closed or
others write. `RecordEdits` states no liveness.
Deadlock checking is off where a process, an execution or a fetch ends (`ScheduledRun`, `Webhook`,
`Delivery`, `Fetch`) or every batch has been handled (`CallFilter`, `RecordEdits`), and on elsewhere.

## 4. What is proved

TLAPS checks the proofs, for every value of the constants that satisfies the assumptions in the modules:

| Module | About | Assumptions |
|---|---|---|
| `SchedulerProofs.tla` | `Scheduler`, `ScheduledRun` | `SchedulerAssumption`: positive queue capacity, natural bounds, `None` is neither a registration nor a pipeline; `ScheduledRunAssumption`: nor a chain |
| `ExecutorProofs.tla` | `Executor` | `ExecutorAssumption`: natural bounds and stamps, a clock with at least one tick a second |
| `WebhookProofs.tla` | `Webhook` | `WebhookAssumption`: natural sizes, no request is taken for a state of a worker |
| `DeliveryProofs.tla` | `FilterChain`, `Outputs`, `Delivery` | `BatchAssumption`, `OutputsAssumption`: natural bounds, configurations as the constructors make them; `FilterChainAssumption`: natural bounds, filters as the constructors make them, room for one on the stack |
| `FetchProofs.tla` | `Fetch` | `FetchAssumption`: natural bounds, positive limits; a query by cursor binds something, as the constructor asks |
| `AuthorizedCallsProofs.tla` | `TokenCache`, `AuthorizedCalls` | `TokenCacheAssumption`, `AuthorizedCallsAssumption`: natural bounds, at least one retry after a 401, which in the code is the constant 2 |
| `CallFilterProofs.tla` | `LRUCache`, `CallFilter` | `CacheAssumption`: finitely many keys, positive size and TTL, nil is no key; `CallersAssumption`: finitely many callers, batches of keys no longer than `MaxBatch`, response objects named by caller, record and role |
| `RecordEditsProofs.tla` | `RecordEdits` | `RecordEditsAssumption`: the name of the attachments is a field name, records and attachments as a decoder makes them (each object held once), filters as the constructors make them, positive batch size and number of batches |

**Scheduler.** `SchedulerType`, `SchedulerOwnership`, `SchedulerStopDrains` and
`SchedulerNoExecutionAfterStop`. None of the properties is inductive
alone. The invariant adds: a goroutine past admission has at least one `wg.Add`, a registration and
the context of some start (`HeldInv`); while the scheduler is stopped every context made so far is
canceled, while it is started all but the current one (`ContextInv`); the stages of `Stop` imply
`~started` and, past the wait, that no goroutine is held (`StopInv`); a goroutine that abandons the
queue does so only after some context was canceled (`AbandonInv`). `StopDrains` then follows because
admission and the add happen under one lock; `NoExecutionAfterStop` because `CheckContext` looks at a
context that the stop has canceled.

**The scheduled process.** `ScheduledRunType`, `ScheduledRunChainUse`, `ScheduledRunReleases`. Every step
of the process is a step of the scheduler or leaves it alone (`RunStepsAreSchedulerSteps`), so that the
scheduler's invariant carries over. main registers one pipeline, once, and every goroutine that has fired
serves that registration (`RegistrationInv`); its single owner is then the only goroutine in the adapter
(`OneExecutes`), and what it does to the cache disturbs nobody. An open chain is in one hand: the cache's,
the evicting goroutine's, or main's on its way out (`CustodyInv`). main comes to the cache when `Stop` has
returned, and `StopDrains` says that nobody executes by then.

**Executions with a saved state.** `ExecutorType`, `ExecutorResumes`, `ExecutorUnique`. That no record is
lost is inductive only together with what becomes the state: the cursor the input holds, which decides
what is fetched; the state to be saved, which keeps out of later fetches only the batch under way and what
was handled before; and the temporary file on its way to the state file (`Passed`, `Covered`). A record
that becomes visible is ahead of all of them or is withheld (`NewcomerIsAhead`), where the time sent is cut
downwards, never upwards (`FormatCutsDown`); a record the fetch left out is asked for again or is withheld
(`InputResumeInv`). What the theorem grants is what the design can give: a record that shows with a stamp
before the watermark, whether by a clock that is behind or a late commit, or that a page cap leaves out, is
lost, as `docs/stories/09-26.9-watermark-max-champ-record.md:21-25` says (section 6). `ExecutorUnique`
assumes `OneCursorEach`, that no configuration enables both cursors, for the reason given in section 6, and
speaks of a source that answers in the order of its IDs; it needs that what was delivered lies behind the
saved ID, or behind the one about to be saved (`Unique`).

**The webhook input.** `WebhookType`, `WebhookStatus`, `WebhookShutdown`. A ledger says of each request
whether it was handled, is in the queue, or neither, according to where it is (`Ledger`, `NoRepeat`).
Handlers read `w.queue` without the lock under which `stopWorkers` takes it away; this is harmless because
of the order of shutdown, which the invariant spells out: the queue goes only after `server.Shutdown` has
seen the last handler out, unless it gave up (`Stages`, `Drained`), and no request arrives at a server that
is shut. So a handler on its way through the queue still finds it (`Answers`). An answer that is lost leaves
the ledger as it is: the request may have been handled, and the theorem says no more than once.

**Loops.** `LoopScope`: for every batch and any nesting, `_metadata.loop` names the loops in whose items
the chain is. A loop that takes its alias out must not take out another's, so the invariant adds that
loops in scope have different aliases; and an error that climbs the stack finds each caller inside its
nested filters, where its alias is in scope (`Scoped`).

**Records on their way through the filters.** `DeliveryTyped`, `FailuresNoticed`. Where a record is while
nested filters run is spread over the stack, so the invariant follows it there (`Core`): what a call has
given out, followed by what it still has to do, is what it was given, in order and without repetition; what
a condition handed down is with its callee, and will come back in order (`Ordered`). A failed record must
keep its marker until the stage ends, unless it is gone: of a call that is about to raise an error, or lies
below a loop's item, some records can no longer come out, and only those that can (`Live`) have to show what
happened to them (`MarksHold`). Each marker was counted when it was written, and the number of markers among
the batch is bounded by the tally, because a step marks one record at most.

**What the destination has.** `DestinationHolds`, `ResultHonest`. The batch is cut at
multiples of the unit size. `SendInv` says that of the records before the unit at hand everything is settled,
that the destination has nothing of those behind it, and at most what the attempts so far carried of those
in it; each answer that was lost accounts for one more copy (`At`). From that it follows what `Send` may
return (`Ended`), and with `Progress`, which says how far the stages have come, what the result may say.
Two exceptions are part of the statements: where a request carries a part of its unit the destination is
said to have what was carried, and the count may be more; and of a transaction that the server rolled back
by itself the rows before are gone, those after it are there one by one, and the count holds both.

**A fetch.** `FetchTyped`, `FetchedOnce`. A page and an offset count rows, a cursor names one; each divides
the rows there are into those behind the next request and the others (`Behind`). The invariant says that the
rows behind have been read, once, and no others, as long as none came in or went there and the position
reaches the server (`Held`, `Once`, under `Moves`),
and that the position tells the number of requests (`Paging`), from which the page limits follow. A row's
place is its rank, the number of smaller keys; ranks are a bijection with an initial part of the naturals
(`RankIsInjective`, `RankIsOnto`), so that an answer of fewer rows than were asked for is the last
(`RowsCount`), and a write shifts the rows behind it by one (`RankOnInsert`, `RankOnDelete`).

**Tokens and calls.** `AuthorizedCallsType`, `TokenFetchesJustified`, `RejectedTokenStaysOut`,
`RetriesAreCounted`. The first needs the counting argument too: an attempt number below the limit is
known in state `wait` only. `TokenFetchesJustified` rests on an accounting equation: each issued token
is about to be stored, is the valid entry, or had its entry end; and the leader fetches only while no
entry is valid (`TokenAccounts`). `RejectedTokenStaysOut` needs that a token not yet stored is known
to the leader alone (`FlightTokenIsFresh`), and that the handler either drops the entry or handles a
token that was handled before: a call past its first 401 still carries that token (`CallOK`).

**The cache.** `CacheTyped`, `MemoIsALossyMap`, `MemoGrowsOnlyForEmptyKey`, `MemoWithinMaxSize`. Each
method maps to `Put`, `Ask` or `Forget` with the keys that stay as witness; the clock and the answer
are the same. That a full cache grows only for the empty key rests on a finite nonempty map having an
oldest entry (`VictimsAreOldest`), whose removal makes up for the new one (`SetGrowth`); without the
empty key the bound on the size is then inductive.

**The call filters.** `CallFilterType`, `MemoHoldsWhatWasFetched`, `RecordsAccounted`,
`FiltersUseTheCache`, `SharedMemoIsALossyMap`, `SharedMemoMakesRoom`. `CachedAsFetched` is not
inductive: the invariant says who holds what. The cache, and a call between fetching and merging, hold
responses fetched for the key in question; results hold copies; only copies are ever edited
(`Holders`, `Objects`). `Phases` adds that a record at hand exists. `RecordsAccounted` needs a ledger per
call: of the records before the one at hand, which are in the result, which are marked, and which copy
each holds (`Ledger`). `FiltersUseTheCache` shows that every step is a step of the cache's specification
or leaves it alone, so that the theorems of the cache carry over. That the entry which goes is the one no
caller used for longest needs, besides, that `lastUsed` is when a caller last was served or stored it
(`UsesAreKnown`).

**Records edited in place.** `RecordsTyped`, `RecordsShareTheKnown`, `RecordsAreReadBack`,
`RecordsKeepTheOthers`; for records and paths of any size and depth. The inductive invariant is
`RecordsInvariant`. It says which objects are maps and which are arrays (`HeapOK`), where the properties
only look at the values that refer to them; that what the configuration has held, or the attachments, is a
region of the heap, from which nothing else is reached, and all that two records have in common (`State`);
and, until something is shared or written without a copy, that every object is held by one field or element
(`Alone`), where `SharingIsKnown` only compares two objects. Attachments loaded once and put into every
record are a new part of that region (`AttachedState`).

Every operation on paths is shown to change a region only: given the record's region, joined with the
configuration's, it leaves all other objects as they are, and what is new belongs to the region
(`Edits`, `SetEdits`, `DeleteAllEdits`, `TransformsTyped`); from this sharing is preserved (`SharedKept`,
`SharedLives`), and `RecordsKeepTheOthers` follows. That nothing is held twice needs to look at each
write, since an array is replaced before the value that was in it is dropped (`SoleReplaced`,
`SoleCopied`, `ExtendedSole`, `DeleteFromMapSole`).

That `Get` finds what `Set` wrote is an induction along the path. The way `Set` takes is the way `Get` will
take only if the objects passed are not written to again further down. In a record that does not hold
itself they are not: each object reaches a region that leaves it out (`Clear`), and the descent moves from
region to smaller region (`DescendLeads`, `OnTheWay`), with the objects it makes in none of the earlier ones.
A removal can only make less be found, nothing or a shorter list (`Shrinks`, `NavigateShrinks`), so that what an
earlier target took away does not come back with a later one.

A fold is a recursive function here, and the inductions over the steps of a path, the operations of a
transform and the records of a batch are made with sets of naturals (`LeastNatural`, `Counting`), which
need no theorem with an operator parameter.

`RunTypeOK`, `RetryInfoCounts`, `GrowsPastLimitOnlyForEmptyKey` and `WithinMaxSize` are proved and are the
property of no run: other type invariants and `MemoMakesRoom` stand for them there.

Only model-checked: all liveness properties, and `EditIsLocal`. Liveness under fairness is outside what the
prover handles; that the counts of a preview add up to the batch (`PreviewCountsAll`) is checked as a part
of `DeliveryEnds`. `EditIsLocal` compares paths cut into keys and indexes, by a fold over an anonymous
operator, and speaks of single fields of the record edited; what it says of the other records of the batch
is proved in a stronger form, of objects instead of paths and with aliases, as `RecordsKeepTheOthers`. The
three runs that expect a violation have nothing to prove.

## 5. Sensitivity

For each property there is a plausible defect of a modelled function (a dropped guard, a missing
reset, a swapped order), written as a `Fault` operator before the definition it would replace, under
which TLC finds the property violated. `PROJECT.json`, "mutants", pairs them.

## 6. Divergences

With a run that exhibits them:

| Run | Property | Disagreement |
|---|---|---|
| `ExecutorDryRun` | `DryRunTouchesNothing` | a dry run saves the state (`pipeline.go:482`) and so passes over records never sent |
| `WebhookCtrlC` | `CtrlCStops` | a stop between the creation of the server and of the workers waits forever (`webhook.go:850`) |
| `AuthorizedCallsStale` | `RetryUsesFreshToken` | the retry after a 401 sends the rejected token again (`doretry.go:96`) |

Seen while modelling, without a run of their own. Of shutdown, updates and state:

- `scheduler.go:223-225` says the state cannot change between the test of `running` and the removal; an
  admitted goroutine needs only the registration's lock (`:226`). An updated registration and the one it
  replaced can then execute the same pipeline together, and with state persistence write one temporary
  file. The process of `cannectors run` registers once and never
  updates, so that `modulecache.go:68-69` is right to assume that executions do not overlap
  (`ChainUseIsSafe`).
- `Stop` clears the map but not the CRON table (`scheduler.go:325`, `415`), so a restarted scheduler
  fires registrations nobody can reach.
- A queue abandoned by a stopped `executeQueuedPipeline` is not drained (`scheduler.go:557`).
- The watermark is the start of the execution (`pipeline.go:150`). A record with an earlier stamp that shows
  later, because the source's clock is behind or its transaction is committed late, is never fetched; one
  of a clock ahead is fetched again. A fetch that a page cap ends saves its watermark all the same
  (`http_polling_pagination.go:45`, `103`, `157`), and the rest is lost. The story
  `docs/stories/09-26.9-watermark-max-champ-record.md:21-25` describes the three cases; `withheld` is the
  set of records they take. The ID that is saved is that of the last record received
  (`id_extractor.go:98`), which in a source that answers in another order than that of its IDs skips the
  larger ones next time, or brings them again. A source that compares a time with `>=`, or one cut to the
  second, sends a record of that second again.
- With both cursors an execution that fetches nothing forgets the ID (`pipeline.go:167`), and records
  already handled are fetched again; `NoNeedlessDuplicate` is checked with one cursor.
- A failed load leaves the polling input the cursor of an earlier execution
  (`http_polling_state.go:35`), although a log line says that everything will be fetched; the database
  input swallows a failed load (`input/database.go:179`).
- A failing `Connect` leaves the result's `Error` nil (`pkg/connector/types.go:138`, `pipeline.go:573`) and the
  input of a single run open (`pipeline.go:97-99`).
- A synchronous webhook handler that takes longer than the timeout (`webhook.go:355`, 15 seconds by default)
  has its answer cut off: the client sees a broken connection for a request that was handled, and a retry
  handles it again. Only a 4xx or 429 says that a request was not handled.
- `Stop` of the webhook returns after five seconds with requests in flight (`webhook.go:448`, `477`); a
  failing `Serve` leaves workers and limiter (`webhook.go:420-423`); a `Stop` before `Start` has marked
  itself running uses up `shutdownOnce` (`webhook.go:447`, `461`).

Of tokens and the memo:

- `oauth2.go:256-258` says invalidation happens automatically on a 401: the HTTP call filter and the SOAP
  client (`soapclient/client.go:218`) never do it, and an output with only a success expression never
  sees a 401 as a failure. Invalidation drops whichever token is cached by then, and a flight that is
  ending may still hand the invalidated token to a caller that joined late.
- The flight runs with the leader's context (`oauth2.go:149`); canceling it fails everyone who waits.
- The call filters' memo outgrows `maxSize` ("if the cache is at capacity, the least recently used
  entry is evicted", `internal/cache/lru.go:19`) once the empty key is its oldest entry
  (`internal/cache/lru.go:188`), until the empty key is used again; `GrowsPastLimitOnlyForEmptyKey` says
  that this is the only way. A key template over a missing field renders the empty key.
- The "unique cache key" (`http_call.go:594`) is by default the request URL and the key values joined by
  `::`. Key values that contain `::` can join to the same key, and a body template or header template,
  which may depend on the record, is not part of it; records with one key get one response.

Of records and batches:

- A context that ends during a `Send` that skips or logs errors fails every later record and the
  execution is a success (`http_request.go:545`, `output/database.go:245`).
- A commit that fails, and a rollback, return the count of rows that are not there
  (`output/database.go:263`, `271`; the test at `database_send_test.go:251` expects it). `ResultIsHonest`
  excepts a transaction that did not commit.
- A batch with a body template sends only its first record and counts them all
  (`http_request.go:437-450`; `docs/PLAN_BATCH_SIZE_OUTPUT.md:74` describes templates per record). A batch
  with a method that has no default body sends no record, beyond what its endpoint and headers render of the
  first one, and counts them all as well (`http_request.go:469-472`, `415`); so does a single request that
  names nothing.
- On PostgreSQL a statement skipped inside a transaction ends the transaction: the statements after it
  fail as well, and the commit is a rollback. On MySQL a deadlock (`errors.go:297`) rolls back the whole
  transaction; under `skip` or `log` the later statements commit one by one, `Commit` succeeds, and the rows
  before the deadlock are lost and counted. SQLite may roll back by itself too; there `Commit` is an error.
- The source may send `_errors`: only `_metadata` is taken out (`pipeline.go:823`), and the record reads as
  one that failed.
- The value of a set filter is one object in every record of every execution (`set.go:119`, `25-26`), and
  a mapping writes the object it read (`mapping.go:401`): what a later filter changes in one place changes
  in all. The attachments of a SOAP answer are one map in every record of its batch
  (`soap_polling.go:186-196`): a filter that removes a field below `_soapAttachments` removes it from all of
  them. `SharingIsKnown` says that there is no other way to share.
- A mapping may write an object into itself (`mapping.go:401`: from `a` to `a.b`). A later path through the
  loop may come back to the field it writes, and then does not read what was written; `EditIsRead` leaves
  out records that held an object in itself before the edit.
- A `Set` that stops at a malformed segment has already made, or replaced, what was on its way
  (`path.go`, `set.go:119`); its value is not written.
- `Delete` through an indexed last segment takes the key out of the element, or the element, where `Get`
  reads nothing at that path (`path.go:195-201`, `77-78`).
- A query that does not advance is repeated until its context ends, and what it reads is kept: one whose
  parameters read `pagination.limit` alone (`sqltemplate.go:148-155`, `input/database.go:298-307`), and one by
  cursor whose cursor field is NULL in the last row, not selected, or selected under another name
  (`input/database.go:383`). Of the first the comment at `input/database.go:341-342` says "so the cursor
  always reaches the query"; the constructor rejects only a query that binds nothing. `RowsFetchedOnce`
  leaves such queries out, `FetchReturns` lets them end with their context. A query with a `LIMIT` of its own
  above the configured limit is left out, as is a cursor column that is not unique, not the order of the
  query, or NULL in some rows only. An HTTP or SOAP
  server that does not look at the position repeats its answer up to the page cap.
- Pagination that reaches its page cap ends as a full fetch, without an error
  (`http_polling_pagination.go:45`); by page or offset a source that changes loses and repeats rows, which
  `RowsFetchedOnce` allows only after such a change.

## 7. What is not modelled

- Configuration loading and validation, the module registry and the factory: sequential, at start-up,
  text in and structures out.
- Several mappings of one filter, which run record by record and of which the rest is skipped once one has
  failed: a filter has one mapping here, and several are several filters.
- Templates, SQL text, request construction, envelopes, static authentication, classification of driver
  errors, logging, CLI output: conversions of text without state another part reads. In the models they
  fail or do not.
- The expression language of conditions and the JavaScript of scripts: a free choice of the outcome.
- The vendored SOAP library and the stub modules: third-party, or empty.

Left for later:

1. A proof of `EditIsLocal` for single fields of the record edited.
2. An abstract single-server queue that `Scheduler` implements.
3. Overlapping executions of one pipeline: `Scheduler` and `Executor` composed, with two writers of one
   temporary file.
4. Pure operators with reference definitions: backoff, cache keys, the inheritance of defaults.
