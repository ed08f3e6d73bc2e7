----------------------------- MODULE CallFilter -----------------------------
(***************************************************************************)
(* The enrichment filters http_call, soap_call and sql_call                *)
(* (internal/modules/filter): Process takes a batch of records, makes one  *)
(* call per record unless the memo answers, and merges the response into   *)
(* the record. The module, and with it the memo, is shared: a webhook      *)
(* input runs the pipeline of every request on a goroutine of its own      *)
(* (cmd/cannectors/main.go:444), so that several Process calls interleave  *)
(* between any two accesses to the cache.                                  *)
(*                                                                         *)
(* A record is represented by the cache key its call has (buildCacheKey):  *)
(* two records with one key are served alike. What the responses say is    *)
(* left out; what matters is WHICH Go object holds one, because the cache  *)
(* and the records could share it. `heap' gives every object its content.  *)
(***************************************************************************)
EXTENDS LRUCache, Sequences, SequencesExt

CONSTANTS Callers,    \* concurrent Process calls
          MaxBatch,   \* records of a batch, at most
          Batches,    \* the batches considered for each caller
          Modules,    \* the module configurations considered
          MaxTroubles \* bound on failures, cancellations and clean-ups together

ASSUME CallersAssumption ==
  /\ IsFiniteSet(Callers) /\ MaxBatch \in Nat /\ MaxTroubles \in Nat
  /\ Values = Callers \X (1 .. MaxBatch) \X {"response", "copy"}
  /\ \A c \in Callers : \A batch \in Batches[c] : batch \in Seq(Keys) /\ Len(batch) <= MaxBatch
  /\ Modules \subseteq [kind : {"http", "soap", "sql"},
                        onError : {"fail", "skip", "log"}, cacheEnabled : BOOLEAN]

VARIABLES kind,          \* which of the three filters the module is
          onError,       \* the module's strategy for a failed record
          cacheEnabled,  \* the module has a memo
          heap,          \* response objects: Values -> [of, fits, edited]
          call,          \* per caller, the local variables of Process
          cancelled,     \* callers whose context is done
          usedAt,        \* history: when a kept entry was last served or stored
          troubles       \* how much has gone wrong

vars == <<items, now, answer, kind, onError, cacheEnabled, heap, call, cancelled, usedAt, troubles>>

(* The objects a caller makes for its i-th record: the decoded response,   *)
(* and the deep copy merged into the record.                               *)
Response(c, i) == <<c, i, "response">>
Copy(c, i)     == <<c, i, "copy">>

Object == [of : Keys, fits : BOOLEAN, edited : BOOLEAN]

(* An element of Process's result: the record it was made from, and the    *)
(* object merged into it; a marked record has none.                        *)
Enriched(i, v) == [record |-> i, data |-> v]
Marked(i)      == [record |-> i, data |-> None]

Call == [pc : {"idle", "next", "lookup", "fetch", "store", "merge", "failed", "done", "error"},
         batch : Seq(Keys),
         idx : 1 .. MaxBatch + 1,
         data : Values \cup {None},
         result : Seq([record : 1 .. MaxBatch, data : Values \cup {None}]),
         failures : SUBSET (1 .. MaxBatch),
         tally : 0 .. MaxBatch]

TypeOK ==
  /\ CacheType
  /\ kind \in {"http", "soap", "sql"}
  /\ onError \in {"fail", "skip", "log"}
  /\ cacheEnabled \in BOOLEAN
  /\ DOMAIN heap \subseteq Values /\ heap \in [DOMAIN heap -> Object]
  /\ call \in [Callers -> Call]
  /\ cancelled \subseteq Callers
  /\ usedAt \in [DOMAIN items -> Nat]
  /\ troubles \in 0 .. MaxTroubles

Init ==
  /\ CacheInit
  /\ \E m \in Modules : kind = m.kind /\ onError = m.onError /\ cacheEnabled = m.cacheEnabled
  /\ heap = [v \in {} |-> None]
  /\ call = [c \in Callers |-> [pc |-> "idle", batch |-> <<>>, idx |-> 1, data |-> None,
                                result |-> <<>>, failures |-> {}, tally |-> 0]]
  /\ cancelled = {}
  /\ usedAt = [k \in {} |-> 0]
  /\ troubles = 0

Key(c) == call[c].batch[call[c].idx]

Goto(c, pc) == call' = [call EXCEPT ![c].pc = pc]
GotoWith(c, pc, v) == call' = [call EXCEPT ![c].pc = pc, ![c].data = v]

config == <<kind, onError, cacheEnabled>>

Trouble == troubles < MaxTroubles /\ troubles' = troubles + 1

(* The history kept of the entries that stay, k being used now. *)
Used(k) == usedAt' = [x \in DOMAIN items' |-> IF x = k THEN now ELSE usedAt[x]]

-----------------------------------------------------------------------------
(* The executor runs the filter on the records of a request. *)
Process(c) ==
  /\ call[c].pc = "idle"
  /\ \E batch \in Batches[c] :
        call' = [call EXCEPT ![c].pc = "next", ![c].batch = batch]
  /\ UNCHANGED <<items, now, answer, config, heap, cancelled, usedAt, troubles>>

(* http_call and soap_call extract the keys of a record, and http_call     *)
(* builds its URL, before the cache is consulted; a record without its key *)
(* fails there. sql_call does nothing that can fail until it has to query. *)
FailsBeforeLookup == kind \in {"http", "soap"}

(* The head of the loop: the context is looked at once per record.         *)
NextRecord(c) ==
  /\ call[c].pc = "next"
  /\ IF call[c].idx > Len(call[c].batch) THEN Goto(c, "done") /\ UNCHANGED troubles
     ELSE IF c \in cancelled THEN Goto(c, "error") /\ UNCHANGED troubles
     ELSE \/ FailsBeforeLookup /\ Goto(c, "failed") /\ Trouble
          \/ Goto(c, IF cacheEnabled THEN "lookup" ELSE "fetch") /\ UNCHANGED troubles
  /\ UNCHANGED <<items, now, answer, config, heap, cancelled, usedAt>>

(* cache.Get(cacheKey) *)
Lookup(c) ==
  /\ call[c].pc = "lookup"
  /\ Get(Key(c))
  /\ IF Found(Key(c))
       THEN GotoWith(c, "merge", items[Key(c)].value)
       ELSE Goto(c, "fetch")
  /\ Used(Key(c))
  /\ UNCHANGED <<config, heap, cancelled, troubles>>

(* Fault: the failure is stored like a response.                           *)
Fetch_CachesErrors(c) ==
  /\ call[c].pc = "fetch"
  /\ IF cacheEnabled THEN GotoWith(c, "store", None) ELSE Goto(c, "failed")
  /\ UNCHANGED <<items, now, answer, config, heap, cancelled, usedAt, troubles>>

(* executeQuery and rowsToRecords: the first row, or none, as an object    *)
(* that fits into any record.                                              *)
AnswersWithRow == kind = "sql"

(* The call itself, with its retries. It fails when the context is done,   *)
(* and may fail otherwise; a response, but for a row, may have a shape (a  *)
(* list, null) that the merge strategy has no place for.                   *)
Fetch(c) ==
  /\ call[c].pc = "fetch"
  /\ \/ Goto(c, "failed") /\ UNCHANGED heap /\ (IF c \in cancelled THEN UNCHANGED troubles ELSE Trouble)
     \/ /\ c \notin cancelled
        /\ LET v == Response(c, call[c].idx) IN
           /\ \E fits \in BOOLEAN :
                 /\ AnswersWithRow => fits
                 /\ IF fits THEN UNCHANGED troubles ELSE Trouble
                 /\ heap' = [x \in DOMAIN heap \cup {v} |->
                              IF x = v THEN [of |-> Key(c), fits |-> fits, edited |-> FALSE] ELSE heap[x]]
           /\ GotoWith(c, IF cacheEnabled THEN "store" ELSE "merge", v)
  /\ UNCHANGED <<items, now, answer, config, cancelled, usedAt>>

(* cache.Set(cacheKey, responseData, cacheTTL), before the merge is tried. *)
Store(c) ==
  /\ call[c].pc = "store"
  /\ Set(Key(c), call[c].data)
  /\ Used(Key(c))
  /\ Goto(c, "merge")
  /\ UNCHANGED <<config, heap, cancelled, troubles>>

(* Fault: the record gets the cached object itself.                        *)
Cloned_Shares(c) == call[c].data

(* cloneCallData: the record gets an object of its own. *)
Cloned(c) == Copy(c, call[c].idx)

(* mergeCallResult: a response without a place fails the record, any other *)
(* is copied into it, and the record joins the result. (An empty list may  *)
(* leave the record as it is; its copy has nothing in it to share.)        *)
Merge(c) ==
  /\ call[c].pc = "merge"
  /\ LET from == call[c].data
         to   == Cloned(c) IN
     IF heap[from].fits
       THEN /\ heap' = [x \in DOMAIN heap \cup {to} |-> IF x = to THEN heap[from] ELSE heap[x]]
            /\ call' = [call EXCEPT ![c].pc = "next", ![c].idx = @ + 1, ![c].data = None,
                                    ![c].result = Append(@, Enriched(call[c].idx, to))]
       ELSE Goto(c, "failed") /\ UNCHANGED heap
  /\ UNCHANGED <<items, now, answer, config, cancelled, usedAt, troubles>>

(* Fault: a skipped record falls through to the append after the switch.   *)
RecordError_FallsThrough(c) ==
  /\ call[c].pc = "failed"
  /\ call' = [call EXCEPT
       ![c].pc       = IF onError = "fail" THEN "error" ELSE "next",
       ![c].idx      = IF onError = "fail" THEN @ ELSE @ + 1,
       ![c].data     = None,
       ![c].result   = IF onError # "fail" THEN Append(@, Marked(call[c].idx)) ELSE @,
       ![c].tally    = IF onError = "log" THEN @ + 1 ELSE @,
       ![c].failures = @ \cup {call[c].idx}]
  /\ UNCHANGED <<items, now, answer, config, heap, cancelled, usedAt, troubles>>

(* Fault: a failed record is taken up again.                               *)
RecordError_Repeats(c) ==
  /\ call[c].pc = "failed"
  /\ call' = [call EXCEPT ![c].pc = IF onError = "fail" THEN "error" ELSE "next"]
  /\ UNCHANGED <<items, now, answer, config, heap, cancelled, usedAt, troubles>>

(* HandleRecordError and the switch on its outcome: stop, drop, or keep    *)
(* the record with a marker, counted in the tally of the run.              *)
RecordError(c) ==
  /\ call[c].pc = "failed"
  /\ call' = [call EXCEPT
       ![c].pc       = IF onError = "fail" THEN "error" ELSE "next",
       ![c].idx      = IF onError = "fail" THEN @ ELSE @ + 1,
       ![c].data     = None,
       ![c].result   = IF onError = "log" THEN Append(@, Marked(call[c].idx)) ELSE @,
       ![c].tally    = IF onError = "log" THEN @ + 1 ELSE @,
       ![c].failures = @ \cup {call[c].idx}]
  /\ UNCHANGED <<items, now, answer, config, heap, cancelled, usedAt, troubles>>

-----------------------------------------------------------------------------
(* A later filter of the same run (set, mapping, script, remove) edits in  *)
(* place what it finds in the records.                                     *)
Downstream(c) ==
  /\ call[c].pc = "done"
  /\ LET found == {e.data : e \in Range(call[c].result)} \ {None} IN
     /\ \E v \in found : ~heap[v].edited
     /\ heap' = [v \in DOMAIN heap |-> [heap[v] EXCEPT !.edited = @ \/ v \in found]]
  /\ UNCHANGED <<items, now, answer, config, call, cancelled, usedAt, troubles>>

(* The request's context is cancelled or times out. *)
Cancel(c) ==
  /\ call[c].pc \notin {"idle", "done", "error"} /\ c \notin cancelled
  /\ cancelled' = cancelled \cup {c}
  /\ Trouble
  /\ UNCHANGED <<items, now, answer, config, heap, call, usedAt>>

(* ClearCache, and the rest of the Cache interface. *)
Maintain ==
  /\ cacheEnabled
  /\ Clear \/ CleanExpired \/ \E k \in Keys : Delete(k)
  /\ items' # items
  /\ Used(None)
  /\ Trouble
  /\ UNCHANGED <<config, heap, call, cancelled>>

PassTime == Tick /\ UNCHANGED <<config, heap, call, cancelled, usedAt, troubles>>

Step(c) == NextRecord(c) \/ Lookup(c) \/ Fetch(c) \/ Store(c) \/ Merge(c) \/ RecordError(c)

Next ==
  \/ \E c \in Callers : Process(c) \/ Step(c) \/ Downstream(c) \/ Cancel(c)
  \/ Maintain
  \/ PassTime

(* A goroutine that runs Process is scheduled, and every call it makes     *)
(* returns: each has a timeout.                                            *)
Spec == Init /\ [][Next]_vars /\ \A c \in Callers : WF_vars(Step(c))

-----------------------------------------------------------------------------
(***************************************************************************)
(* The memo holds each response as the endpoint sent it, for the call it   *)
(* belongs to, whatever later filters do to the records that were enriched *)
(* from it, in this batch or in a concurrent one (call_merge.go:111-116).  *)
(***************************************************************************)
CachedAsFetched ==
  \A k \in DOMAIN items : heap[items[k].value].of = k /\ ~heap[items[k].value].edited

(***************************************************************************)
(* Every record leaves Process exactly once and in order, unless it failed *)
(* under onError skip; the marked ones are exactly the ones that failed,   *)
(* the tally counts them, and under onError fail a result has no failure   *)
(* in it. Each enriched record holds the response to its own call          *)
(* (http_call.go:395-465).                                                 *)
(***************************************************************************)
OutputAccounted ==
  \A c \in Callers :
    LET handled == 1 .. call[c].idx - 1
        out     == call[c].result
        at(i)   == out[i].record IN
    /\ \A i, j \in DOMAIN out : i < j => at(i) < at(j)
    /\ {at(i) : i \in DOMAIN out} = handled \ (IF onError = "skip" THEN call[c].failures ELSE {})
    /\ {at(i) : i \in {j \in DOMAIN out : out[j].data = None}} =
         (IF onError = "log" THEN call[c].failures ELSE {})
    /\ call[c].tally = Cardinality({i \in DOMAIN out : out[i].data = None})
    /\ \A i \in DOMAIN out : out[i].data # None => heap[out[i].data].of = call[c].batch[at(i)]
    /\ call[c].pc = "done" => handled = DOMAIN call[c].batch

(***************************************************************************)
(* What a new response costs the memo is the entry that has gone unused    *)
(* longest: no entry that stays was last served or stored before the one   *)
(* that goes (lru.go:104, 171-191).                                        *)
(***************************************************************************)
EvictsLeastRecentlyUsed ==
  [][\A c \in Callers : call[c].pc = "store" /\ call'[c].pc # "store" =>
       \A gone \in DOMAIN items \ DOMAIN items', stays \in DOMAIN items \cap DOMAIN items' :
          usedAt[gone] <= usedAt[stays]]_vars

(***************************************************************************)
(* A new response costs the memo the right entry and, but for the empty    *)
(* key, always one (lru.go:104-192).                                       *)
(***************************************************************************)
MemoMakesRoom == GrowsPastLimitOnlyForEmptyKey /\ EvictsLeastRecentlyUsed

(***************************************************************************)
(* A batch that was taken up is handed back or given up with an error      *)
(* (http_call.go:376-465): a failed record, a cancelled context and a full *)
(* cache included.                                                         *)
(***************************************************************************)
ProcessReturns == \A c \in Callers : call[c].pc = "next" ~> call[c].pc \in {"done", "error"}
=============================================================================
