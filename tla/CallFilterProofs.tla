-------------------------- MODULE CallFilterProofs --------------------------
(***************************************************************************)
(* Theorems about the memo, for every set of keys and values, every size   *)
(* and every time to live, and about the enrichment filters that share it, *)
(* for every number of concurrent calls, every batch, every memo and every *)
(* configuration.                                                          *)
(***************************************************************************)
EXTENDS CallFilter, FiniteSetTheorems, TLAPS

-----------------------------------------------------------------------------
(* The memo.                                                               *)

USE DEF Answer

(* What an eviction deletes is one of the oldest entries, or nothing when  *)
(* the empty key is the one it found.                                      *)
LEMMA VictimsAreOldest ==
  ASSUME NEW gone \in Victims
  PROVE  /\ gone \subseteq Oldest
         /\ gone # {} => \E k \in Oldest : gone = {k}
         /\ gone = {} => EmptyKey \in Oldest
  BY DEF Victims

(* The entries are finitely many: there are only so many keys.             *)
LEMMA FiniteItems == ASSUME CacheType PROVE IsFiniteSet(DOMAIN items)
  BY CacheAssumption, FS_Subset DEF CacheType

LEMMA GetType ==
  ASSUME CacheType, NEW k \in Keys, Get(k)
  PROVE  CacheType'
<1>1. CASE Found(k)
  <2>1. DOMAIN items' = DOMAIN items
    BY <1>1 DEF Get
  <2>2. items' \in [DOMAIN items -> Entry]
    BY <1>1 DEF Get, Found, CacheType, Entry
  <2>3. answer' \in Answer /\ now' \in Nat
    BY <1>1 DEF Get, Found, CacheType, Entry
  <2> QED BY <2>1, <2>2, <2>3 DEF CacheType
<1>2. CASE ~Found(k)
  BY <1>2 DEF Get, CacheType, Without
<1> QED BY <1>1, <1>2

LEMMA SetType ==
  ASSUME CacheType, NEW k \in Keys, NEW v \in Values, Set(k, v)
  PROVE  CacheType'
<1>1. PICK gone : items' = [x \in (DOMAIN items \ gone) \cup {k} |->
                              IF x = k THEN [value |-> v, expiresAt |-> now + TTL, lastUsed |-> now]
                                       ELSE items[x]]
  BY DEF Set
<1>2. [value |-> v, expiresAt |-> now + TTL, lastUsed |-> now] \in Entry
  BY CacheAssumption DEF CacheType, Entry
<1>3. \A x \in DOMAIN items : items[x] \in Entry
  BY DEF CacheType
<1>4. DOMAIN items' \subseteq Keys /\ items' \in [DOMAIN items' -> Entry]
  BY <1>1, <1>2, <1>3 DEF CacheType
<1> QED BY <1>4 DEF Set, CacheType

LEMMA WithoutType ==
  ASSUME CacheType, NEW gone, items' = Without(gone), answer' = None, UNCHANGED now
  PROVE  CacheType'
  BY DEF CacheType, Without

LEMMA CacheTypeStep == CacheType /\ [CacheNext]_cacheVars => CacheType'
<1> SUFFICES ASSUME CacheType, [CacheNext]_cacheVars PROVE CacheType'
  OBVIOUS
<1>1. ASSUME NEW k \in Keys, Get(k) PROVE CacheType'
  BY <1>1, GetType
<1>2. ASSUME NEW k \in Keys, NEW v \in Values, Set(k, v) PROVE CacheType'
  BY <1>2, SetType
<1>3. ASSUME NEW k \in Keys, Delete(k) PROVE CacheType'
  BY <1>3, WithoutType DEF Delete
<1>4. CASE Clear
  BY <1>4, WithoutType DEF Clear
<1>5. CASE CleanExpired
  BY <1>5, WithoutType DEF CleanExpired
<1>6. CASE Tick
  BY <1>6 DEF Tick, CacheType
<1>7. CASE UNCHANGED cacheVars
  BY <1>7 DEF cacheVars, CacheType
<1> QED BY <1>1, <1>2, <1>3, <1>4, <1>5, <1>6, <1>7 DEF CacheNext

(***************************************************************************)
(* Type correctness of the cache (lru.go:42-64).                           *)
(***************************************************************************)
THEOREM CacheTyped == CacheSpec => []CacheType
<1>1. CacheInit => CacheType
  BY DEF CacheInit, CacheType
<1> QED BY <1>1, CacheTypeStep, PTL DEF CacheSpec

-----------------------------------------------------------------------------
(* The abstract map behind the entries. *)
Kept == [k \in DOMAIN items |-> [value |-> items[k].value, until |-> items[k].expiresAt]]

(* Deleting entries is forgetting them.                                    *)
LEMMA WithoutForgets ==
  ASSUME NEW gone, items' = Without(gone)
  PROVE  /\ (DOMAIN items \ gone) \in SUBSET DOMAIN Kept
         /\ Kept' = [k \in DOMAIN items \ gone |-> Kept[k]]
  BY DEF Kept, Without

LEMMA GetRefines ==
  ASSUME CacheType, NEW k \in Keys, Get(k)
  PROVE  Promise!Ask(k)
<1>1. CASE Found(k)
  <2>1. DOMAIN items' = DOMAIN items
    BY <1>1 DEF Get
  <2>2. \A x \in DOMAIN items : items'[x].value = items[x].value /\ items'[x].expiresAt = items[x].expiresAt
    BY <1>1 DEF Get, CacheType, Entry
  <2>3. Kept' = [x \in DOMAIN Kept |-> Kept[x]]
    BY <2>1, <2>2 DEF Kept
  <2>4. k \in DOMAIN Kept /\ now <= Kept[k].until /\ answer' = [key |-> k, value |-> Kept[k].value]
    BY <1>1 DEF Found, IsExpired, Get, Kept, CacheType, Entry
  <2>5. now' = now
    BY DEF Get
  <2> QED BY <2>3, <2>4, <2>5 DEF Promise!Ask, Promise!Keeping, Kept
<1>2. CASE ~Found(k)
  <2>1. items' = Without({k}) /\ answer' = None /\ now' = now
    BY <1>2 DEF Get
  <2> QED BY <2>1, WithoutForgets DEF Promise!Ask, Promise!Keeping, Kept
<1> QED BY <1>1, <1>2

LEMMA SetRefines ==
  ASSUME CacheType, NEW k \in Keys, NEW v \in Values, Set(k, v)
  PROVE  Promise!Put(k, v)
<1>1. PICK gone : items' = [x \in (DOMAIN items \ gone) \cup {k} |->
                              IF x = k THEN [value |-> v, expiresAt |-> now + TTL, lastUsed |-> now]
                                       ELSE items[x]]
  BY DEF Set
<1> DEFINE kept == (DOMAIN items \ gone) \ {k}
<1>2. kept \in SUBSET (DOMAIN Kept \ {k})
  BY DEF Kept
<1>3. DOMAIN items' = kept \cup {k}
  BY <1>1
<1>4. Kept' = [x \in kept \cup {k} |->
                 IF x = k THEN [value |-> v, until |-> now + TTL] ELSE Kept[x]]
  BY <1>1, <1>3 DEF Kept
<1>5. answer' = None /\ now' = now
  BY DEF Set
<1> QED BY <1>2, <1>4, <1>5 DEF Promise!Put, Kept

LEMMA WithoutRefines ==
  ASSUME NEW gone, items' = Without(gone), answer' = None, UNCHANGED now
  PROVE  Promise!Forget
  BY WithoutForgets DEF Promise!Forget, Promise!Keeping, Kept

(***************************************************************************)
(* The LRU cache implements the lossy map: no sequence of calls makes it   *)
(* answer with a value that was not the last one stored under the key, or  *)
(* past the deadline that storing it set (lru.go:84-211).                  *)
(***************************************************************************)
THEOREM MemoIsALossyMap == CacheSpec => ImplementsLossyMap
<1>1. CacheInit => Promise!Init
  BY DEF CacheInit, Promise!Init
<1>2. CacheType /\ [CacheNext]_cacheVars => [Promise!Next]_(Promise!mapVars)
  <2> SUFFICES ASSUME CacheType, [CacheNext]_cacheVars
               PROVE  Promise!Next \/ UNCHANGED Promise!mapVars
    OBVIOUS
  <2>1. ASSUME NEW k \in Keys, Get(k) PROVE Promise!Next
    BY <2>1, GetRefines DEF Promise!Next
  <2>2. ASSUME NEW k \in Keys, NEW v \in Values, Set(k, v) PROVE Promise!Next
    BY <2>2, SetRefines DEF Promise!Next
  <2>3. ASSUME NEW k \in Keys, Delete(k) PROVE Promise!Next
    BY <2>3, WithoutRefines DEF Delete, Promise!Next
  <2>4. CASE Clear
    BY <2>4, WithoutRefines DEF Clear, Promise!Next
  <2>5. CASE CleanExpired
    BY <2>5, WithoutRefines DEF CleanExpired, Promise!Next
  <2>6. CASE Tick
    BY <2>6 DEF Tick, Promise!Next, Promise!Advance
  <2>7. CASE UNCHANGED cacheVars
    BY <2>7 DEF cacheVars, Promise!mapVars
  <2> QED BY <2>1, <2>2, <2>3, <2>4, <2>5, <2>6, <2>7 DEF CacheNext
<1> QED BY <1>1, <1>2, CacheTyped, PTL DEF CacheSpec, ImplementsLossyMap, Promise!Spec

-----------------------------------------------------------------------------
(* A Set that finds the cache full and its oldest entry under another key  *)
(* than the empty one leaves no more entries than there were; any Set adds *)
(* at most one.                                                            *)
LEMMA SetGrowth ==
  ASSUME CacheType, NEW k \in Keys, NEW v \in Values, Set(k, v)
  PROVE  /\ Cardinality(DOMAIN items') <= Cardinality(DOMAIN items) + 1
         /\ (Cardinality(DOMAIN items) >= MaxSize /\ EmptyKey \notin Oldest)
              => Cardinality(DOMAIN items') <= Cardinality(DOMAIN items)
<1>1. PICK gone \in IF Cardinality(DOMAIN items) >= MaxSize /\ k \notin DOMAIN items
                      THEN Victims ELSE {{}} :
        items' = [x \in (DOMAIN items \ gone) \cup {k} |->
                    IF x = k THEN [value |-> v, expiresAt |-> now + TTL, lastUsed |-> now]
                             ELSE items[x]]
  BY DEF Set
<1>2. DOMAIN items' = (DOMAIN items \ gone) \cup {k}
  BY <1>1
<1>3. IsFiniteSet(DOMAIN items) /\ Cardinality(DOMAIN items) \in Nat
  BY FiniteItems, FS_CardinalityType
<1>4. IsFiniteSet(DOMAIN items \cup {k})
      /\ Cardinality(DOMAIN items \cup {k}) = IF k \in DOMAIN items THEN Cardinality(DOMAIN items)
                                              ELSE Cardinality(DOMAIN items) + 1
  BY <1>3, FS_AddElement
<1>5. Cardinality(DOMAIN items') <= Cardinality(DOMAIN items \cup {k})
  BY <1>2, <1>4, FS_Subset
<1>6. Cardinality(DOMAIN items') \in Nat
  BY <1>2, <1>4, FS_Subset, FS_CardinalityType
<1>7. ASSUME Cardinality(DOMAIN items) >= MaxSize, EmptyKey \notin Oldest, k \notin DOMAIN items
      PROVE  Cardinality(DOMAIN items') = Cardinality(DOMAIN items)
  <2>1. gone \in Victims
    BY <1>1, <1>7
  <2>2. PICK old \in DOMAIN items : gone = {old}
    BY <2>1, <1>7, VictimsAreOldest DEF Oldest
  <2>3. /\ IsFiniteSet(DOMAIN items \ {old})
        /\ Cardinality(DOMAIN items \ {old}) = Cardinality(DOMAIN items) - 1
    BY <1>3, <2>2, FS_RemoveElement
  <2>4. Cardinality((DOMAIN items \ {old}) \cup {k}) = Cardinality(DOMAIN items \ {old}) + 1
    BY <2>3, <1>7, FS_AddElement
  <2> QED BY <1>2, <1>3, <2>2, <2>3, <2>4
<1> QED BY <1>3, <1>4, <1>5, <1>6, <1>7

(* Nothing else makes the cache grow.                                      *)
LEMMA OthersDoNotGrow ==
  ASSUME CacheType, [CacheNext]_cacheVars, ~\E k \in Keys, v \in Values : Set(k, v)
  PROVE  Cardinality(DOMAIN items') <= Cardinality(DOMAIN items)
<1>1. DOMAIN items' \subseteq DOMAIN items
  <2>1. ASSUME NEW k \in Keys, Get(k) PROVE DOMAIN items' \subseteq DOMAIN items
    BY <2>1 DEF Get, Without
  <2> QED BY <2>1 DEF CacheNext, Delete, Clear, CleanExpired, Tick, cacheVars, Without
<1> QED BY <1>1, FiniteItems, FS_Subset

(***************************************************************************)
(* A full cache grows only when the oldest entry is the one under the      *)
(* empty key (lru.go:125-129, 188).                                        *)
(***************************************************************************)
THEOREM MemoGrowsOnlyForEmptyKey == CacheSpec => GrowsPastLimitOnlyForEmptyKey
<1>1. ASSUME CacheType, [CacheNext]_cacheVars,
             Cardinality(DOMAIN items) >= MaxSize, Cardinality(DOMAIN items') > Cardinality(DOMAIN items)
      PROVE  EmptyKey \in Oldest
  <2>0. IsFiniteSet(DOMAIN items) /\ Cardinality(DOMAIN items) \in Nat
    BY <1>1, FiniteItems, FS_CardinalityType
  <2>1. CacheType'
    BY <1>1, CacheTypeStep
  <2>2. IsFiniteSet(DOMAIN items') /\ Cardinality(DOMAIN items') \in Nat
    BY <2>1, CacheAssumption, FS_Subset, FS_CardinalityType DEF CacheType
  <2>3. PICK k \in Keys, v \in Values : Set(k, v)
    BY <1>1, <2>0, <2>2, OthersDoNotGrow
  <2> QED BY <1>1, <2>0, <2>2, <2>3, SetGrowth
<1> QED BY <1>1, CacheTyped, PTL DEF CacheSpec, GrowsPastLimitOnlyForEmptyKey

(***************************************************************************)
(* When no template can render the empty key, the cache keeps to maxSize   *)
(* (lru.go:19).                                                            *)
(***************************************************************************)
THEOREM MemoWithinMaxSize ==
  ASSUME EmptyKey \notin Keys
  PROVE  CacheSpec => []WithinMaxSize
<1>1. CacheInit => WithinMaxSize
  BY CacheAssumption, FS_EmptySet DEF CacheInit, WithinMaxSize
<1>2. CacheType /\ WithinMaxSize /\ [CacheNext]_cacheVars => WithinMaxSize'
  <2> SUFFICES ASSUME CacheType, WithinMaxSize, [CacheNext]_cacheVars PROVE WithinMaxSize'
    OBVIOUS
  <2>1. IsFiniteSet(DOMAIN items) /\ Cardinality(DOMAIN items) \in Nat /\ MaxSize \in Nat
    BY FiniteItems, FS_CardinalityType, CacheAssumption
  <2>2. CacheType'
    BY CacheTypeStep
  <2>3. IsFiniteSet(DOMAIN items') /\ Cardinality(DOMAIN items') \in Nat
    BY <2>2, CacheAssumption, FS_Subset, FS_CardinalityType DEF CacheType
  <2>4. EmptyKey \notin Oldest
    BY DEF Oldest, CacheType
  <2>5. CASE \E k \in Keys, v \in Values : Set(k, v)
    BY <2>1, <2>3, <2>4, <2>5, SetGrowth DEF WithinMaxSize
  <2>6. CASE ~\E k \in Keys, v \in Values : Set(k, v)
    BY <2>1, <2>3, <2>6, OthersDoNotGrow DEF WithinMaxSize
  <2> QED BY <2>5, <2>6
<1> QED BY <1>1, <1>2, CacheTyped, PTL DEF CacheSpec

-----------------------------------------------------------------------------
(***************************************************************************)
(* The enrichment filters.                                                 *)
(*                                                                         *)
(* The inductive invariant says who holds which response object: the cache *)
(* and the calls under way hold decoded responses, the results hold only   *)
(* copies, only copies are ever edited, and every object belongs to the    *)
(* record it was made for. It needs the phases of Process, to know that    *)
(* the record at hand exists.                                              *)
(***************************************************************************)

USE DEF Response, Copy

(* The phases in which Process has a record at hand. *)
AtRecord == {"lookup", "fetch", "store", "merge", "failed"}

Phases ==
  \A c \in Callers :
    /\ call[c].pc \in AtRecord => call[c].idx \in DOMAIN call[c].batch
    /\ call[c].pc = "idle" => call[c].batch = <<>>
    /\ Len(call[c].result) < call[c].idx
    /\ call[c].tally < call[c].idx
    /\ call[c].idx <= Len(call[c].batch) + 1

IsResponse(v) == v \in DOMAIN heap /\ v[3] = "response"

Holders ==
  /\ \A k \in DOMAIN items : IsResponse(items[k].value) /\ heap[items[k].value].of = k
  /\ \A c \in Callers : call[c].pc \in {"store", "merge"} =>
        IsResponse(call[c].data) /\ heap[call[c].data].of = Key(c)
  /\ \A c \in Callers : \A i \in DOMAIN call[c].result :
        call[c].result[i].data # None =>
          /\ call[c].result[i].data \in DOMAIN heap
          /\ call[c].result[i].data[3] = "copy"

Objects ==
  /\ \A v \in DOMAIN heap : heap[v].edited => v[3] = "copy"
  /\ \A v \in DOMAIN heap : /\ v[2] \in DOMAIN call[v[1]].batch
                            /\ heap[v].of = call[v[1]].batch[v[2]]

BatchBound == \A c \in Callers : Len(call[c].batch) <= MaxBatch

IInv == TypeOK /\ BatchBound /\ Phases /\ Holders /\ Objects

LEMMA InitIInv == Init => IInv
<1> SUFFICES ASSUME Init PROVE IInv
  OBVIOUS
<1> USE DEF Init, CacheInit
<1>1. TypeOK
  <2>1. CacheType
    BY DEF CacheType, Answer
  <2>2. call \in [Callers -> Call]
    <3>1. [pc |-> "idle", batch |-> <<>>, idx |-> 1, data |-> None,
           result |-> <<>>, failures |-> {}, tally |-> 0] \in Call
      BY CallersAssumption DEF Call
    <3> QED BY <3>1
  <2>3. /\ DOMAIN heap \subseteq Values /\ heap \in [DOMAIN heap -> Object]
        /\ usedAt \in [DOMAIN items -> Nat]
    OBVIOUS
  <2>4. troubles \in 0 .. MaxTroubles /\ cancelled \subseteq Callers
    BY CallersAssumption
  <2>5. /\ kind \in {"http", "soap", "sql"} /\ onError \in {"fail", "skip", "log"}
        /\ cacheEnabled \in BOOLEAN
    BY CallersAssumption
  <2> QED BY <2>1, <2>2, <2>3, <2>4, <2>5 DEF TypeOK
<1>2. Phases /\ Holders /\ Objects /\ BatchBound
  BY CallersAssumption DEF BatchBound, Phases, Holders, Objects, AtRecord
<1> QED BY <1>1, <1>2 DEF IInv

-----------------------------------------------------------------------------
(* How a step changes the local variables of one call. *)

PCs == {"idle", "next", "lookup", "fetch", "store", "merge", "failed", "done", "error"}

LEMMA GotoKeeps ==
  ASSUME call \in [Callers -> Call], NEW c \in Callers, NEW pc \in PCs, Goto(c, pc)
  PROVE  /\ call' \in [Callers -> Call]
         /\ call'[c] = [call[c] EXCEPT !.pc = pc]
         /\ call'[c].pc = pc /\ call'[c].batch = call[c].batch /\ call'[c].idx = call[c].idx
         /\ call'[c].data = call[c].data /\ call'[c].result = call[c].result
         /\ call'[c].tally = call[c].tally /\ call'[c].failures = call[c].failures
         /\ \A d \in Callers : d # c => call'[d] = call[d]
<1>1. call[c] \in Call
  OBVIOUS
<1>2. call' = [call EXCEPT ![c] = [call[c] EXCEPT !.pc = pc]]
  BY <1>1 DEF Goto
<1>3. [call[c] EXCEPT !.pc = pc] \in Call
  BY <1>1 DEF Call, PCs
<1> QED BY <1>1, <1>2, <1>3 DEF Call

LEMMA GotoWithKeeps ==
  ASSUME call \in [Callers -> Call], NEW c \in Callers, NEW pc \in PCs,
         NEW v \in Values, GotoWith(c, pc, v)
  PROVE  /\ call' \in [Callers -> Call]
         /\ call'[c].pc = pc /\ call'[c].batch = call[c].batch /\ call'[c].idx = call[c].idx
         /\ call'[c].data = v /\ call'[c].result = call[c].result
         /\ call'[c].tally = call[c].tally /\ call'[c].failures = call[c].failures
         /\ \A d \in Callers : d # c => call'[d] = call[d]
<1>1. call[c] \in Call
  OBVIOUS
<1>2. call' = [call EXCEPT ![c] = [call[c] EXCEPT !.pc = pc, !.data = v]]
  BY <1>1 DEF GotoWith
<1>3. [call[c] EXCEPT !.pc = pc, !.data = v] \in Call
  BY <1>1 DEF Call, PCs
<1> QED BY <1>1, <1>2, <1>3 DEF Call

(* Going to a phase that needs nothing new keeps the invariant.            *)
LEMMA GotoStep ==
  ASSUME IInv, NEW c \in Callers, NEW pc \in PCs, Goto(c, pc), call[c].pc # "idle", pc # "idle",
         pc \in AtRecord => call[c].idx \in DOMAIN call[c].batch,
         pc \notin {"store", "merge"},
         UNCHANGED <<items, now, answer, config, heap, usedAt>>,
         cancelled' \subseteq Callers, troubles' \in 0 .. MaxTroubles
  PROVE  IInv'
<1>1. call \in [Callers -> Call]
  BY DEF IInv, TypeOK
<1>2. TypeOK'
  BY <1>1, GotoKeeps DEF IInv, TypeOK, CacheType, config
<1>2a. /\ call'[c].pc = pc /\ call'[c].batch = call[c].batch /\ call'[c].idx = call[c].idx
       /\ call'[c].data = call[c].data /\ call'[c].result = call[c].result
       /\ call'[c].tally = call[c].tally
       /\ \A d \in Callers : d # c => call'[d] = call[d]
  BY <1>1, GotoKeeps
<1>3. Phases' /\ BatchBound'
  BY <1>2a DEF IInv, Phases, BatchBound
<1>4. Holders'
  <2>1. \A k \in DOMAIN items' : IsResponse(items[k].value)' /\ heap'[items'[k].value].of = k
    BY DEF IInv, Holders, IsResponse
  <2>2. ASSUME NEW d \in Callers, call'[d].pc \in {"store", "merge"}
        PROVE  IsResponse(call[d].data)' /\ heap'[call'[d].data].of = Key(d)'
    BY <1>2a, <2>2 DEF IInv, Holders, IsResponse, Key
  <2>3. ASSUME NEW d \in Callers PROVE call'[d].result = call[d].result
    BY <1>2a
  <2> QED BY <2>1, <2>2, <2>3 DEF IInv, Holders
<1>5. Objects'
  <2>1. \A d \in Callers : call'[d].batch = call[d].batch
    BY <1>1, GotoKeeps
  <2>2. \A v \in DOMAIN heap : v[1] \in Callers
    BY CallersAssumption DEF IInv, TypeOK
  <2> QED BY <2>1, <2>2 DEF IInv, Objects
<1> QED BY <1>2, <1>3, <1>4, <1>5 DEF IInv

(* What the calls of the cache leave of its entries.                       *)
LEMMA GetKeepsValues ==
  ASSUME CacheType, NEW k \in Keys, Get(k)
  PROVE  \A x \in DOMAIN items' : x \in DOMAIN items /\ items'[x].value = items[x].value
  BY DEF Get, Without, CacheType, Entry

LEMMA SetKeepsValues ==
  ASSUME CacheType, NEW k \in Keys, NEW v \in Values, Set(k, v)
  PROVE  \A x \in DOMAIN items' : \/ x = k /\ items'[x].value = v
                                  \/ x # k /\ x \in DOMAIN items /\ items'[x] = items[x]
<1>1. PICK gone : items' = [x \in (DOMAIN items \ gone) \cup {k} |->
                              IF x = k THEN [value |-> v, expiresAt |-> now + TTL, lastUsed |-> now]
                                       ELSE items[x]]
  BY DEF Set
<1> QED BY <1>1

LEMMA UsedType ==
  ASSUME NEW k, now \in Nat, usedAt \in [DOMAIN items -> Nat], Used(k),
         \A x \in DOMAIN items' : x \in DOMAIN items \cup {k}
  PROVE  usedAt' \in [DOMAIN items' -> Nat]
  BY DEF Used

(* A record at hand has a key. *)
LEMMA KeyType ==
  ASSUME IInv, NEW c \in Callers, call[c].pc \in AtRecord
  PROVE  Key(c) \in Keys
<1>1. call[c].batch \in Seq(Keys) /\ call[c].idx \in DOMAIN call[c].batch
  BY DEF IInv, TypeOK, Call, Phases
<1> QED BY <1>1 DEF Key

LEMMA AtHand ==
  ASSUME IInv, NEW c \in Callers, call[c].pc \in AtRecord
  PROVE  /\ call[c] \in Call /\ call[c].batch \in Seq(Keys)
         /\ call[c].idx \in 1 .. MaxBatch /\ call[c].idx \in DOMAIN call[c].batch
<1>1. call[c].idx \in DOMAIN call[c].batch
  BY DEF IInv, Phases
<1>2. call[c].batch \in Seq(Keys) /\ call[c] \in Call /\ MaxBatch \in Nat
  BY CallersAssumption DEF Call, IInv, TypeOK
<1>3. call[c].idx \in 1 .. Len(call[c].batch) /\ Len(call[c].batch) \in Nat
  BY <1>1, <1>2
<1>4. call[c].idx \in 1 .. MaxBatch
  BY <1>2, <1>3 DEF IInv, BatchBound
<1> QED BY <1>1, <1>2, <1>4

-----------------------------------------------------------------------------
(* The steps, one by one. *)

LEMMA ProcessStep == ASSUME IInv, NEW c \in Callers, Process(c) PROVE IInv'
<1>0. call \in [Callers -> Call] /\ call[c] \in Call
  BY DEF IInv, TypeOK
<1>1. PICK batch \in Batches[c] : call' = [call EXCEPT ![c].pc = "next", ![c].batch = batch]
  BY DEF Process
<1>2. batch \in Seq(Keys) /\ Len(batch) \in Nat
  BY CallersAssumption
<1>3. call' = [call EXCEPT ![c] = [call[c] EXCEPT !.pc = "next", !.batch = batch]]
  BY <1>0, <1>1
<1>4. [call[c] EXCEPT !.pc = "next", !.batch = batch] \in Call
  BY <1>0, <1>2 DEF Call
<1>5. /\ call' \in [Callers -> Call]
      /\ call'[c].pc = "next" /\ call'[c].batch = batch /\ call'[c].idx = call[c].idx
      /\ call'[c].result = call[c].result /\ call'[c].tally = call[c].tally
      /\ \A d \in Callers : d # c => call'[d] = call[d]
  BY <1>0, <1>3, <1>4 DEF Call
<1>6. call[c].batch = <<>> /\ call[c].idx <= 1
  BY DEF Process, IInv, Phases
<1>7. TypeOK'
  BY <1>5 DEF Process, IInv, TypeOK, CacheType, config
<1>8. Phases' /\ BatchBound'
  <2>1. /\ call'[c].pc \notin AtRecord /\ call'[c].pc # "idle"
        /\ Len(call'[c].result) < call'[c].idx /\ call'[c].tally < call'[c].idx
    BY <1>5 DEF IInv, Phases, AtRecord
  <2>2. call'[c].idx <= Len(call'[c].batch) + 1
    <3>1. call[c].idx \in Int
      BY <1>0, CallersAssumption DEF Call
    <3> QED BY <3>1, <1>2, <1>5, <1>6
  <2>3. ASSUME NEW d \in Callers, d # c PROVE call'[d] = call[d]
    BY <1>5, <2>3
  <2>4. Len(batch) <= MaxBatch
    BY CallersAssumption
  <2> QED BY <1>5, <2>1, <2>2, <2>3, <2>4 DEF IInv, Phases, BatchBound
<1>9. Holders'
  <2>1. ASSUME NEW d \in Callers, call'[d].pc \in {"store", "merge"}
        PROVE  IsResponse(call[d].data)' /\ heap'[call'[d].data].of = Key(d)'
    BY <1>5, <2>1 DEF Process, IInv, Holders, IsResponse, Key
  <2>2. ASSUME NEW d \in Callers PROVE call'[d].result = call[d].result
    BY <1>5
  <2>3. UNCHANGED <<items, heap>>
    BY DEF Process
  <2>4. \A k \in DOMAIN items' : IsResponse(items[k].value)' /\ heap'[items'[k].value].of = k
    BY <2>3 DEF IInv, Holders, IsResponse
  <2> QED BY <2>1, <2>2, <2>3, <2>4 DEF IInv, Holders
<1>10. Objects'
  <2>1. ASSUME NEW v \in DOMAIN heap PROVE v[1] \in Callers /\ v[1] # c
    BY <1>6, CallersAssumption DEF IInv, TypeOK, Objects
  <2> QED BY <2>1, <1>5 DEF Process, IInv, Objects
<1> QED BY <1>7, <1>8, <1>9, <1>10 DEF IInv

LEMMA NextRecordStep == ASSUME IInv, NEW c \in Callers, NextRecord(c) PROVE IInv'
<1>1. /\ call[c].pc = "next" /\ UNCHANGED <<items, now, answer, config, heap, usedAt>>
      /\ cancelled' \subseteq Callers
  BY DEF NextRecord, IInv, TypeOK
<1>2. troubles' \in 0 .. MaxTroubles
  BY CallersAssumption DEF NextRecord, Trouble, IInv, TypeOK
<1>3. call[c].batch \in Seq(Keys) /\ call[c].idx \in Nat \ {0}
  BY DEF IInv, TypeOK, Call
<1>4. CASE Goto(c, "done") \/ Goto(c, "error")
  BY <1>1, <1>2, <1>4, GotoStep DEF PCs, AtRecord
<1>5. CASE ~(call[c].idx > Len(call[c].batch)) /\ (Goto(c, "failed") \/ Goto(c, "lookup") \/ Goto(c, "fetch"))
  <2>1. call[c].idx \in DOMAIN call[c].batch
    BY <1>3, <1>5
  <2> QED BY <1>1, <1>2, <1>5, <2>1, GotoStep DEF PCs, AtRecord
<1> QED BY <1>4, <1>5 DEF NextRecord

LEMMA CancelStep == ASSUME IInv, NEW c \in Callers, Cancel(c) PROVE IInv'
<1>1. TypeOK'
  BY CallersAssumption DEF Cancel, Trouble, IInv, TypeOK, CacheType, config
<1> QED BY <1>1 DEF Cancel, IInv, BatchBound, Phases, Holders, Objects, IsResponse, Key

LEMMA PassTimeStep == ASSUME IInv, PassTime PROVE IInv'
<1>1. TypeOK'
  BY DEF PassTime, Tick, IInv, TypeOK, CacheType, config
<1> QED BY <1>1 DEF PassTime, Tick, IInv, BatchBound, Phases, Holders, Objects, IsResponse, Key

LEMMA LookupStep == ASSUME IInv, NEW c \in Callers, Lookup(c) PROVE IInv'
<1>0. /\ call \in [Callers -> Call] /\ CacheType /\ now \in Nat
      /\ call[c].pc = "lookup" /\ Key(c) \in Keys /\ Get(Key(c))
      /\ UNCHANGED <<now, config, heap, cancelled, troubles>>
  BY KeyType DEF IInv, TypeOK, CacheType, Lookup, Get, AtRecord
<1>1. CacheType' /\ \A x \in DOMAIN items' : x \in DOMAIN items /\ items'[x].value = items[x].value
  BY <1>0, GetType, GetKeepsValues
<1>2. usedAt' \in [DOMAIN items' -> Nat]
  BY <1>0, <1>1, UsedType DEF Lookup, IInv, TypeOK
<1>3. /\ call' \in [Callers -> Call]
      /\ call'[c].batch = call[c].batch /\ call'[c].idx = call[c].idx
      /\ call'[c].result = call[c].result /\ call'[c].tally = call[c].tally
      /\ \A d \in Callers : d # c => call'[d] = call[d]
      /\ \/ call'[c].pc = "fetch"
         \/ Found(Key(c)) /\ call'[c].pc = "merge" /\ call'[c].data = items[Key(c)].value
  <2>1. CASE Found(Key(c))
    <3>1. items[Key(c)].value \in Values
      BY <1>0, <2>1 DEF Found, CacheType, Entry
    <3>2. GotoWith(c, "merge", items[Key(c)].value)
      BY <2>1 DEF Lookup
    <3> QED BY <1>0, <2>1, <3>1, <3>2, GotoWithKeeps DEF PCs
  <2>2. CASE ~Found(Key(c))
    BY <1>0, <2>2, GotoKeeps DEF Lookup, PCs
  <2> QED BY <2>1, <2>2
<1>4. TypeOK'
  BY <1>0, <1>1, <1>2, <1>3 DEF IInv, TypeOK, config
<1>5. Phases' /\ BatchBound'
  BY <1>0, <1>3 DEF IInv, Phases, AtRecord, BatchBound
<1>6. Holders'
  <2>1. ASSUME NEW k \in DOMAIN items' PROVE IsResponse(items[k].value)' /\ heap'[items'[k].value].of = k
    BY <1>0, <1>1 DEF IInv, Holders, IsResponse
  <2>2. ASSUME NEW d \in Callers, call'[d].pc \in {"store", "merge"}
        PROVE  IsResponse(call[d].data)' /\ heap'[call'[d].data].of = Key(d)'
    <3>1. CASE d = c
      BY <1>0, <1>3, <2>2, <3>1 DEF IInv, Holders, IsResponse, Key, Found
    <3>2. CASE d # c
      BY <1>0, <1>3, <2>2, <3>2 DEF IInv, Holders, IsResponse, Key
    <3> QED BY <3>1, <3>2
  <2>3. ASSUME NEW d \in Callers PROVE call'[d].result = call[d].result
    BY <1>3
  <2> QED BY <1>0, <2>1, <2>2, <2>3 DEF IInv, Holders
<1>7. Objects'
  <2>1. \A d \in Callers : call'[d].batch = call[d].batch
    BY <1>3
  <2>2. \A v \in DOMAIN heap : v[1] \in Callers
    BY CallersAssumption DEF IInv, TypeOK
  <2> QED BY <1>0, <2>1, <2>2 DEF IInv, Objects
<1> QED BY <1>4, <1>5, <1>6, <1>7 DEF IInv

LEMMA StoreStep == ASSUME IInv, NEW c \in Callers, Store(c) PROVE IInv'
<1>0. /\ call \in [Callers -> Call] /\ CacheType /\ now \in Nat
      /\ call[c].pc = "store" /\ Key(c) \in Keys
      /\ call[c].data \in Values /\ IsResponse(call[c].data) /\ heap[call[c].data].of = Key(c)
      /\ Set(Key(c), call[c].data)
      /\ UNCHANGED <<now, config, heap, cancelled, troubles>>
  BY KeyType DEF IInv, TypeOK, CacheType, Holders, IsResponse, Store, Set, AtRecord
<1>1. /\ CacheType'
      /\ \A x \in DOMAIN items' : \/ x = Key(c) /\ items'[x].value = call[c].data
                                  \/ x # Key(c) /\ x \in DOMAIN items /\ items'[x] = items[x]
  BY <1>0, SetType, SetKeepsValues
<1>2. usedAt' \in [DOMAIN items' -> Nat]
  BY <1>0, <1>1, UsedType DEF Store, IInv, TypeOK
<1>3. /\ call' \in [Callers -> Call]
      /\ call'[c].batch = call[c].batch /\ call'[c].idx = call[c].idx
      /\ call'[c].result = call[c].result /\ call'[c].tally = call[c].tally
      /\ call'[c].pc = "merge" /\ call'[c].data = call[c].data
      /\ \A d \in Callers : d # c => call'[d] = call[d]
  BY <1>0, GotoKeeps DEF Store, PCs
<1>4. TypeOK'
  BY <1>0, <1>1, <1>2, <1>3 DEF IInv, TypeOK, config
<1>5. Phases' /\ BatchBound'
  BY <1>0, <1>3 DEF IInv, Phases, AtRecord, BatchBound
<1>6. Holders'
  <2>1. ASSUME NEW k \in DOMAIN items' PROVE IsResponse(items[k].value)' /\ heap'[items'[k].value].of = k
    BY <1>0, <1>1 DEF IInv, Holders, IsResponse
  <2>2. ASSUME NEW d \in Callers, call'[d].pc \in {"store", "merge"}
        PROVE  IsResponse(call[d].data)' /\ heap'[call'[d].data].of = Key(d)'
    <3>1. CASE d = c
      BY <1>0, <1>3, <3>1 DEF IsResponse, Key
    <3>2. CASE d # c
      BY <1>0, <1>3, <2>2, <3>2 DEF IInv, Holders, IsResponse, Key
    <3> QED BY <3>1, <3>2
  <2>3. ASSUME NEW d \in Callers PROVE call'[d].result = call[d].result
    BY <1>3
  <2> QED BY <1>0, <2>1, <2>2, <2>3 DEF IInv, Holders
<1>7. Objects'
  <2>1. \A d \in Callers : call'[d].batch = call[d].batch
    BY <1>3
  <2>2. \A v \in DOMAIN heap : v[1] \in Callers
    BY CallersAssumption DEF IInv, TypeOK
  <2> QED BY <1>0, <2>1, <2>2 DEF IInv, Objects
<1> QED BY <1>4, <1>5, <1>6, <1>7 DEF IInv

LEMMA MaintainStep == ASSUME IInv, Maintain PROVE IInv'
<1>1. PICK gone : items' = Without(gone)
  BY DEF Maintain, Clear, CleanExpired, Delete
<1>2. /\ answer' = None /\ UNCHANGED <<now, config, heap, call, cancelled>>
  BY DEF Maintain, Clear, CleanExpired, Delete
<1>3. CacheType'
  BY <1>1, <1>2, WithoutType DEF IInv, TypeOK
<1>4. \A x \in DOMAIN items' : x \in DOMAIN items /\ items'[x] = items[x]
  BY <1>1 DEF Without
<1>5. usedAt' \in [DOMAIN items' -> Nat]
  BY <1>4, UsedType DEF Maintain, IInv, TypeOK, CacheType
<1>6. TypeOK'
  BY <1>2, <1>3, <1>5, CallersAssumption DEF Maintain, Trouble, IInv, TypeOK, config
<1>7. Holders'
  BY <1>2, <1>4 DEF IInv, Holders, IsResponse, Key
<1> QED BY <1>2, <1>6, <1>7 DEF IInv, BatchBound, Phases, Objects

LEMMA DownstreamStep == ASSUME IInv, NEW c \in Callers, Downstream(c) PROVE IInv'
<1> DEFINE found == {e.data : e \in Range(call[c].result)} \ {None}
<1>0. /\ heap' = [v \in DOMAIN heap |-> [heap[v] EXCEPT !.edited = @ \/ v \in found]]
      /\ UNCHANGED <<items, now, answer, config, call, cancelled, usedAt, troubles>>
  BY DEF Downstream
<1>1. \A v \in found : v[3] = "copy"
  BY DEF IInv, Holders, Range
<1>2. \A v \in DOMAIN heap : heap[v] \in Object
  BY DEF IInv, TypeOK
<1>3. DOMAIN heap' = DOMAIN heap
  BY <1>0
<1>3a. ASSUME NEW v \in DOMAIN heap
       PROVE  heap'[v] \in Object /\ heap'[v].of = heap[v].of
  BY <1>0, <1>2 DEF Object
<1>3b. ASSUME NEW v \in DOMAIN heap, heap'[v].edited, ~heap[v].edited
       PROVE  v \in found
  <2> HIDE DEF found
  <2>1. heap'[v] = [heap[v] EXCEPT !.edited = heap[v].edited \/ v \in found]
    BY <1>0
  <2>2. heap'[v].edited = (heap[v].edited \/ v \in found)
    BY <2>1, <1>2 DEF Object
  <2> QED BY <1>3b, <2>2, Zenon
<1>4. TypeOK'
  <2>1. heap' \in [DOMAIN heap' -> Object]
    <3>1. heap' = [v \in DOMAIN heap' |-> heap'[v]]
      BY <1>0
    <3>2. \A v \in DOMAIN heap' : heap'[v] \in Object
      BY <1>3, <1>3a
    <3> QED BY ONLY <3>1, <3>2
  <2> QED BY <1>0, <1>3, <2>1 DEF IInv, TypeOK, CacheType, config
<1>5. Holders'
  BY <1>0, <1>3, <1>3a DEF IInv, Holders, IsResponse, Key
<1>6. Objects'
  <2>1. ASSUME NEW v \in DOMAIN heap, heap'[v].edited PROVE v[3] = "copy"
    <3>1. heap[v].edited \/ v \in found
      BY <1>3b, <2>1, Zenon
    <3>2. heap[v].edited => v[3] = "copy"
      BY Zenon DEF IInv, Objects
    <3> QED BY <1>1, <3>1, <3>2, Zenon
  <2>2. \A v \in DOMAIN heap : /\ v[2] \in DOMAIN call[v[1]].batch
                               /\ heap'[v].of = call[v[1]].batch[v[2]]
    BY <1>3a DEF IInv, Objects
  <2> HIDE DEF found
  <2> QED BY <1>0, <1>3, <2>1, <2>2, Zenon DEF Objects
<1> QED BY <1>0, <1>4, <1>5, <1>6 DEF IInv, BatchBound, Phases

(* An object added to the heap, or made anew for the same record, leaves   *)
(* the holders of the others alone.                                        *)
LEMMA NewObjectType ==
  ASSUME DOMAIN heap \subseteq Values, heap \in [DOMAIN heap -> Object],
         NEW v \in Values, NEW o \in Object,
         heap' = [x \in DOMAIN heap \cup {v} |-> IF x = v THEN o ELSE heap[x]]
  PROVE  /\ DOMAIN heap' = DOMAIN heap \cup {v}
         /\ DOMAIN heap' \subseteq Values /\ heap' \in [DOMAIN heap' -> Object]
         /\ heap'[v] = o
         /\ \A x \in DOMAIN heap : x # v => heap'[x] = heap[x]
  OBVIOUS

LEMMA FetchStep == ASSUME IInv, NEW c \in Callers, Fetch(c) PROVE IInv'
<1>0. /\ call \in [Callers -> Call] /\ call[c] \in Call /\ call[c].pc = "fetch" /\ Key(c) \in Keys
      /\ call[c].batch \in Seq(Keys) /\ call[c].idx \in 1 .. MaxBatch /\ call[c].idx \in DOMAIN call[c].batch
      /\ UNCHANGED <<items, now, answer, config, cancelled, usedAt>>
  BY AtHand, KeyType DEF IInv, TypeOK, Fetch, AtRecord
<1>1. troubles' \in 0 .. MaxTroubles
  BY CallersAssumption DEF Fetch, Trouble, IInv, TypeOK
<1>2. CASE Goto(c, "failed") /\ UNCHANGED heap
  BY <1>0, <1>1, <1>2, GotoStep DEF PCs, AtRecord, IInv, TypeOK
<1>3. CASE ~(Goto(c, "failed") /\ UNCHANGED heap)
  <2> DEFINE v == Response(c, call[c].idx)
  <2>1. PICK fits \in BOOLEAN :
          heap' = [x \in DOMAIN heap \cup {v} |->
                     IF x = v THEN [of |-> Key(c), fits |-> fits, edited |-> FALSE] ELSE heap[x]]
    BY <1>3 DEF Fetch
  <2>2. v \in Values
    BY <1>0, CallersAssumption
  <2>3. PICK pc \in {"store", "merge"} : GotoWith(c, pc, v)
    BY <1>3 DEF Fetch
  <2> DEFINE o == [of |-> Key(c), fits |-> fits, edited |-> FALSE]
  <2>4. o \in Object
    BY <1>0 DEF Object
  <2>5. v[1] = c /\ v[2] = call[c].idx /\ v[3] = "response"
    OBVIOUS
  <2>6. o.of = Key(c) /\ o.edited = FALSE
    OBVIOUS
  <2> HIDE DEF v, o
  <2>7. /\ DOMAIN heap' = DOMAIN heap \cup {v}
        /\ DOMAIN heap' \subseteq Values /\ heap' \in [DOMAIN heap' -> Object]
        /\ heap'[v] = o
        /\ \A x \in DOMAIN heap : x # v => heap'[x] = heap[x]
    BY <2>1, <2>2, <2>4, NewObjectType DEF IInv, TypeOK, o
  <2>8. /\ call' \in [Callers -> Call]
        /\ call'[c].batch = call[c].batch /\ call'[c].idx = call[c].idx
        /\ call'[c].result = call[c].result /\ call'[c].tally = call[c].tally
        /\ call'[c].pc = pc /\ call'[c].data = v
        /\ \A d \in Callers : d # c => call'[d] = call[d]
    BY <1>0, <2>2, <2>3, GotoWithKeeps DEF PCs
  <2>9. \A x \in DOMAIN heap : x \in DOMAIN heap' /\ heap'[x].of = heap[x].of
    <3>1. v \in DOMAIN heap => heap[v].of = Key(c)
      BY <2>5 DEF IInv, Objects, Key
    <3> QED BY <2>6, <2>7, <3>1
  <2>10. TypeOK'
    BY <1>0, <1>1, <2>7, <2>8 DEF IInv, TypeOK, CacheType, config
  <2>11. Phases' /\ BatchBound'
    BY <1>0, <2>3, <2>8 DEF IInv, Phases, AtRecord, BatchBound
  <2>12. Holders'
    <3>1. ASSUME NEW k \in DOMAIN items' PROVE IsResponse(items[k].value)' /\ heap'[items'[k].value].of = k
      BY <1>0, <2>9 DEF IInv, Holders, IsResponse
    <3>2. ASSUME NEW d \in Callers, call'[d].pc \in {"store", "merge"}
          PROVE  IsResponse(call[d].data)' /\ heap'[call'[d].data].of = Key(d)'
      <4>1. CASE d = c
        BY <2>5, <2>6, <2>7, <2>8, <4>1 DEF IsResponse, Key
      <4>2. CASE d # c
        BY <2>8, <2>9, <3>2, <4>2 DEF IInv, Holders, IsResponse, Key
      <4> QED BY <4>1, <4>2
    <3>3. ASSUME NEW d \in Callers PROVE call'[d].result = call[d].result
      BY <2>8
    <3> QED BY <2>9, <3>1, <3>2, <3>3 DEF IInv, Holders
  <2>13. Objects'
    <3>1. \A d \in Callers : call'[d].batch = call[d].batch
      BY <2>8
    <3>2. \A x \in DOMAIN heap' : x[1] \in Callers
      BY <2>7, CallersAssumption
    <3>3. ASSUME NEW x \in DOMAIN heap', heap'[x].edited PROVE x[3] = "copy"
      <4>1. x # v
        BY <2>6, <2>7, <3>3
      <4> QED BY <2>7, <3>3, <4>1 DEF IInv, Objects
    <3>4. ASSUME NEW x \in DOMAIN heap'
          PROVE  x[2] \in DOMAIN call[x[1]].batch /\ heap'[x].of = call[x[1]].batch[x[2]]
      <4>1. CASE x = v
        BY <1>0, <2>5, <2>6, <2>7, <4>1 DEF Key
      <4>2. CASE x # v
        BY <2>7, <4>2 DEF IInv, Objects
      <4> QED BY <4>1, <4>2
    <3> QED BY <3>1, <3>2, <3>3, <3>4 DEF Objects
  <2> QED BY <2>10, <2>11, <2>12, <2>13 DEF IInv
<1> QED BY <1>2, <1>3

LEMMA MergeStep == ASSUME IInv, NEW c \in Callers, Merge(c) PROVE IInv'
<1>0. /\ call \in [Callers -> Call] /\ call[c] \in Call /\ call[c].pc = "merge" /\ Key(c) \in Keys
      /\ call[c].batch \in Seq(Keys) /\ call[c].idx \in 1 .. MaxBatch /\ call[c].idx \in DOMAIN call[c].batch
      /\ IsResponse(call[c].data) /\ heap[call[c].data].of = Key(c)
      /\ UNCHANGED <<items, now, answer, config, cancelled, usedAt, troubles>>
  BY AtHand, KeyType DEF IInv, TypeOK, Holders, Merge, AtRecord
<1> DEFINE from == call[c].data
           to   == Cloned(c)
<1>1. CASE ~heap[from].fits
  <2>1. Goto(c, "failed") /\ UNCHANGED heap
    BY <1>1 DEF Merge
  <2> QED BY <1>0, <2>1, GotoStep DEF PCs, AtRecord, IInv, TypeOK
<1>2. CASE heap[from].fits
  <2>1. /\ heap' = [x \in DOMAIN heap \cup {to} |-> IF x = to THEN heap[from] ELSE heap[x]]
        /\ call' = [call EXCEPT ![c].pc = "next", ![c].idx = @ + 1, ![c].data = None,
                                ![c].result = Append(@, Enriched(call[c].idx, to))]
    BY <1>2 DEF Merge
  <2>2. to \in Values /\ to[1] = c /\ to[2] = call[c].idx /\ to[3] = "copy"
    BY <1>0, CallersAssumption DEF Cloned
  <2> DEFINE o == heap[from]
  <2>3. o \in Object /\ o.of = Key(c)
    BY <1>0 DEF IInv, TypeOK, IsResponse
  <2> DEFINE e == Enriched(call[c].idx, to)
             r == Append(call[c].result, e)
             new == [call[c] EXCEPT !.pc = "next", !.idx = @ + 1, !.data = None, !.result = r]
  <2>4. e \in [record : 1 .. MaxBatch, data : Values \cup {None}] /\ e.data = to
    BY <1>0, <2>2 DEF Enriched
  <2> HIDE DEF from, to, o
  <2>5. /\ DOMAIN heap' = DOMAIN heap \cup {to}
        /\ DOMAIN heap' \subseteq Values /\ heap' \in [DOMAIN heap' -> Object]
        /\ heap'[to] = o
        /\ \A x \in DOMAIN heap : x # to => heap'[x] = heap[x]
    BY <2>1, <2>2, <2>3, NewObjectType DEF IInv, TypeOK, o
  <2> HIDE DEF e
  <2>6. /\ r \in Seq([record : 1 .. MaxBatch, data : Values \cup {None}])
        /\ Len(r) = Len(call[c].result) + 1 /\ Len(call[c].result) \in Nat
        /\ \A i \in DOMAIN r : \/ i \in DOMAIN call[c].result /\ r[i] = call[c].result[i]
                               \/ r[i] = e
    BY <1>0, <2>4 DEF Call
  <2> HIDE DEF r
  <2>7. new \in Call
    <3>1. call[c].idx + 1 \in 1 .. MaxBatch + 1
      BY <1>0, CallersAssumption
    <3> QED BY <1>0, <2>6, <3>1 DEF Call
  <2>8. call' = [call EXCEPT ![c] = new]
    BY <1>0, <2>1 DEF r, e
  <2>9. /\ call' \in [Callers -> Call]
        /\ call'[c].batch = call[c].batch /\ call'[c].idx = call[c].idx + 1
        /\ call'[c].result = r /\ call'[c].tally = call[c].tally /\ call'[c].pc = "next"
        /\ \A d \in Callers : d # c => call'[d] = call[d]
    BY <1>0, <2>7, <2>8 DEF Call
  <2>10. \A x \in DOMAIN heap : x \in DOMAIN heap' /\ heap'[x].of = heap[x].of
    <3>1. to \in DOMAIN heap => heap[to].of = Key(c)
      BY <2>2 DEF IInv, Objects, Key
    <3> QED BY <2>3, <2>5, <3>1
  <2>11. TypeOK'
    BY <1>0, <2>5, <2>9 DEF IInv, TypeOK, CacheType, config
  <2>12. Phases' /\ BatchBound'
    <3>1. /\ call'[c].pc \notin AtRecord /\ call'[c].pc # "idle"
          /\ Len(call'[c].result) < call'[c].idx /\ call'[c].tally < call'[c].idx
          /\ call'[c].idx <= Len(call'[c].batch) + 1
      BY <1>0, <2>6, <2>9 DEF IInv, Phases, AtRecord, Call
    <3>2. \A d \in Callers : d # c => call'[d] = call[d]
      BY <2>9
    <3> QED BY <2>9, <3>1, <3>2 DEF IInv, Phases, BatchBound
  <2>13. Holders'
    <3>1. ASSUME NEW k \in DOMAIN items' PROVE IsResponse(items[k].value)' /\ heap'[items'[k].value].of = k
      BY <1>0, <2>10 DEF IInv, Holders, IsResponse
    <3>2. ASSUME NEW d \in Callers, call'[d].pc \in {"store", "merge"}
          PROVE  IsResponse(call[d].data)' /\ heap'[call'[d].data].of = Key(d)'
      <4>1. d # c
        BY <2>9, <3>2
      <4> QED BY <2>9, <2>10, <3>2, <4>1 DEF IInv, Holders, IsResponse, Key
    <3>3. ASSUME NEW d \in Callers, NEW i \in DOMAIN call'[d].result, call'[d].result[i].data # None
          PROVE  call'[d].result[i].data \in DOMAIN heap' /\ call'[d].result[i].data[3] = "copy"
      <4>1. CASE d = c
        <5>1. i \in DOMAIN r /\ r[i].data # None
          BY <2>9, <3>3, <4>1
        <5>2. CASE r[i] = e
          BY <2>2, <2>4, <2>5, <2>9, <4>1, <5>2
        <5>3. CASE i \in DOMAIN call[c].result /\ r[i] = call[c].result[i]
          BY <2>9, <2>10, <4>1, <5>1, <5>3 DEF IInv, Holders
        <5> QED BY <2>6, <5>1, <5>2, <5>3
      <4>2. CASE d # c
        BY <2>9, <2>10, <3>3, <4>2 DEF IInv, Holders
      <4> QED BY <4>1, <4>2
    <3> QED BY <3>1, <3>2, <3>3 DEF Holders
  <2>14. Objects'
    <3>1. \A d \in Callers : call'[d].batch = call[d].batch
      BY <2>9
    <3>2. \A x \in DOMAIN heap' : x[1] \in Callers
      BY <2>5, CallersAssumption
    <3>3. ASSUME NEW x \in DOMAIN heap', heap'[x].edited PROVE x[3] = "copy"
      BY <2>2, <2>5, <3>3 DEF IInv, Objects
    <3>4. ASSUME NEW x \in DOMAIN heap'
          PROVE  x[2] \in DOMAIN call[x[1]].batch /\ heap'[x].of = call[x[1]].batch[x[2]]
      <4>1. CASE x = to
        BY <1>0, <2>2, <2>3, <2>5, <4>1 DEF Key
      <4>2. CASE x # to
        BY <2>5, <4>2 DEF IInv, Objects
      <4> QED BY <4>1, <4>2
    <3> QED BY <3>1, <3>2, <3>3, <3>4 DEF Objects
  <2> QED BY <2>11, <2>12, <2>13, <2>14 DEF IInv
<1> QED BY <1>1, <1>2

LEMMA RecordErrorStep == ASSUME IInv, NEW c \in Callers, RecordError(c) PROVE IInv'
<1>0. /\ call \in [Callers -> Call] /\ call[c] \in Call /\ call[c].pc = "failed"
      /\ call[c].idx \in 1 .. MaxBatch /\ call[c].idx \in DOMAIN call[c].batch
      /\ call[c].batch \in Seq(Keys) /\ MaxBatch \in Nat
      /\ UNCHANGED <<items, now, answer, config, heap, cancelled, usedAt, troubles>>
  BY AtHand, CallersAssumption DEF IInv, TypeOK, RecordError, AtRecord
<1> DEFINE r == IF onError = "log" THEN Append(call[c].result, Marked(call[c].idx)) ELSE call[c].result
           n == IF onError = "log" THEN call[c].tally + 1 ELSE call[c].tally
           i0 == IF onError = "fail" THEN call[c].idx ELSE call[c].idx + 1
           pc == IF onError = "fail" THEN "error" ELSE "next"
           new == [call[c] EXCEPT !.pc = pc, !.idx = i0, !.data = None, !.result = r, !.tally = n,
                                  !.failures = call[c].failures \cup {call[c].idx}]
<1>1. /\ r \in Seq([record : 1 .. MaxBatch, data : Values \cup {None}])
      /\ Len(r) <= Len(call[c].result) + 1 /\ Len(call[c].result) \in Nat /\ Len(r) \in Nat
      /\ onError # "log" => r = call[c].result
      /\ \A i \in DOMAIN r : r[i].data # None => i \in DOMAIN call[c].result /\ r[i] = call[c].result[i]
  <2>1. Marked(call[c].idx) \in [record : 1 .. MaxBatch, data : Values \cup {None}]
        /\ Marked(call[c].idx).data = None
    BY <1>0 DEF Marked
  <2>2. call[c].result \in Seq([record : 1 .. MaxBatch, data : Values \cup {None}])
    BY <1>0 DEF Call
  <2>3. CASE onError = "log"
    <3> DEFINE m == Marked(call[c].idx)
    <3>1. r = Append(call[c].result, m)
      BY <2>3
    <3> HIDE DEF m, r
    <3>2. m \in [record : 1 .. MaxBatch, data : Values \cup {None}] /\ m.data = None
      BY <2>1 DEF m
    <3>3. /\ r \in Seq([record : 1 .. MaxBatch, data : Values \cup {None}])
          /\ Len(r) = Len(call[c].result) + 1 /\ Len(call[c].result) \in Nat
          /\ \A i \in DOMAIN r : (i \in DOMAIN call[c].result /\ r[i] = call[c].result[i]) \/ r[i] = m
      BY <2>2, <3>1, <3>2
    <3> QED BY <2>3, <3>2, <3>3
  <2>4. CASE onError # "log"
    BY <2>2, <2>4
  <2> QED BY <2>3, <2>4
<1>2. /\ n \in 0 .. MaxBatch /\ n <= call[c].tally + 1 /\ (onError # "log" => n = call[c].tally)
      /\ call[c].tally \in Nat
  BY <1>0 DEF IInv, Phases, Call
<1>3. i0 \in 1 .. MaxBatch + 1 /\ (onError # "fail" => i0 = call[c].idx + 1)
      /\ (onError = "fail" => i0 = call[c].idx)
  BY <1>0
<1>4. pc \in {"error", "next"}
  OBVIOUS
<1>5. call' = [call EXCEPT ![c] = new]
  BY <1>0 DEF RecordError
<1> HIDE DEF r, n, i0, pc
<1>6. new \in Call
  BY <1>0, <1>1, <1>2, <1>3, <1>4 DEF Call
<1>7. /\ call' \in [Callers -> Call]
      /\ call'[c].batch = call[c].batch /\ call'[c].idx = i0 /\ call'[c].pc = pc
      /\ call'[c].result = r /\ call'[c].tally = n
      /\ \A d \in Callers : d # c => call'[d] = call[d]
  BY <1>0, <1>5, <1>6 DEF Call
<1>8. TypeOK'
  BY <1>0, <1>7 DEF IInv, TypeOK, CacheType, config
<1>9. Phases' /\ BatchBound'
  <2>1. call'[c].pc \notin AtRecord /\ call'[c].pc # "idle"
    BY <1>4, <1>7 DEF AtRecord
  <2>2. Len(call[c].result) < call[c].idx /\ call[c].tally < call[c].idx
    BY DEF IInv, Phases
  <2>3. Len(r) < i0 /\ n < i0
    <3>1. CASE onError = "fail"
      BY <1>1, <1>2, <1>3, <2>2, <3>1
    <3>2. CASE onError # "fail"
      BY <1>0, <1>1, <1>2, <1>3, <2>2, <3>2
    <3> QED BY <3>1, <3>2
  <2>4. i0 <= Len(call[c].batch) + 1
    BY <1>0, <1>3
  <2> QED BY <1>7, <2>1, <2>3, <2>4 DEF IInv, Phases, BatchBound
<1>10. Holders'
  <2>1. ASSUME NEW k \in DOMAIN items' PROVE IsResponse(items[k].value)' /\ heap'[items'[k].value].of = k
    BY <1>0 DEF IInv, Holders, IsResponse
  <2>2. ASSUME NEW d \in Callers, call'[d].pc \in {"store", "merge"}
        PROVE  IsResponse(call[d].data)' /\ heap'[call'[d].data].of = Key(d)'
    <3>1. d # c
      BY <1>4, <1>7, <2>2
    <3> QED BY <1>0, <1>7, <2>2, <3>1 DEF IInv, Holders, IsResponse, Key
  <2>3. ASSUME NEW d \in Callers, NEW i \in DOMAIN call'[d].result, call'[d].result[i].data # None
        PROVE  call'[d].result[i].data \in DOMAIN heap' /\ call'[d].result[i].data[3] = "copy"
    <3>1. CASE d = c
      BY <1>0, <1>1, <1>7, <2>3, <3>1, SMTT(30) DEF IInv, Holders
    <3>2. CASE d # c
      BY <1>0, <1>7, <2>3, <3>2 DEF IInv, Holders
    <3> QED BY <3>1, <3>2
  <2> QED BY <2>1, <2>2, <2>3 DEF Holders
<1>11. Objects'
  <2>1. \A d \in Callers : call'[d].batch = call[d].batch
    BY <1>7
  <2>2. \A v \in DOMAIN heap : v[1] \in Callers
    BY CallersAssumption DEF IInv, TypeOK
  <2> QED BY <1>0, <2>1, <2>2 DEF IInv, Objects
<1> QED BY <1>8, <1>9, <1>10, <1>11 DEF IInv

LEMMA IInvStep == IInv /\ [Next]_vars => IInv'
<1> SUFFICES ASSUME IInv, [Next]_vars PROVE IInv'
  OBVIOUS
<1>1. ASSUME NEW c \in Callers, Step(c) PROVE IInv'
  BY <1>1, NextRecordStep, LookupStep, FetchStep, StoreStep, MergeStep, RecordErrorStep DEF Step
<1>2. ASSUME NEW c \in Callers, Process(c) \/ Downstream(c) \/ Cancel(c) PROVE IInv'
  BY <1>2, ProcessStep, DownstreamStep, CancelStep
<1>3. CASE Maintain
  BY <1>3, MaintainStep
<1>4. CASE PassTime
  BY <1>4, PassTimeStep
<1>5. CASE UNCHANGED vars
  <2>1. TypeOK'
    BY <1>5 DEF vars, IInv, TypeOK, CacheType
  <2> QED BY <1>5, <2>1 DEF vars, IInv, BatchBound, Phases, Holders, Objects, IsResponse, Key
<1> QED BY <1>1, <1>2, <1>3, <1>4, <1>5 DEF Next

THEOREM Invariance == Spec => []IInv
  BY InitIInv, IInvStep, PTL DEF Spec

(***************************************************************************)
(* Type correctness of the filters: in particular no index leaves the      *)
(* batch, and only decoded responses enter the cache (http_call.go:533).   *)
(***************************************************************************)
THEOREM CallFilterType == Spec => []TypeOK
  BY Invariance, PTL DEF IInv

(***************************************************************************)
(* Every entry of the memo is an unedited response to the very call it is  *)
(* filed under, for any number of requests that share the filter and       *)
(* whatever later filters do to the records (call_merge.go:111-116).       *)
(***************************************************************************)
THEOREM MemoHoldsWhatWasFetched == Spec => []CachedAsFetched
<1>1. IInv => CachedAsFetched
  BY DEF IInv, Holders, Objects, IsResponse, CachedAsFetched
<1> QED BY <1>1, Invariance, PTL

(***************************************************************************)
(* The filters use the cache through its methods only, so that whatever    *)
(* holds of the cache holds of the memo they share.                        *)
(***************************************************************************)
THEOREM FiltersUseTheCache == Spec => CacheSpec
<1>1. Init => CacheInit
  BY DEF Init
<1>2. IInv /\ [Next]_vars => [CacheNext]_cacheVars
  <2> SUFFICES ASSUME IInv, [Next]_vars PROVE [CacheNext]_cacheVars
    OBVIOUS
  <2>1. ASSUME NEW c \in Callers, Lookup(c) PROVE CacheNext
    <3>1. Key(c) \in Keys
      BY <2>1, KeyType DEF Lookup, AtRecord
    <3> QED BY <2>1, <3>1 DEF Lookup, CacheNext
  <2>2. ASSUME NEW c \in Callers, Store(c) PROVE CacheNext
    <3>1. Key(c) \in Keys
      BY <2>2, KeyType DEF Store, AtRecord
    <3>2. call[c].data \in Values
      BY <2>2 DEF Store, IInv, Holders, IsResponse, TypeOK
    <3> QED BY <2>2, <3>1, <3>2 DEF Store, CacheNext
  <2>3. CASE Maintain
    BY <2>3 DEF Maintain, CacheNext
  <2>4. CASE PassTime
    BY <2>4, SMTT(30) DEF PassTime, CacheNext
  <2>5. ASSUME NEW c \in Callers, Process(c) \/ NextRecord(c) \/ Fetch(c) \/ Merge(c)
                                 \/ RecordError(c) \/ Downstream(c) \/ Cancel(c)
        PROVE  UNCHANGED cacheVars
    BY <2>5 DEF Process, NextRecord, Fetch, Merge, RecordError, Downstream, Cancel, cacheVars
  <2>6. CASE UNCHANGED vars
    BY <2>6 DEF vars, cacheVars
  <2> QED BY <2>1, <2>2, <2>3, <2>4, <2>5, <2>6 DEF Next, Step
<1> QED BY <1>1, <1>2, Invariance, PTL DEF Spec, CacheSpec

(***************************************************************************)
(* The memo that concurrent enrichments share is a lossy map: no lookup is *)
(* answered past the deadline of the entry, with another key's response or *)
(* with one that was never stored (lru.go:84-211, http_call.go:514-545).   *)
(***************************************************************************)
THEOREM SharedMemoIsALossyMap == Spec => ImplementsLossyMap
  BY FiltersUseTheCache, MemoIsALossyMap

(***************************************************************************)
(* The shared memo outgrows maxSize only through the empty key             *)
(* (lru.go:188).                                                           *)
(***************************************************************************)
THEOREM SharedMemoGrowsOnlyForEmptyKey == Spec => GrowsPastLimitOnlyForEmptyKey
  BY FiltersUseTheCache, MemoGrowsOnlyForEmptyKey

-----------------------------------------------------------------------------
(* Which entry goes.  The cache's own record of the last use is what the   *)
(* callers have seen of it.                                                *)

UsesAreKnown == \A k \in DOMAIN items : usedAt[k] = items[k].lastUsed

LEMMA UsesStep == IInv /\ UsesAreKnown /\ [Next]_vars => UsesAreKnown'
<1> SUFFICES ASSUME IInv, UsesAreKnown, [Next]_vars PROVE UsesAreKnown'
  OBVIOUS
<1>1. ASSUME NEW c \in Callers, Lookup(c) PROVE UsesAreKnown'
  <2>1. CacheType /\ Get(Key(c)) /\ Used(Key(c))
    BY <1>1 DEF IInv, TypeOK, Lookup
  <2>2. ASSUME NEW k \in DOMAIN items'
        PROVE  k \in DOMAIN items /\ items'[k].lastUsed = IF k = Key(c) THEN now ELSE items[k].lastUsed
    BY <2>1, <2>2 DEF Get, Without, Found, CacheType, Entry
  <2> QED BY <2>1, <2>2 DEF Used, UsesAreKnown
<1>2. ASSUME NEW c \in Callers, Store(c) PROVE UsesAreKnown'
  <2>1. Set(Key(c), call[c].data) /\ Used(Key(c))
    BY <1>2 DEF Store
  <2>2. PICK gone : items' = [x \in (DOMAIN items \ gone) \cup {Key(c)} |->
                       IF x = Key(c) THEN [value |-> call[c].data, expiresAt |-> now + TTL, lastUsed |-> now]
                                     ELSE items[x]]
    BY <2>1 DEF Set
  <2>3. ASSUME NEW k \in DOMAIN items'
        PROVE  IF k = Key(c) THEN items'[k].lastUsed = now
                             ELSE k \in DOMAIN items /\ items'[k] = items[k]
    BY <2>2, <2>3
  <2> QED BY <2>1, <2>3 DEF Used, UsesAreKnown
<1>3. CASE Maintain
  <2>1. PICK gone : items' = Without(gone)
    BY <1>3 DEF Maintain, Clear, CleanExpired, Delete
  <2>2. \A k \in DOMAIN items' : k \in DOMAIN items /\ items'[k] = items[k] /\ k # None
    BY <2>1, CacheAssumption DEF Without, IInv, TypeOK, CacheType
  <2>3. Used(None)
    BY <1>3 DEF Maintain
  <2> QED BY <2>2, <2>3 DEF Used, UsesAreKnown
<1>4. ASSUME NEW c \in Callers, Process(c) \/ NextRecord(c) \/ Fetch(c) \/ Merge(c)
                               \/ RecordError(c) \/ Downstream(c) \/ Cancel(c)
      PROVE  UsesAreKnown'
  BY <1>4 DEF Process, NextRecord, Fetch, Merge, RecordError, Downstream, Cancel, UsesAreKnown
<1>5. CASE PassTime \/ UNCHANGED vars
  BY <1>5 DEF PassTime, Tick, vars, UsesAreKnown
<1> QED BY <1>1, <1>2, <1>3, <1>4, <1>5 DEF Next, Step

(* Only Store takes a call past "store".                                   *)
LEMMA StoreOnly ==
  ASSUME IInv, [Next]_vars, NEW c \in Callers, call[c].pc = "store", call'[c].pc # "store"
  PROVE  Store(c)
<1>1. call \in [Callers -> Call]
  BY DEF IInv, TypeOK
<1>2. ASSUME NEW d \in Callers, d # c, Step(d) \/ Process(d) PROVE call'[c] = call[c]
  BY <1>1, <1>2 DEF Step, NextRecord, Lookup, Fetch, Store, Merge, RecordError, Process, Goto, GotoWith
<1>3. ASSUME Step(c) \/ Process(c) PROVE Store(c)
  BY <1>3 DEF Step, NextRecord, Lookup, Fetch, Merge, RecordError, Process
<1>4. ASSUME Maintain \/ PassTime \/ UNCHANGED vars \/ \E d \in Callers : Downstream(d) \/ Cancel(d)
      PROVE  UNCHANGED call
  BY <1>4 DEF Maintain, PassTime, vars, Downstream, Cancel
<1> QED BY <1>2, <1>3, <1>4 DEF Next

LEMMA StoreEvictsOldest ==
  ASSUME IInv, UsesAreKnown, NEW c \in Callers, Store(c),
         NEW old \in DOMAIN items \ DOMAIN items', NEW stays \in DOMAIN items \cap DOMAIN items'
  PROVE  usedAt[old] <= usedAt[stays]
<1>1. PICK gone \in IF Cardinality(DOMAIN items) >= MaxSize /\ Key(c) \notin DOMAIN items
                     THEN Victims ELSE {{}} :
         items' = [x \in (DOMAIN items \ gone) \cup {Key(c)} |->
                    IF x = Key(c) THEN [value |-> call[c].data, expiresAt |-> now + TTL, lastUsed |-> now]
                                  ELSE items[x]]
  BY DEF Store, Set
<1>2. old \in gone
  BY <1>1
<1>3. gone \in Victims
  BY <1>1, <1>2
<1>4. old \in Oldest
  BY <1>2, <1>3, VictimsAreOldest
<1> QED BY <1>4 DEF Oldest, UsesAreKnown

(***************************************************************************)
(* What a new response costs the shared memo is the entry that no caller   *)
(* was served or stored for longest, and a full memo grows only through    *)
(* the empty key (lru.go:104-192).                                         *)
(***************************************************************************)
THEOREM SharedMemoMakesRoom == Spec => MemoMakesRoom
<1>1. Init => UsesAreKnown
  BY DEF Init, CacheInit, UsesAreKnown
<1>2. Spec => []UsesAreKnown
  BY <1>1, UsesStep, Invariance, PTL DEF Spec
<1>3. ASSUME IInv, UsesAreKnown, [Next]_vars
      PROVE  \A c \in Callers : call[c].pc = "store" /\ call'[c].pc # "store" =>
                \A gone \in DOMAIN items \ DOMAIN items', stays \in DOMAIN items \cap DOMAIN items' :
                   usedAt[gone] <= usedAt[stays]
  BY <1>3, StoreOnly, StoreEvictsOldest
<1>4. Spec => EvictsLeastRecentlyUsed
  BY <1>2, <1>3, Invariance, PTL DEF Spec, EvictsLeastRecentlyUsed
<1> QED BY <1>4, SharedMemoGrowsOnlyForEmptyKey DEF MemoMakesRoom

-----------------------------------------------------------------------------
(* What Process has made of the records before the one at hand. *)

Shown(c) == {i \in DOMAIN call[c].result : call[c].result[i].data = None}

Ledger(c) ==
  LET out == call[c].result IN
  /\ \A i, j \in DOMAIN out : i < j => out[i].record < out[j].record
  /\ \A i \in DOMAIN out : out[i].record \in 1 .. call[c].idx - 1
  /\ \A n \in 1 .. call[c].idx - 1 :
        (\E i \in DOMAIN out : out[i].record = n) <=> ~(onError = "skip" /\ n \in call[c].failures)
  /\ \A i \in DOMAIN out : /\ out[i].data = None <=> onError = "log" /\ out[i].record \in call[c].failures
                           /\ out[i].data # None => out[i].data = Copy(c, out[i].record)
  /\ call[c].tally = Cardinality(Shown(c))
  /\ onError # "fail" => call[c].failures \subseteq 1 .. call[c].idx - 1
  /\ call[c].pc = "done" => call[c].idx > Len(call[c].batch)

Ledgers == \A c \in Callers : Ledger(c)

(* The variables a ledger is about. *)
LedgerVars(c) == <<call[c].result, call[c].idx, call[c].failures, call[c].tally>>

LEMMA SameLedger ==
  ASSUME NEW c \in Callers, Ledger(c), UNCHANGED onError, UNCHANGED LedgerVars(c),
         call'[c].pc = "done" => call'[c].idx > Len(call'[c].batch)
  PROVE  Ledger(c)'
  BY DEF Ledger, LedgerVars, Shown

LEMMA ShownFinite ==
  ASSUME NEW c \in Callers, call[c] \in Call
  PROVE  IsFiniteSet(Shown(c)) /\ Cardinality(Shown(c)) \in Nat
<1>1. IsFiniteSet(1 .. Len(call[c].result))
  BY FS_Interval DEF Call
<1>2. Shown(c) \subseteq 1 .. Len(call[c].result)
  BY DEF Shown, Call
<1> QED BY <1>1, <1>2, FS_Subset, FS_CardinalityType

LEMMA MergeLedger ==
  ASSUME IInv, Ledgers, NEW c \in Callers, Merge(c), heap[call[c].data].fits
  PROVE  Ledger(c)'
<1> DEFINE out == call[c].result
           k   == call[c].idx
           e   == Enriched(k, Copy(c, k))
<1>0. /\ call \in [Callers -> Call] /\ call[c] \in Call /\ k \in 1 .. MaxBatch
      /\ Copy(c, k) \in Values /\ Copy(c, k) # None
      /\ out \in Seq([record : 1 .. MaxBatch, data : Values \cup {None}])
  <2>1. call \in [Callers -> Call] /\ call[c] \in Call
    BY DEF IInv, TypeOK
  <2>2. k \in 1 .. MaxBatch
    BY AtHand DEF Merge, AtRecord
  <2>3. Copy(c, k) \in Values
    BY <2>2, CallersAssumption
  <2> QED BY <2>1, <2>2, <2>3, CacheAssumption DEF Call
<1>1. /\ call'[c].result = Append(out, e) /\ call'[c].idx = k + 1 /\ call'[c].pc = "next"
      /\ call'[c].failures = call[c].failures /\ call'[c].tally = call[c].tally /\ onError' = onError
  BY <1>0 DEF Merge, Cloned, config, Call
<1>2. e.record = k /\ e.data = Copy(c, k) /\ e \in [record : 1 .. MaxBatch, data : Values \cup {None}]
  BY <1>0 DEF Enriched
<1> HIDE DEF out, e
<1>3. Ledger(c)
  BY DEF Ledgers
<1> DEFINE out1 == call'[c].result
<1>4. /\ DOMAIN out1 = 1 .. Len(out) + 1 /\ DOMAIN out = 1 .. Len(out) /\ Len(out) \in Nat
      /\ \A i \in DOMAIN out : i \in DOMAIN out1 /\ out1[i] = out[i]
      /\ out1[Len(out) + 1] = e
  BY <1>0, <1>1, <1>2
<1> HIDE DEF out1
<1>5. \A i \in DOMAIN out : out[i].record \in 1 .. k - 1
  BY <1>3 DEF Ledger, out
<1>6. \A i, j \in DOMAIN out1 : i < j => out1[i].record < out1[j].record
  <2>1. \A i, j \in DOMAIN out : i < j => out[i].record < out[j].record
    BY <1>3 DEF Ledger, out
  <2>2. ASSUME NEW i \in DOMAIN out1, NEW j \in DOMAIN out1, i < j
        PROVE  out1[i].record < out1[j].record
    <3>1. i \in DOMAIN out /\ i \in Nat /\ j \in Nat
      BY <1>4, <2>2
    <3>2. CASE j \in DOMAIN out
      BY <1>4, <2>1, <2>2, <3>1, <3>2
    <3>3. CASE j = Len(out) + 1
      BY <1>0, <1>2, <1>4, <1>5, <3>1, <3>3
    <3> QED BY <1>4, <3>2, <3>3
  <2> QED BY <2>2
<1>7. \A i \in DOMAIN out1 : out1[i].record \in 1 .. k
  BY <1>0, <1>2, <1>4, <1>5
<1>8. onError # "fail" => call[c].failures \subseteq 1 .. k - 1
  BY <1>3 DEF Ledger
<1>9. ASSUME NEW n \in 1 .. k
      PROVE  (\E i \in DOMAIN out1 : out1[i].record = n) <=> ~(onError = "skip" /\ n \in call[c].failures)
  <2>1. CASE n = k
    <3>1. Len(out) + 1 \in DOMAIN out1 /\ out1[Len(out) + 1].record = n
      BY <1>2, <1>4, <2>1
    <3>2. ~(onError = "skip" /\ n \in call[c].failures)
      BY <1>0, <1>8, <2>1
    <3> QED BY <3>1, <3>2
  <2>2. CASE n # k
    <3>1. n \in 1 .. k - 1
      BY <1>0, <2>2
    <3>2. (\E i \in DOMAIN out : out[i].record = n) <=> ~(onError = "skip" /\ n \in call[c].failures)
      BY <1>3, <3>1 DEF Ledger, out
    <3>3. (\E i \in DOMAIN out1 : out1[i].record = n) <=> (\E i \in DOMAIN out : out[i].record = n)
      BY <1>2, <1>4, <2>2
    <3> QED BY <3>2, <3>3
  <2> QED BY <2>1, <2>2
<1>10. ASSUME NEW i \in DOMAIN out1
       PROVE  /\ out1[i].data = None <=> onError = "log" /\ out1[i].record \in call[c].failures
              /\ out1[i].data # None => out1[i].data = Copy(c, out1[i].record)
  <2>1. CASE i \in DOMAIN out
    <3>1. /\ out[i].data = None <=> onError = "log" /\ out[i].record \in call[c].failures
          /\ out[i].data # None => out[i].data = Copy(c, out[i].record)
      BY <1>3, <2>1, Zenon DEF Ledger, out
    <3> QED BY <1>4, <2>1, <3>1
  <2>2. CASE i = Len(out) + 1
    BY <1>0, <1>2, <1>4, <1>8, <2>2
  <2> QED BY <1>4, <2>1, <2>2
<1>11. Shown(c)' = Shown(c)
  <2>1. \A i \in DOMAIN out1 : out1[i].data = None => i \in DOMAIN out
    BY <1>0, <1>2, <1>4
  <2> QED BY <1>4, <2>1 DEF Shown, out, out1
<1>12. call'[c].tally = Cardinality(Shown(c)')
  BY <1>1, <1>3, <1>11 DEF Ledger
<1>13. call'[c].idx - 1 = k
  BY <1>0, <1>1
<1>14. call'[c].pc # "done" /\ (onError' # "fail" => call'[c].failures \subseteq 1 .. call'[c].idx - 1)
  BY <1>0, <1>1, <1>8, <1>13
<1> QED BY <1>1, <1>6, <1>7, <1>9, <1>10, <1>12, <1>13, <1>14 DEF Ledger, out1

LEMMA RecordErrorLedger ==
  ASSUME IInv, Ledgers, NEW c \in Callers, RecordError(c)
  PROVE  Ledger(c)'
<1> DEFINE out == call[c].result
           k   == call[c].idx
           e   == Marked(k)
<1>0. /\ call \in [Callers -> Call] /\ call[c] \in Call /\ k \in 1 .. MaxBatch
      /\ out \in Seq([record : 1 .. MaxBatch, data : Values \cup {None}])
      /\ onError \in {"fail", "skip", "log"} /\ Ledger(c)
  BY AtHand DEF RecordError, AtRecord, Ledgers, IInv, TypeOK, Call
<1>1. /\ onError' = onError /\ call'[c].pc # "done"
      /\ call'[c].failures = call[c].failures \cup {k}
      /\ call'[c].idx = (IF onError = "fail" THEN k ELSE k + 1)
      /\ call'[c].result = (IF onError = "log" THEN Append(out, e) ELSE out)
      /\ call'[c].tally = (IF onError = "log" THEN call[c].tally + 1 ELSE call[c].tally)
  BY <1>0 DEF RecordError, config, Call
<1>2. e.record = k /\ e.data = None
  BY DEF Marked
<1> HIDE DEF out, e
<1>3. CASE onError = "fail"
  BY <1>0, <1>1, <1>3 DEF Ledger, Shown, out
<1>4. CASE onError = "skip"
  <2>1. \A i \in DOMAIN out : out[i].record \in 1 .. k - 1
    BY <1>0 DEF Ledger, out
  <2>2. ASSUME NEW n \in 1 .. k
        PROVE  (\E i \in DOMAIN out : out[i].record = n) <=> n \notin call'[c].failures
    <3>1. CASE n = k
      BY <1>0, <1>1, <2>1, <3>1
    <3>2. CASE n # k
      <4>1. n \in 1 .. k - 1
        BY <1>0, <3>2
      <4> QED BY <1>0, <1>1, <1>4, <3>2, <4>1 DEF Ledger, out
    <3> QED BY <3>1, <3>2
  <2>3. call[c].failures \subseteq 1 .. k - 1
    BY <1>0, <1>4 DEF Ledger
  <2>4. call'[c].failures \subseteq 1 .. k /\ \A i \in DOMAIN out : out[i].record \in 1 .. k
    BY <1>0, <1>1, <2>1, <2>3
  <2>5. call'[c].idx - 1 = k /\ call'[c].result = out /\ Shown(c)' = Shown(c)
        /\ call'[c].tally = call[c].tally
    BY <1>0, <1>1, <1>4 DEF Shown, out
  <2>6. /\ \A i, j \in DOMAIN out : i < j => out[i].record < out[j].record
        /\ call[c].tally = Cardinality(Shown(c))
    BY <1>0 DEF Ledger, out
  <2>7. \A i \in DOMAIN out : out[i].data # None /\ out[i].data = Copy(c, out[i].record)
    BY <1>0, <1>4 DEF Ledger, out
  <2> QED BY <1>1, <1>4, <2>2, <2>4, <2>5, <2>6, <2>7 DEF Ledger
<1>5. CASE onError = "log"
  <2> DEFINE out1 == call'[c].result
  <2>1. /\ DOMAIN out1 = 1 .. Len(out) + 1 /\ DOMAIN out = 1 .. Len(out) /\ Len(out) \in Nat
        /\ \A i \in DOMAIN out : i \in DOMAIN out1 /\ out1[i] = out[i]
        /\ out1[Len(out) + 1] = e
    BY <1>0, <1>1, <1>5
  <2> HIDE DEF out1
  <2>2. /\ \A i \in DOMAIN out : out[i].record \in 1 .. k - 1
        /\ \A i, j \in DOMAIN out : i < j => out[i].record < out[j].record
        /\ call[c].failures \subseteq 1 .. k - 1
    BY <1>0, <1>5 DEF Ledger, out
  <2>3. ASSUME NEW i \in DOMAIN out1, NEW j \in DOMAIN out1, i < j
        PROVE  out1[i].record < out1[j].record
    <3>1. i \in DOMAIN out /\ i \in Nat /\ j \in Nat
      BY <2>1, <2>3
    <3>2. CASE j \in DOMAIN out
      BY <2>1, <2>2, <2>3, <3>1, <3>2
    <3>3. CASE j = Len(out) + 1
      BY <1>0, <1>2, <2>1, <2>2, <3>1, <3>3
    <3> QED BY <2>1, <3>2, <3>3
  <2>4. \A i \in DOMAIN out1 : out1[i].record \in 1 .. k
    BY <1>0, <1>2, <2>1, <2>2
  <2>5. ASSUME NEW n \in 1 .. k PROVE \E i \in DOMAIN out1 : out1[i].record = n
    <3>1. CASE n = k
      <4>1. Len(out) + 1 \in DOMAIN out1 /\ out1[Len(out) + 1].record = n
        BY <1>2, <2>1, <3>1
      <4> QED BY <4>1
    <3>2. CASE n # k
      <4>1. n \in 1 .. k - 1
        BY <1>0, <3>2
      <4>2. PICK i \in DOMAIN out : out[i].record = n
        BY <1>0, <1>5, <4>1 DEF Ledger, out
      <4> QED BY <2>1, <4>2
    <3> QED BY <3>1, <3>2
  <2>6. ASSUME NEW i \in DOMAIN out1
        PROVE  /\ out1[i].data = None <=> out1[i].record \in call'[c].failures
               /\ out1[i].data # None => out1[i].data = Copy(c, out1[i].record)
    <3>1. CASE i \in DOMAIN out
      <4>1. /\ out[i].data = None <=> onError = "log" /\ out[i].record \in call[c].failures
            /\ out[i].data # None => out[i].data = Copy(c, out[i].record)
        BY <1>0, <3>1 DEF Ledger, out
      <4>2. out[i].record # k
        BY <1>0, <2>2, <3>1
      <4> QED BY <1>1, <1>5, <2>1, <3>1, <4>1, <4>2
    <3>2. CASE i = Len(out) + 1
      BY <1>1, <1>2, <2>1, <3>2
    <3> QED BY <2>1, <3>1, <3>2
  <2>7. Shown(c)' = Shown(c) \cup {Len(out) + 1} /\ Len(out) + 1 \notin Shown(c)
    <3>1. Shown(c)' = {i \in DOMAIN out1 : out1[i].data = None}
      BY DEF Shown, out1
    <3>2. Shown(c) = {i \in DOMAIN out : out[i].data = None}
      BY DEF Shown, out
    <3> QED BY <1>2, <2>1, <3>1, <3>2
  <2>8. call'[c].tally = Cardinality(Shown(c)')
    <3>1. IsFiniteSet(Shown(c)) /\ Cardinality(Shown(c)) \in Nat
      BY <1>0, ShownFinite
    <3>2. Cardinality(Shown(c)') = Cardinality(Shown(c)) + 1
      BY <2>7, <3>1, FS_AddElement
    <3> QED BY <1>0, <1>1, <1>5, <3>1, <3>2 DEF Ledger
  <2>9. call'[c].idx - 1 = k /\ call'[c].failures \subseteq 1 .. k
    BY <1>0, <1>1, <1>5, <2>2
  <2> QED BY <1>1, <1>5, <2>3, <2>4, <2>5, <2>6, <2>8, <2>9 DEF Ledger, out1
<1> QED BY <1>0, <1>3, <1>4, <1>5

(* A step of one call is no matter for the ledgers of the others. *)
LEMMA OthersKeepTheirLedgers ==
  ASSUME Ledgers, NEW c \in Callers, Ledger(c)', UNCHANGED onError,
         \A d \in Callers : d # c => call'[d] = call[d]
  PROVE  Ledgers'
<1>1. ASSUME NEW d \in Callers, d # c PROVE Ledger(d)'
  <2>1. Ledger(d) /\ call'[d] = call[d]
    BY <1>1 DEF Ledgers
  <2>2. call'[d].pc = "done" => call'[d].idx > Len(call'[d].batch)
    BY <2>1 DEF Ledger
  <2> QED BY <2>1, <2>2, SameLedger DEF LedgerVars
<1> QED BY <1>1 DEF Ledgers

(* Every other step leaves what the ledger of its call is about.           *)
LEMMA QuietLedgers ==
  ASSUME IInv, Ledgers, NEW c \in Callers,
         \/ Process(c) \/ NextRecord(c) \/ Lookup(c) \/ Fetch(c) \/ Store(c)
         \/ Merge(c) /\ ~heap[call[c].data].fits
  PROVE  Ledgers'
<1>0. /\ call \in [Callers -> Call] /\ call[c] \in Call /\ onError' = onError /\ Ledger(c)
  BY DEF IInv, TypeOK, Ledgers, Process, NextRecord, Lookup, Fetch, Store, Merge, config
<1>1. ASSUME NEW pc \in PCs, Goto(c, pc), pc = "done" => call[c].idx > Len(call[c].batch) PROVE Ledgers'
  <2>1. /\ call'[c].pc = pc /\ UNCHANGED LedgerVars(c) /\ call'[c].batch = call[c].batch
        /\ \A d \in Callers : d # c => call'[d] = call[d]
    BY <1>0, <1>1, GotoKeeps DEF LedgerVars
  <2>2. Ledger(c)'
    BY <1>0, <1>1, <2>1, SameLedger DEF LedgerVars
  <2> QED BY <1>0, <2>1, <2>2, OthersKeepTheirLedgers
<1>2. ASSUME NEW pc \in PCs \ {"done"}, NEW v, GotoWith(c, pc, v) PROVE Ledgers'
  <2>1. call' = [call EXCEPT ![c] = [call[c] EXCEPT !.pc = pc, !.data = v]]
    BY <1>0, <1>2 DEF GotoWith
  <2>2. /\ call'[c].pc = pc /\ UNCHANGED LedgerVars(c)
        /\ \A d \in Callers : d # c => call'[d] = call[d]
    BY <1>0, <2>1 DEF LedgerVars, Call
  <2>3. Ledger(c)'
    BY <1>0, <1>2, <2>2, SameLedger
  <2> QED BY <1>0, <2>2, <2>3, OthersKeepTheirLedgers
<1>3. CASE Process(c)
  <2>1. PICK batch \in Batches[c] : call' = [call EXCEPT ![c].pc = "next", ![c].batch = batch]
    BY <1>3 DEF Process
  <2>2. call' = [call EXCEPT ![c] = [call[c] EXCEPT !.pc = "next", !.batch = batch]]
    BY <1>0, <2>1
  <2>3. /\ call'[c].pc = "next" /\ UNCHANGED LedgerVars(c)
        /\ \A d \in Callers : d # c => call'[d] = call[d]
    BY <1>0, <2>2 DEF LedgerVars, Call
  <2>4. Ledger(c)'
    BY <1>0, <2>3, SameLedger
  <2> QED BY <1>0, <2>3, <2>4, OthersKeepTheirLedgers
<1>4. CASE NextRecord(c)
  <2>1. \/ Goto(c, "done") /\ call[c].idx > Len(call[c].batch)
        \/ Goto(c, "error") \/ Goto(c, "failed") \/ Goto(c, "lookup") \/ Goto(c, "fetch")
    BY <1>4 DEF NextRecord
  <2> QED BY <1>1, <2>1 DEF PCs
<1>5. CASE Lookup(c)
  <2>1. GotoWith(c, "merge", items[Key(c)].value) \/ Goto(c, "fetch")
    BY <1>5 DEF Lookup
  <2> QED BY <1>1, <1>2, <2>1 DEF PCs
<1>6. CASE Fetch(c)
  <2>1. \/ Goto(c, "failed")
        \/ \E pc \in {"store", "merge"}, v \in {Response(c, call[c].idx)} : GotoWith(c, pc, v)
    <3>1. CASE cacheEnabled
      BY <1>6, <3>1 DEF Fetch
    <3>2. CASE ~cacheEnabled
      BY <1>6, <3>2 DEF Fetch
    <3> QED BY <3>1, <3>2
  <2> QED BY <1>1, <1>2, <2>1 DEF PCs
<1>7. CASE Store(c)
  BY <1>1, <1>7 DEF Store, PCs
<1>8. CASE Merge(c) /\ ~heap[call[c].data].fits
  BY <1>1, <1>8 DEF Merge, PCs
<1> QED BY <1>3, <1>4, <1>5, <1>6, <1>7, <1>8

LEMMA LedgersStep == IInv /\ Ledgers /\ [Next]_vars => Ledgers'
<1> SUFFICES ASSUME IInv, Ledgers, [Next]_vars PROVE Ledgers'
  OBVIOUS
<1>0. call \in [Callers -> Call]
  BY DEF IInv, TypeOK
<1>1. ASSUME NEW c \in Callers, RecordError(c) PROVE Ledgers'
  <2>1. Ledger(c)'
    BY <1>1, RecordErrorLedger
  <2>2. onError' = onError /\ \A d \in Callers : d # c => call'[d] = call[d]
    BY <1>0, <1>1 DEF RecordError, config
  <2> QED BY <2>1, <2>2, OthersKeepTheirLedgers
<1>2. ASSUME NEW c \in Callers, Merge(c) PROVE Ledgers'
  <2>1. CASE heap[call[c].data].fits
    <3>1. Ledger(c)'
      BY <1>2, <2>1, MergeLedger
    <3>2. onError' = onError /\ \A d \in Callers : d # c => call'[d] = call[d]
      BY <1>0, <1>2, <2>1 DEF Merge, config
    <3> QED BY <3>1, <3>2, OthersKeepTheirLedgers
  <2> QED BY <1>2, <2>1, QuietLedgers
<1>3. ASSUME NEW c \in Callers, Process(c) \/ Step(c) PROVE Ledgers'
  BY <1>1, <1>2, <1>3, QuietLedgers DEF Step
<1>4. ASSUME UNCHANGED <<call, onError>> PROVE Ledgers'
  <2>1. ASSUME NEW d \in Callers PROVE Ledger(d)'
    <3>1. Ledger(d) /\ UNCHANGED LedgerVars(d) /\ call'[d] = call[d]
      BY <1>4 DEF Ledgers, LedgerVars
    <3>2. call'[d].pc = "done" => call'[d].idx > Len(call'[d].batch)
      BY <3>1 DEF Ledger
    <3> QED BY <1>4, <3>1, <3>2, SameLedger
  <2> QED BY <2>1 DEF Ledgers
<1>5. ASSUME NEW c \in Callers, Downstream(c) \/ Cancel(c) PROVE Ledgers'
  BY <1>4, <1>5 DEF Downstream, Cancel, config
<1>6. CASE Maintain \/ PassTime \/ UNCHANGED vars
  BY <1>4, <1>6 DEF Maintain, PassTime, vars, config
<1> QED BY <1>3, <1>5, <1>6 DEF Next

LEMMA InitLedgers == Init => Ledgers
<1> SUFFICES ASSUME Init, NEW c \in Callers PROVE Ledger(c)
  BY DEF Ledgers
<1>1. /\ call[c].result = <<>> /\ call[c].idx = 1 /\ call[c].failures = {}
      /\ call[c].tally = 0 /\ call[c].pc = "idle"
  BY DEF Init
<1>2. Shown(c) = {}
  BY <1>1 DEF Shown
<1>3. 1 .. call[c].idx - 1 = {} /\ DOMAIN call[c].result = {}
  BY <1>1
<1> QED BY <1>1, <1>2, <1>3, FS_EmptySet DEF Ledger

LEMMA LedgersAccount == IInv /\ Ledgers => OutputAccounted
<1> SUFFICES ASSUME IInv, Ledgers, NEW c \in Callers
             PROVE  LET handled == 1 .. call[c].idx - 1
                        out     == call[c].result
                        at(i)   == out[i].record IN
                    /\ \A i, j \in DOMAIN out : i < j => at(i) < at(j)
                    /\ {at(i) : i \in DOMAIN out} = handled \ (IF onError = "skip" THEN call[c].failures ELSE {})
                    /\ {at(i) : i \in {j \in DOMAIN out : out[j].data = None}} =
                         (IF onError = "log" THEN call[c].failures ELSE {})
                    /\ call[c].tally = Cardinality({i \in DOMAIN out : out[i].data = None})
                    /\ \A i \in DOMAIN out : out[i].data # None => heap[out[i].data].of = call[c].batch[at(i)]
                    /\ call[c].pc = "done" => handled = DOMAIN call[c].batch
  BY DEF OutputAccounted
<1> DEFINE handled == 1 .. call[c].idx - 1
           out     == call[c].result
           at(i)   == out[i].record
<1>0. /\ Ledger(c) /\ call[c] \in Call /\ call[c].idx \in Nat \ {0} /\ call[c].batch \in Seq(Keys)
      /\ onError \in {"fail", "skip", "log"}
  <2>1. Ledger(c) /\ call[c] \in Call /\ MaxBatch \in Nat /\ onError \in {"fail", "skip", "log"}
    BY CallersAssumption DEF Ledgers, IInv, TypeOK
  <2> QED BY <2>1 DEF Call
<1>1. \A i, j \in DOMAIN out : i < j => at(i) < at(j)
  BY <1>0 DEF Ledger
<1>2. {at(i) : i \in DOMAIN out} = handled \ (IF onError = "skip" THEN call[c].failures ELSE {})
  <2>1. \A i \in DOMAIN out : at(i) \in handled
    BY <1>0 DEF Ledger
  <2>2. \A n \in handled : (\E i \in DOMAIN out : at(i) = n) <=> ~(onError = "skip" /\ n \in call[c].failures)
    BY <1>0 DEF Ledger
  <2> QED BY <2>1, <2>2
<1>3. {at(i) : i \in {j \in DOMAIN out : out[j].data = None}} =
        (IF onError = "log" THEN call[c].failures ELSE {})
  <2>1. \A i \in DOMAIN out : out[i].data = None <=> onError = "log" /\ at(i) \in call[c].failures
    BY <1>0 DEF Ledger
  <2>2. onError = "log" => \A n \in call[c].failures : \E i \in DOMAIN out : at(i) = n
    BY <1>0 DEF Ledger
  <2> HIDE DEF out
  <2> QED BY <2>1, <2>2
<1>4. call[c].tally = Cardinality({i \in DOMAIN out : out[i].data = None})
  BY <1>0 DEF Ledger, Shown
<1>5. ASSUME NEW i \in DOMAIN out, out[i].data # None PROVE heap[out[i].data].of = call[c].batch[at(i)]
  <2>1. out[i].data = Copy(c, at(i))
    BY <1>0, <1>5 DEF Ledger
  <2>2. out[i].data \in DOMAIN heap
    BY <1>5 DEF IInv, Holders
  <2> QED BY <2>1, <2>2 DEF IInv, Objects
<1>6. ASSUME call[c].pc = "done" PROVE handled = DOMAIN call[c].batch
  <2>1. call[c].idx = Len(call[c].batch) + 1
    BY <1>0, <1>6 DEF Ledger, IInv, Phases
  <2> QED BY <1>0, <2>1
<1> QED BY <1>1, <1>2, <1>3, <1>4, <1>5, <1>6

(***************************************************************************)
(* Every record leaves Process exactly once and in order unless it failed  *)
(* under onError skip; the marked ones are the ones that failed, the tally *)
(* counts them, and each enriched record holds the response to its own     *)
(* call (http_call.go:395-465).                                            *)
(***************************************************************************)
THEOREM RecordsAccounted == Spec => []OutputAccounted
<1>1. IInv /\ Ledgers /\ [Next]_vars => (IInv /\ Ledgers)'
  BY IInvStep, LedgersStep
<1> QED BY InitIInv, InitLedgers, <1>1, LedgersAccount, PTL DEF Spec
=============================================================================
