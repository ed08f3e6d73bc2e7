------------------------------ MODULE LRUCache ------------------------------
(***************************************************************************)
(* The LRU cache with expiry of internal/cache/lru.go. Every method holds  *)
(* the mutex from its first read to its last write, and reads the clock    *)
(* inside it, so each one is an atomic step. Hit, miss and eviction        *)
(* counters only feed GetCacheStats and are left out.                      *)
(***************************************************************************)
EXTENDS Integers, FiniteSets

CONSTANTS Keys,       \* cache keys that the filters' templates can render
          EmptyKey,   \* the key "": a template over a missing field renders it
          Values,     \* cached responses
          None,       \* nil, false
          MaxSize,    \* maxSize
          TTL,        \* the ttl given to Set
          MaxTime     \* bound on the clock

ASSUME CacheAssumption ==
  /\ MaxSize \in Nat \ {0} /\ TTL \in Nat \ {0} /\ MaxTime \in Nat
  /\ IsFiniteSet(Keys)
  /\ None \notin Values /\ None \notin Keys
  /\ \A k \in Keys, v \in Values : None # [key |-> k, value |-> v]

VARIABLES items,    \* the Go map: key -> [value, expiresAt, lastUsed]
          now,      \* time.Now()
          answer    \* what the last Get returned, with its key

cacheVars == <<items, now, answer>>

Entry == [value : Values, expiresAt : Nat, lastUsed : Nat]
Answer == {None} \cup [key : Keys, value : Values]

CacheType ==
  /\ DOMAIN items \subseteq Keys
  /\ items \in [DOMAIN items -> Entry]
  /\ now \in Nat
  /\ answer \in Answer

CacheInit == items = [k \in {} |-> None] /\ now = 0 /\ answer = None

(* cacheItem.isExpired: strictly after the deadline. *)
IsExpired(k) == now > items[k].expiresAt

Without(gone) == [k \in DOMAIN items \ gone |-> items[k]]

(* What Get returns to its caller. *)
Found(k) == k \in DOMAIN items /\ ~IsExpired(k)

(* Fault: a hit prolongs the entry.                                        *)
Get_Prolongs(k) ==
  /\ IF Found(k)
       THEN /\ items' = [items EXCEPT ![k].lastUsed = now, ![k].expiresAt = now + TTL]
            /\ answer' = [key |-> k, value |-> items[k].value]
       ELSE items' = Without({k}) /\ answer' = None
  /\ UNCHANGED now

(* Fault: a hit does not count as a use.                                   *)
Get_NotUsed(k) ==
  /\ IF Found(k)
       THEN answer' = [key |-> k, value |-> items[k].value] /\ UNCHANGED items
       ELSE items' = Without({k}) /\ answer' = None
  /\ UNCHANGED now

(* A hit refreshes lastUsed, an expired entry is deleted on the spot.      *)
Get(k) ==
  /\ IF Found(k)
       THEN /\ items' = [items EXCEPT ![k].lastUsed = now]
            /\ answer' = [key |-> k, value |-> items[k].value]
       ELSE /\ items' = Without({k})
            /\ answer' = None
  /\ UNCHANGED now

(* evictLRU: the map is scanned in an arbitrary order for the strictly     *)
(* smallest lastUsed, so that any one of the oldest may be the one found;  *)
(* when that is the empty key, nothing is deleted.                         *)
Oldest == {k \in DOMAIN items : \A other \in DOMAIN items : items[k].lastUsed <= items[other].lastUsed}

(* What an eviction may delete. *)
Victims == {{k} \ {EmptyKey} : k \in Oldest}

(* Only a new key makes room; an existing one is overwritten in its place. *)
Set(k, v) ==
  /\ \E gone \in IF Cardinality(DOMAIN items) >= MaxSize /\ k \notin DOMAIN items
                   THEN Victims ELSE {{}} :
        items' = [x \in (DOMAIN items \ gone) \cup {k} |->
                    IF x = k THEN [value |-> v, expiresAt |-> now + TTL, lastUsed |-> now]
                             ELSE items[x]]
  /\ answer' = None
  /\ UNCHANGED now

Delete(k) == items' = Without({k}) /\ answer' = None /\ UNCHANGED now

Clear == items' = Without(DOMAIN items) /\ answer' = None /\ UNCHANGED now

CleanExpired ==
  /\ items' = Without({k \in DOMAIN items : IsExpired(k)})
  /\ answer' = None
  /\ UNCHANGED now

(* Time passes between the calls. *)
Tick == now < MaxTime /\ now' = now + 1 /\ UNCHANGED <<items, answer>>

CacheNext ==
  \/ \E k \in Keys : Get(k) \/ Delete(k) \/ \E v \in Values : Set(k, v)
  \/ Clear \/ CleanExpired \/ Tick

CacheSpec == CacheInit /\ [][CacheNext]_cacheVars

-----------------------------------------------------------------------------
(* The cache seen as the map it promises to be. *)
Promise == INSTANCE LossyMap WITH
  store <- [k \in DOMAIN items |-> [value |-> items[k].value, until |-> items[k].expiresAt]],
  clock <- now, reply <- answer

(***************************************************************************)
(* Whatever the callers do and however the evictions fall, the cache is a  *)
(* lossy map: Get answers with the value last Set under that very key,     *)
(* within its TTL, or with nothing; an eviction or a clean-up never alters *)
(* another entry, and a hit never prolongs one (lru.go:87-211).            *)
(***************************************************************************)
ImplementsLossyMap == Promise!Spec

(***************************************************************************)
(* A full cache only grows when its oldest entry is the one under the      *)
(* empty key, which evictLRU never deletes (lru.go:188); in every other    *)
(* case a new key costs an old one its place (lru.go:125-129).             *)
(***************************************************************************)
GrowsPastLimitOnlyForEmptyKey ==
  [][(Cardinality(DOMAIN items) >= MaxSize /\ Cardinality(DOMAIN items') > Cardinality(DOMAIN items))
       => EmptyKey \in Oldest]_cacheVars

(***************************************************************************)
(* The cache keeps to maxSize (lru.go:19, "If the cache is at capacity,    *)
(* the least recently used entry is evicted"): so it does while no         *)
(* template renders the empty key.                                         *)
(***************************************************************************)
WithinMaxSize == Cardinality(DOMAIN items) <= MaxSize
=============================================================================
