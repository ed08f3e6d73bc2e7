----------------------------- MODULE FetchProofs -----------------------------
(***************************************************************************)
(* Theorems about one Fetch of a polling input, for every source, every    *)
(* page size, every way of asking for pages and whatever others write      *)
(* between two requests: an HTTP or SOAP fetch stays within its page limit *)
(* (FetchTyped), and a fetch holds every row that was there all the time   *)
(* and none of them twice, unless rows it had passed came or went, if the  *)
(* server is told which page is meant (FetchedOnce).                       *)
(*                                                                         *)
(* A page and an offset count rows, a cursor names one.  Both divide the   *)
(* source in the rows behind the next request and the rest; the invariant  *)
(* says that the rows behind have been read, and no others.  What a write  *)
(* does to the division by count is told by the rank of the row.           *)
(***************************************************************************)
EXTENDS Fetch, FiniteSetTheorems, TLAPS

-----------------------------------------------------------------------------
(* The rank of a key among the keys S.                                     *)

RankOf(S, k) == Cardinality({j \in S : j < k})

(* The keys of the source are natural numbers, and finitely many. *)
LEMMA KeysFinite ==
  ASSUME NEW S \in SUBSET Keys
  PROVE  S \subseteq Nat /\ IsFiniteSet(S) /\ Cardinality(S) \in Nat
<1>1. IsFiniteSet(Keys) /\ Keys \subseteq Nat
  BY FetchAssumption, FS_Interval DEF Keys
<1> QED BY <1>1, FS_Subset, FS_CardinalityType

LEMMA RankType ==
  ASSUME NEW S \in SUBSET Keys, NEW k
  PROVE  RankOf(S, k) \in Nat /\ IsFiniteSet({j \in S : j < k})
BY KeysFinite DEF RankOf

(* A key has a lower rank than what comes after it.                        *)
LEMMA RankGrows ==
  ASSUME NEW S \in SUBSET Keys, NEW k \in Nat, NEW m \in Nat, k < m
  PROVE  RankOf(S, k) <= RankOf(S, m) /\ (k \in S => RankOf(S, k) < RankOf(S, m))
<1> DEFINE K == {j \in S : j < k}  M == {j \in S : j < m}
<1>1. K \subseteq M /\ k \notin K /\ (k \in S => k \in M)
  BY KeysFinite
<1>2. IsFiniteSet(M) /\ Cardinality(M) \in Nat /\ Cardinality(K) \in Nat
  BY RankType DEF RankOf
<1> HIDE DEF K, M
<1>3. Cardinality(K) <= Cardinality(M) /\ (Cardinality(M) = Cardinality(K) => M = K)
  BY <1>1, <1>2, FS_Subset
<1> QED BY <1>1, <1>2, <1>3 DEF RankOf, K, M

(* ... and lower than the number of keys. *)
LEMMA RankBelow ==
  ASSUME NEW S \in SUBSET Keys, NEW k \in S
  PROVE  RankOf(S, k) \in 0 .. Cardinality(S) - 1
<1> DEFINE K == {j \in S : j < k}
<1>1. K \subseteq S /\ k \notin K
  BY KeysFinite
<1>2. IsFiniteSet(S) /\ Cardinality(S) \in Nat /\ Cardinality(K) \in Nat
  BY KeysFinite, RankType DEF RankOf
<1> HIDE DEF K
<1>3. Cardinality(K) <= Cardinality(S) /\ (Cardinality(S) = Cardinality(K) => S = K)
  BY <1>1, <1>2, FS_Subset
<1> QED BY <1>1, <1>2, <1>3 DEF RankOf, K

(* No two keys have the same rank.                                         *)
LEMMA RankIsInjective ==
  ASSUME NEW S \in SUBSET Keys, NEW k \in S, NEW m \in S, RankOf(S, k) = RankOf(S, m)
  PROVE  k = m
<1>1. k \in Nat /\ m \in Nat /\ RankOf(S, k) \in Nat /\ RankOf(S, m) \in Nat
  BY KeysFinite, RankType
<1>2. (k < m => RankOf(S, k) < RankOf(S, m)) /\ (m < k => RankOf(S, m) < RankOf(S, k))
  BY <1>1, RankGrows
<1> QED BY <1>1, <1>2

(* Every rank below the number of keys is some key's.                      *)
LEMMA RankIsOnto ==
  ASSUME NEW S \in SUBSET Keys, NEW r \in 0 .. Cardinality(S) - 1
  PROVE  \E k \in S : RankOf(S, k) = r
<1> DEFINE n == Cardinality(S)  f == [k \in S |-> RankOf(S, k)]
<1>1. IsFiniteSet(S) /\ n \in Nat
  BY KeysFinite
<1>2. f \in Injection(S, 0 .. n - 1)
  <2>1. f \in [S -> 0 .. n - 1]
    BY RankBelow
  <2>2. \A a, b \in S : f[a] = f[b] => a = b
    BY RankIsInjective
  <2> QED BY <2>1, <2>2 DEF Injection, IsInjective
<1>3. IsFiniteSet(0 .. n - 1) /\ Cardinality(0 .. n - 1) = n
  BY <1>1, FS_Interval
<1>4. f \in Surjection(S, 0 .. n - 1)
  BY <1>1, <1>2, <1>3, FS_Injection
<1> QED BY <1>4 DEF Surjection

(* The rows of one rank after another: no more than asked for, and no      *)
(* fewer while there are so many.                                          *)
LEMMA RowsCount ==
  ASSUME NEW S \in SUBSET Keys, NEW off \in Nat, NEW n \in Nat,
         NEW rows, rows = {k \in S : off <= RankOf(S, k) /\ RankOf(S, k) < off + n}
  PROVE  /\ Cardinality(rows) \in Nat /\ Cardinality(rows) <= n
         /\ Cardinality(rows) < n => Cardinality(S) < off + n
<1> DEFINE f == [k \in rows |-> RankOf(S, k)]  T == off .. off + n - 1
<1>1. rows \in SUBSET S /\ rows \in SUBSET Keys
  OBVIOUS
<1>2. IsFiniteSet(rows) /\ Cardinality(rows) \in Nat /\ Cardinality(S) \in Nat
  BY <1>1, KeysFinite
<1>3. IsFiniteSet(T) /\ Cardinality(T) = n
  BY FS_Interval
<1>4. f \in Injection(rows, T)
  <2>1. \A k \in rows : RankOf(S, k) \in T
    <3>1. \A k \in rows : RankOf(S, k) \in Nat /\ off <= RankOf(S, k) /\ RankOf(S, k) < off + n
      BY RankType
    <3> QED BY <3>1
  <2>2. \A a, b \in rows : f[a] = f[b] => a = b
    BY <1>1, RankIsInjective
  <2>3. f \in [rows -> T]
    BY <2>1
  <2> QED BY <2>2, <2>3 DEF Injection, IsInjective
<1>5. Cardinality(rows) <= n /\ (f \in Surjection(rows, T) => Cardinality(rows) = n)
  BY <1>3, <1>4, FS_Injection
<1>6. ASSUME off + n <= Cardinality(S)
      PROVE  f \in Surjection(rows, T)
  <2>1. ASSUME NEW t \in T PROVE \E k \in rows : f[k] = t
    <3>1. t \in 0 .. Cardinality(S) - 1
      BY <1>2, <1>6
    <3>2. PICK k \in S : RankOf(S, k) = t
      BY <3>1, RankIsOnto
    <3>3. k \in rows
      BY <3>2
    <3> QED BY <3>2, <3>3
  <2>2. f \in [rows -> T]
    BY <1>4 DEF Injection
  <2> QED BY <2>1, <2>2 DEF Surjection
<1> QED BY <1>2, <1>5, <1>6

(* A row comes in: the ranks after it move up.                             *)
LEMMA RankOnInsert ==
  ASSUME NEW S \in SUBSET Keys, NEW new \in Keys \ S, NEW k \in Nat
  PROVE  RankOf(S \cup {new}, k) = RankOf(S, k) + (IF new < k THEN 1 ELSE 0)
<1> DEFINE K == {j \in S : j < k}  L == {j \in S \cup {new} : j < k}
<1>1. IsFiniteSet(K) /\ Cardinality(K) \in Nat /\ new \notin K
  BY RankType DEF RankOf
<1>2. L = IF new < k THEN K \cup {new} ELSE K
  OBVIOUS
<1> HIDE DEF K, L
<1>3. Cardinality(K \cup {new}) = Cardinality(K) + 1
  BY <1>1, FS_AddElement
<1> QED BY <1>1, <1>2, <1>3 DEF RankOf, K, L

(* A row goes: they move down.                                             *)
LEMMA RankOnDelete ==
  ASSUME NEW S \in SUBSET Keys, NEW old \in S, NEW k \in Nat
  PROVE  RankOf(S, k) = RankOf(S \ {old}, k) + (IF old < k THEN 1 ELSE 0)
<1>1. S \ {old} \in SUBSET Keys /\ old \in Keys \ (S \ {old}) /\ (S \ {old}) \cup {old} = S
  OBVIOUS
<1> QED BY <1>1, RankOnInsert

(* The last of the keys. *)
LEMMA LastKeyIs ==
  ASSUME NEW S \in SUBSET Keys, S # {}
  PROVE  LastKey(S) \in S /\ \A j \in S : j <= LastKey(S)
<1>1. Cardinality(S) \in Nat /\ Cardinality(S) # 0 /\ S \subseteq Nat
  BY KeysFinite, FS_EmptySet
<1>2. PICK k \in S : RankOf(S, k) = Cardinality(S) - 1
  <2>1. Cardinality(S) - 1 \in 0 .. Cardinality(S) - 1
    BY <1>1
  <2> QED BY <2>1, RankIsOnto
<1>3. ASSUME NEW j \in S PROVE j <= k
  <2>1. j \in Nat /\ k \in Nat /\ RankOf(S, j) \in 0 .. Cardinality(S) - 1
    BY <1>1, RankBelow
  <2>2. k < j => RankOf(S, k) < RankOf(S, j)
    BY <2>1, RankGrows
  <2> QED BY <1>1, <1>2, <2>1, <2>2
<1> QED BY <1>3 DEF LastKey

-----------------------------------------------------------------------------
(* The invariant.                                                          *)

(* The rows behind a request for p.  What a server is not told does not    *)
(* count (Moves).                                                          *)
Behind(p, k) ==
    \/ config.type = "page" /\ Rank(k) < (p - 1) * config.served
    \/ config.type = "offset" /\ Rank(k) < p
    \/ config.type = "cursor" /\ k <= p

(* They have been read ...                                                 *)
Held == Moves /\ EndIsSeen /\ ~pulled => \A k \in stable \ junk : Behind(pos, k) => got[k] >= 1

(* ... once, and no others.                                                *)
Once ==
    Moves /\ ~pushed => \A k \in Keys :
                  /\ got[k] <= 1
                  /\ got[k] >= 1 => k \in gone \/ (k \in source /\ Behind(pos, k))

(* The next request is within the limit, and no more rows have been read   *)
(* than the offset says.                                                   *)
Paging ==
    /\ config.input # "database" => requests < MaxPages
    /\ config.type = "page" => pos # 0
    /\ config.type = "page" /\ config.input # "database" => pos = requests + 1
    /\ config.type = "offset" /\ config.input # "database" => count <= pos
    /\ config.type = "offset" /\ config.input # "database" => pos = requests * config.limit

Fresh ==
    /\ requests = 0 /\ count = 0 /\ pos = 0 /\ got = [k \in Keys |-> 0]
    /\ ~pushed /\ ~pulled

FetchInv ==
    /\ FetchType
    /\ config.input = "database" => junk = {}
    /\ pc = "idle" => Fresh
    /\ pc = "request" => Paging /\ Held /\ Once
    /\ RowsFetchedOnce

(* What the configurations are. *)
LEMMA ConfigIs ==
  ASSUME config \in Configs
  PROVE  /\ config.input \in {"http", "soap", "database"}
         /\ config.type \in {"single", "page", "offset", "cursor"}
         /\ config.limit \in Nat \ {0} /\ config.served \in Nat \ {0}
<1>1. config \in [input : {"http", "soap", "database"},
                  type : {"single", "page", "offset", "cursor"},
                  limit : Nat \ {0}, served : Nat \ {0}, totals : BOOLEAN,
                  binds : SUBSET {"limit", "position"}, returned : BOOLEAN]
  BY FetchAssumption
<1> QED BY <1>1

(* The sets of keys, and the ranks in the source. *)
LEMMA SourceFacts ==
  ASSUME FetchType
  PROVE  /\ source \in SUBSET Keys /\ Keys \subseteq Nat \ {0}
         /\ \A k : Rank(k) = RankOf(source, k) /\ Rank(k) \in Nat
         /\ \A k \in source : Rank(k) < Cardinality(source)
         /\ Cardinality(source) \in Nat
<1>1. source \in SUBSET Keys
  BY DEF FetchType
<1>2. \A k : Rank(k) = RankOf(source, k)
  BY DEF Rank, RankOf
<1>3. \A k \in source : Rank(k) < Cardinality(source)
  BY <1>1, <1>2, RankBelow, KeysFinite
<1>4. \A k : Rank(k) \in Nat
  BY <1>1, <1>2, RankType
<1>5. Keys \subseteq Nat \ {0}
  BY FetchAssumption DEF Keys
<1> QED BY <1>1, <1>2, <1>3, <1>4, <1>5, KeysFinite

(* The number of rows behind a page or an offset.                          *)
LEMMA PassedIs ==
  ASSUME FetchType, Paging
  PROVE  /\ config.type \in {"page", "offset"} =>
               Passed \in Nat /\ \A k : Behind(pos, k) <=> Rank(k) < Passed
         /\ config.type = "cursor" => Passed = 0 /\ \A k : Behind(pos, k) <=> k <= pos
         /\ config.type = "single" => Passed = 0 /\ \A k : ~Behind(pos, k)
<1>1. config.served \in Nat /\ pos \in Nat
  BY ConfigIs DEF FetchType
<1>2. CASE config.type = "page"
  <2>1. pos - 1 \in Nat
    BY <1>1, <1>2 DEF Paging
  <2>2. (pos - 1) * config.served \in Nat
    BY <1>1, <2>1
  <2> QED BY <1>2, <2>2 DEF Passed, Behind
<1>3. CASE config.type # "page"
  BY <1>1, <1>3 DEF Passed, Behind
<1> QED BY <1>2, <1>3

-----------------------------------------------------------------------------
(* The source changes between two requests.                                *)

(* A row comes in.                                                         *)
LEMMA InsertPreserves ==
  ASSUME FetchInv, NEW new \in Keys, Insert(new)
  PROVE  FetchInv'
<1>1. /\ FetchType /\ Paging /\ Held /\ Once /\ pc = "request"
      /\ source' = source \cup {new} /\ pushed' = (pushed \/ Rank(new) < Passed)
      /\ new \notin source \cup gone
      /\ UNCHANGED <<config, junk, pos, requests, count, got, refreshes, cancelled, pc,
                     gone, stable, pulled>>
      /\ changes' \in 0 .. MaxChanges
  BY FetchAssumption DEF FetchInv, FetchType, Insert, Change, pageVars
<1>2. FetchType'
  <2>1. pushed' \in BOOLEAN
    BY <1>1
  <2> QED BY <1>1, <2>1 DEF FetchType
<1>3. /\ \A k \in Keys : Rank(k)' = Rank(k) + (IF new < k THEN 1 ELSE 0)
      /\ \A k \in source : k < new => Rank(k) < Rank(new)
      /\ \A k \in Keys : new < k => Rank(new) <= Rank(k)
      /\ \A k \in Keys : Rank(k) \in Nat
  <2>1. source \in SUBSET Keys /\ new \in Keys \ source /\ Keys \subseteq Nat
    BY <1>1, SourceFacts
  <2>2. \A k : Rank(k) = RankOf(source, k) /\ Rank(k) \in Nat
    BY <1>1, SourceFacts
  <2>3. \A k : Rank(k)' = RankOf(source \cup {new}, k)
    BY <1>1 DEF Rank, RankOf
  <2> QED BY <2>1, <2>2, <2>3, RankOnInsert, RankGrows
<1>4. Paging' /\ Passed' = Passed
  BY <1>1 DEF Paging, Passed
<1>5. Held'
  <2>1. \A k \in source : Behind(pos, k)' => Behind(pos, k)
    <3>1. \A k \in source : Rank(k) <= Rank(k)' /\ Rank(k) \in Nat /\ Rank(k)' \in Nat
      BY <1>1, <1>3 DEF FetchType
    <3>2. CASE config.type = "page"
      <4> DEFINE p == (pos - 1) * config.served
      <4>1. p \in Nat
        BY <1>1, <3>2, PassedIs DEF Passed
      <4>2. \A k : Behind(pos, k)' <=> Rank(k)' < p
        BY <1>1, <3>2 DEF Behind
      <4>3. \A k : Behind(pos, k) <=> Rank(k) < p
        BY <3>2 DEF Behind
      <4> HIDE DEF p
      <4> QED BY <3>1, <4>1, <4>2, <4>3
    <3>3. CASE config.type # "page"
      <4>1. pos \in Nat
        BY <1>1 DEF FetchType
      <4> QED BY <1>1, <3>1, <3>3, <4>1 DEF Behind
    <3> QED BY <3>2, <3>3
  <2> QED BY <1>1, <2>1 DEF Held, Moves, EndIsSeen, FetchType
<1>6. Once'
  <2> SUFFICES ASSUME Moves, ~pushed', NEW k \in Keys
               PROVE  got[k] <= 1 /\ (got[k] >= 1 => k \in gone
                                                     \/ (k \in source' /\ Behind(pos, k)'))
    BY <1>1 DEF Once, Moves
  <2>1. ~pushed /\ ~(Rank(new) < Passed)
    BY <1>1
  <2>2. got[k] <= 1 /\ (got[k] >= 1 => k \in gone \/ (k \in source /\ Behind(pos, k)))
    BY <1>1, <2>1 DEF Once
  <2>3. ASSUME k \in source, Behind(pos, k) PROVE Behind(pos, k)'
    <3>1. CASE config.type \in {"page", "offset"}
      <4>1. Passed \in Nat /\ Rank(k) < Passed /\ Rank(k) \in Nat /\ Rank(new) \in Nat
        BY <1>1, <1>3, <2>3, <3>1, PassedIs
      <4>2. ~(new < k)
        BY <1>3, <2>1, <4>1
      <4>3. Rank(k)' = Rank(k)
        BY <1>3, <4>1, <4>2
      <4> QED BY <1>1, <2>3, <4>3 DEF Behind
    <3>2. CASE config.type \notin {"page", "offset"}
      BY <1>1, <2>3, <3>2 DEF Behind
    <3> QED BY <3>1, <3>2
  <2> QED BY <1>1, <2>2, <2>3
<1> QED BY <1>1, <1>2, <1>4, <1>5, <1>6 DEF FetchInv, RowsFetchedOnce

(* A row goes.                                                             *)
LEMMA DeletePreserves ==
  ASSUME FetchInv, NEW old \in Keys, Delete(old)
  PROVE  FetchInv'
<1>1. /\ FetchType /\ Paging /\ Held /\ Once /\ pc = "request"
      /\ source' = source \ {old} /\ pulled' = (pulled \/ Rank(old) < Passed)
      /\ old \in source /\ gone' = gone \cup {old} /\ stable' = stable \ {old}
      /\ UNCHANGED <<config, junk, pos, requests, count, got, refreshes, cancelled, pc,
                     pushed>>
      /\ changes' \in 0 .. MaxChanges
  BY FetchAssumption DEF FetchInv, FetchType, Delete, Change, pageVars
<1>2. FetchType'
  <2>1. pulled' \in BOOLEAN
    BY <1>1
  <2> QED BY <1>1, <2>1 DEF FetchType
<1>3. /\ \A k \in Keys : Rank(k) = Rank(k)' + (IF old < k THEN 1 ELSE 0)
      /\ \A k \in Keys : old < k => Rank(old) < Rank(k)
      /\ \A k \in Keys : Rank(k) \in Nat /\ Rank(k)' \in Nat
  <2>1. source \in SUBSET Keys /\ Keys \subseteq Nat /\ source \ {old} \in SUBSET Keys
    BY <1>1, SourceFacts
  <2>2. \A k : Rank(k) = RankOf(source, k) /\ Rank(k) \in Nat
    BY <1>1, SourceFacts
  <2>3. \A k : Rank(k)' = RankOf(source \ {old}, k)
    BY <1>1 DEF Rank, RankOf
  <2>4. \A k : Rank(k)' \in Nat
    BY <2>1, <2>3, RankType
  <2> QED BY <1>1, <2>1, <2>2, <2>3, <2>4, RankOnDelete, RankGrows
<1>4. Paging'
  BY <1>1 DEF Paging
<1>5. ASSUME ~pulled', NEW k \in source, Behind(pos, k)'
      PROVE  Behind(pos, k)
  <2>1. ~(Rank(old) < Passed) /\ k \in Keys
    BY <1>1, <1>5 DEF FetchType
  <2>2. CASE config.type \in {"page", "offset"}
    <3>1. Passed \in Nat /\ (Behind(pos, k) <=> Rank(k) < Passed)
      BY <1>1, <2>2, PassedIs
    <3>2. Rank(k)' < Passed
      BY <1>1, <1>5, <2>2 DEF Behind, Passed
    <3>3. ~(old < k) \/ Rank(k) < Passed
      BY <1>1, <1>3, <2>1, <3>1, <3>2 DEF FetchType
    <3>4. ~(old < k) => Rank(k) = Rank(k)'
      BY <1>3, <2>1
    <3> QED BY <3>1, <3>2, <3>3, <3>4
  <2>3. CASE config.type \notin {"page", "offset"}
    BY <1>1, <1>5, <2>3 DEF Behind
  <2> QED BY <2>2, <2>3
<1>6. Held'
  BY <1>1, <1>5 DEF Held, Moves, EndIsSeen, FetchType
<1>7. ASSUME NEW k \in source, Behind(pos, k)
      PROVE  Behind(pos, k)'
  <2>1. Rank(k)' <= Rank(k) /\ Rank(k) \in Nat /\ Rank(k)' \in Nat
    BY <1>1, <1>3 DEF FetchType
  <2>2. CASE config.type \in {"page", "offset"}
    <3>1. Passed \in Nat /\ Rank(k) < Passed
      BY <1>1, <1>7, <2>2, PassedIs
    <3>2. Rank(k)' < Passed
      BY <2>1, <3>1
    <3> QED BY <1>1, <2>2, <3>2 DEF Behind, Passed
  <2>3. CASE config.type \notin {"page", "offset"}
    BY <1>1, <1>7, <2>3 DEF Behind
  <2> QED BY <2>2, <2>3
<1>8. Once'
  <2> SUFFICES ASSUME Moves, ~pushed', NEW k \in Keys
               PROVE  got[k] <= 1 /\ (got[k] >= 1 => k \in gone'
                                                     \/ (k \in source' /\ Behind(pos, k)'))
    BY <1>1 DEF Once, Moves
  <2>1. got[k] <= 1 /\ (got[k] >= 1 => k \in gone \/ (k \in source /\ Behind(pos, k)))
    BY <1>1 DEF Once
  <2> QED BY <1>1, <1>7, <2>1
<1> QED BY <1>1, <1>2, <1>4, <1>6, <1>8 DEF FetchInv, RowsFetchedOnce

-----------------------------------------------------------------------------
(* The fetch begins, or is given up.                                       *)

LEMMA BeginPreserves ==
  ASSUME FetchInv, BeginHTTP \/ BeginSOAP \/ BeginDatabase
  PROVE  FetchInv'
<1>1. /\ FetchType /\ Fresh /\ (config.input = "database" => junk = {})
      /\ UNCHANGED <<config, sourceVars, requests, count, got, cancelled>>
      /\ refreshes' \in 0 .. MaxOAuth2Retries
      /\ \/ pc' = "request" /\ pos' = Starts
         \/ pc' = "failed" /\ pos' = pos
  BY FetchAssumption DEF FetchInv, FetchType, BeginHTTP, BeginSOAP, BeginDatabase
<1>2. FetchType'
  BY <1>1 DEF FetchType, sourceVars, Starts
<1>3. CASE pc' = "failed"
  BY <1>1, <1>2, <1>3 DEF FetchInv, RowsFetchedOnce, sourceVars
<1>4. CASE pc' = "request" /\ pos' = Starts
  <2>1. /\ requests' = 0 /\ count' = 0 /\ got' = [k \in Keys |-> 0]
        /\ config' = config /\ source' = source
    BY <1>1 DEF Fresh, sourceVars
  <2>2. Paging'
    <3>1. 0 < MaxPages /\ config.limit \in Nat
      BY <1>1, FetchAssumption, ConfigIs DEF FetchType
    <3> QED BY <1>4, <2>1, <3>1 DEF Paging, Starts
  <2>3. \A k \in Keys : ~Behind(pos, k)'
    <3>1. \A k : Rank(k)' = Rank(k) /\ Rank(k) \in Nat
      BY <1>1, <2>1, SourceFacts DEF Rank
    <3>2. \A k \in Keys : k \in Nat \ {0}
      BY <1>1, SourceFacts
    <3>3. config.served \in Nat
      BY <1>1, ConfigIs DEF FetchType
    <3>4. CASE config.type = "page"
      <4>1. pos' = 1 /\ (1 - 1) * config.served = 0
        BY <1>4, <3>3, <3>4 DEF Starts
      <4> QED BY <2>1, <3>1, <3>4, <4>1 DEF Behind
    <3>5. CASE config.type # "page"
      <4>1. pos' = 0
        BY <1>4, <3>5 DEF Starts
      <4> QED BY <2>1, <3>1, <3>2, <3>5, <4>1 DEF Behind
    <3> QED BY <3>4, <3>5
  <2>4. Held'
    <3>1. stable' \subseteq Keys
      BY <1>2 DEF FetchType
    <3> QED BY <2>3, <3>1 DEF Held
  <2>5. Once'
    BY <2>1 DEF Once
  <2> QED BY <1>1, <1>2, <1>4, <2>2, <2>4, <2>5 DEF FetchInv, RowsFetchedOnce, sourceVars
<1> QED BY <1>1, <1>3, <1>4

(* What does not touch the pages: an error, another token, the end of ctx, *)
(* nothing.                                                                *)
LEMMA OthersPreserve ==
  ASSUME FetchInv,
         \/ RequestFails \/ RecordsRefused \/ Interrupted
         \/ HandleOAuth2Unauthorized \/ Cancel \/ UNCHANGED vars
  PROVE  FetchInv'
<1>1. /\ UNCHANGED <<config, sourceVars, pageVars>>
      /\ pc' \in {pc, "failed"} /\ refreshes' \in 0 .. MaxOAuth2Retries
      /\ cancelled' \in BOOLEAN
  <2>1. /\ refreshes \in 0 .. MaxOAuth2Retries /\ cancelled \in BOOLEAN
        /\ MaxOAuth2Retries \in Nat
    BY FetchAssumption DEF FetchInv, FetchType
  <2>2. CASE RequestFails \/ RecordsRefused \/ Interrupted
    BY <2>1, <2>2 DEF RequestFails, RecordsRefused, Interrupted, GiveUp
  <2>3. CASE HandleOAuth2Unauthorized
    BY <2>1, <2>3 DEF HandleOAuth2Unauthorized
  <2>4. CASE Cancel \/ UNCHANGED vars
    BY <2>1, <2>4 DEF Cancel, vars
  <2> QED BY <2>2, <2>3, <2>4
<1>2. FetchType'
  BY <1>1 DEF FetchInv, FetchType, sourceVars, pageVars
<1>3. \A k : Behind(pos, k)' <=> Behind(pos, k)
  BY <1>1 DEF Behind, Rank, sourceVars, pageVars
<1>4. /\ Paging => Paging'
      /\ Held => Held'
      /\ Once => Once'
      /\ Fresh => Fresh'
      /\ EndIsSeen' <=> EndIsSeen
      /\ Moves' <=> Moves
  BY <1>1, <1>3 DEF Paging, Held, Once, Fresh, EndIsSeen, Moves, sourceVars, pageVars
<1>5. pc' = "failed" => FetchInv'
  BY <1>1, <1>2 DEF FetchInv, RowsFetchedOnce, sourceVars
<1>6. pc' = pc => FetchInv'
  BY <1>1, <1>2, <1>4 DEF FetchInv, RowsFetchedOnce, sourceVars, pageVars
<1> QED BY <1>1, <1>5, <1>6

-----------------------------------------------------------------------------
(* One answer is read.                                                     *)

Page == RowsAt((pos - 1) * config.served, config.served)
Rows == RowsAt(pos, Least(config.limit, config.served))
After == RowsAfter(pos, Least(config.limit, config.served))

(* What is answered is in the source.                                      *)
LEMMA AnswerInSource ==
  ASSUME FetchType
  PROVE  Answer \subseteq source /\ Answer \in SUBSET Keys
<1>1. config.type \in {"single", "page", "offset", "cursor"}
  BY ConfigIs DEF FetchType
<1>2. Answer \subseteq source
  BY <1>1 DEF Answer, RowsAt, RowsAfter
<1> QED BY <1>2 DEF FetchType

(* ... and not behind, if the server is told of the request.               *)
LEMMA AnswerIs ==
  ASSUME FetchType, Paging, Moves
  PROVE  /\ \A k \in Answer : ~Behind(pos, k)
         /\ config.type = "single" => Answer = source
         /\ config.type = "page" => Answer = Page
         /\ config.type = "offset" => Answer = Rows
         /\ config.type = "cursor" => Answer = After
<1>1. config.type \in {"single", "page", "offset", "cursor"}
  BY ConfigIs DEF FetchType
<1>2. /\ config.type = "single" => Answer = source
      /\ config.type = "page" => Answer = Page
      /\ config.type = "offset" => Answer = Rows
      /\ config.type = "cursor" => Answer = After
  BY <1>1 DEF Answer, At, Page, Rows, After
<1>3. Answer \subseteq source
  BY AnswerInSource
<1>4. ASSUME NEW k \in Answer PROVE ~Behind(pos, k)
  <2>1. k \in Nat /\ pos \in Nat /\ Rank(k) \in Nat
    BY <1>3, <1>4, SourceFacts DEF FetchType
  <2>2. CASE config.type \in {"page", "offset"}
    <3>1. Passed \in Nat /\ (Behind(pos, k) <=> Rank(k) < Passed)
      BY <2>2, PassedIs
    <3>2. Passed <= Rank(k)
      BY <1>2, <1>4, <2>2 DEF Passed, Page, Rows, RowsAt
    <3> QED BY <2>1, <3>1, <3>2
  <2>3. CASE config.type = "cursor"
    <3>1. pos < k
      BY <1>2, <1>4, <2>3 DEF After, RowsAfter
    <3> QED BY <2>1, <2>3, <3>1, PassedIs
  <2>4. CASE config.type = "single"
    BY <2>4, PassedIs
  <2> QED BY <1>1, <2>2, <2>3, <2>4
<1> QED BY <1>2, <1>4

(* An answer whose rows are the next behind, and which is the last only    *)
(* when there are no others, keeps the invariant.                          *)
LEMMA ReadPreserves ==
  ASSUME FetchInv, pc = "request", AppendRecords(Answer \ junk),
         NEW next, NEW last, NEW capped, Go(next, last, capped),
         ~last => next \in Nat,
         ~last /\ Moves => \A k \in source : Behind(pos, k) \/ k \in Answer => Behind(next, k),
         ~last /\ Moves /\ EndIsSeen =>
            \A k \in source : Behind(next, k) => Behind(pos, k) \/ k \in Answer,
         last /\ Moves /\ EndIsSeen => \A k \in source : Behind(pos, k) \/ k \in Answer,
         pc' = "request" => Paging'
  PROVE  FetchInv'
<1> DEFINE rows == Answer \ junk
<1>1. /\ FetchType /\ Paging /\ Held /\ Once
      /\ Answer \subseteq source /\ (Moves => \A k \in Answer : ~Behind(pos, k))
      /\ rows \in SUBSET Keys
  BY AnswerIs, AnswerInSource DEF FetchInv
<1>2. /\ UNCHANGED <<config, sourceVars, refreshes, cancelled>>
      /\ requests' = Least(requests + 1, MaxPages + 1)
      /\ count' = Least(count + Cardinality(rows), MaxKey)
      /\ got' = [k \in Keys |-> IF k \in rows THEN Least(got[k] + 1, 2) ELSE got[k]]
      /\ pc' \in {"done", "capped", "request"}
      /\ pos' = (IF last THEN pos ELSE next)
      /\ last => pc' = "done"
      /\ pc' = "done" => last
  BY DEF AppendRecords, Go
<1> HIDE DEF rows
<1>3. got \in [Keys -> 0 .. 2] /\ got' \in [Keys -> 0 .. 2]
  <2>1. got \in [Keys -> 0 .. 2]
    BY <1>1 DEF FetchType
  <2>2. \A k \in Keys : Least(got[k] + 1, 2) \in 0 .. 2
    BY <2>1 DEF Least
  <2> QED BY <1>2, <2>1, <2>2
<1>4. \A k \in Keys : /\ k \in rows => got'[k] >= 1 /\ (got[k] = 0 => got'[k] = 1)
                      /\ k \notin rows => got'[k] = got[k]
                      /\ got'[k] >= got[k]
  <2> SUFFICES ASSUME NEW k \in Keys
               PROVE  /\ k \in rows => got'[k] >= 1 /\ (got[k] = 0 => got'[k] = 1)
                      /\ k \notin rows => got'[k] = got[k]
                      /\ got'[k] >= got[k]
    OBVIOUS
  <2>1. got[k] \in 0 .. 2 /\ got'[k] = IF k \in rows THEN Least(got[k] + 1, 2) ELSE got[k]
    BY <1>2, <1>3
  <2> QED BY <2>1 DEF Least
<1>5. FetchType'
  <2>1. requests' \in 0 .. MaxPages + 1 /\ (config.input # "database" => requests' <= MaxPages)
    BY <1>1, <1>2, FetchAssumption DEF FetchType, Paging, Least
  <2>2. count' \in 0 .. MaxKey
    BY <1>1, <1>2, KeysFinite, FetchAssumption DEF FetchType, Least
  <2>3. pos' \in Nat
    BY <1>1, <1>2 DEF FetchType
  <2> QED BY <1>1, <1>2, <1>3, <2>1, <2>2, <2>3 DEF FetchType, sourceVars
<1>6. ASSUME Moves, ~pushed, NEW k \in Keys
      PROVE  /\ got'[k] <= 1
             /\ got'[k] >= 1 => k \in gone \/ (k \in source /\ (Behind(pos, k) \/ k \in Answer))
  <2>1. got[k] <= 1 /\ (got[k] >= 1 => k \in gone \/ (k \in source /\ Behind(pos, k)))
    BY <1>1, <1>6 DEF Once
  <2>2. CASE k \in rows
    <3>1. k \in Answer /\ k \in source /\ k \notin gone /\ ~Behind(pos, k)
      BY <1>1, <1>6, <2>2 DEF FetchType, rows
    <3>2. got[k] = 0
      BY <1>3, <2>1, <3>1
    <3> QED BY <1>4, <2>2, <3>1, <3>2
  <2>3. CASE k \notin rows
    BY <1>4, <2>1, <2>3
  <2> QED BY <2>2, <2>3
<1>7. ASSUME Moves, EndIsSeen, ~pulled, NEW k \in stable \ junk, Behind(pos, k) \/ k \in Answer
      PROVE  got'[k] >= 1
  <2>1. k \in Keys
    BY <1>1, <1>7 DEF FetchType
  <2>2. CASE Behind(pos, k)
    <3>1. got[k] >= 1
      BY <1>1, <1>7, <2>2 DEF Held
    <3> QED BY <1>3, <1>4, <2>1, <3>1
  <2>3. CASE k \in Answer
    BY <1>4, <1>7, <2>1, <2>3 DEF rows
  <2> QED BY <1>7, <2>2, <2>3
<1>8. (EndIsSeen' <=> EndIsSeen) /\ (Moves' <=> Moves)
  BY <1>2 DEF EndIsSeen, Moves, sourceVars
<1>9. CASE pc' = "request"
  <2>1. ~last /\ pos' = next /\ Paging'
    BY <1>2, <1>9
  <2>2. \A k : Behind(pos, k)' <=> Behind(next, k)
    BY <1>2, <2>1 DEF Behind, Rank, sourceVars
  <2>3. Held'
    <3> SUFFICES ASSUME Moves, EndIsSeen, ~pulled, NEW k \in stable \ junk, Behind(next, k)
                 PROVE  got'[k] >= 1
      BY <1>2, <1>8, <2>2 DEF Held, sourceVars
    <3>1. Behind(pos, k) \/ k \in Answer
      BY <1>1, <2>1 DEF FetchType
    <3> QED BY <1>7, <3>1
  <2>4. Once'
    <3> SUFFICES ASSUME Moves, ~pushed, NEW k \in Keys
                 PROVE  /\ got'[k] <= 1
                        /\ got'[k] >= 1 => k \in gone \/ (k \in source /\ Behind(next, k))
      BY <1>2, <1>8, <2>2 DEF Once, sourceVars
    <3> QED BY <1>6, <2>1
  <2>5. config'.input = "database" => junk' = {}
    BY <1>2 DEF FetchInv, sourceVars
  <2> QED BY <1>5, <1>9, <2>1, <2>3, <2>4, <2>5 DEF FetchInv, RowsFetchedOnce
<1>10. CASE pc' # "request"
  <2>1. ASSUME Moves', pc' = "done", EndIsSeen', ~pulled', NEW k \in stable' \ junk'
        PROVE  got'[k] >= 1
    <3>1. k \in stable \ junk /\ Moves /\ EndIsSeen /\ ~pulled /\ k \in source /\ last
      BY <1>1, <1>2, <1>8, <2>1 DEF sourceVars, FetchType
    <3> QED BY <1>7, <3>1
  <2>2. ASSUME Moves', ~pushed', NEW k \in Keys
        PROVE  got'[k] <= 1
    BY <1>2, <1>6, <1>8, <2>2 DEF sourceVars
  <2>3. RowsFetchedOnce'
    BY <2>1, <2>2 DEF RowsFetchedOnce
  <2>4. config'.input = "database" => junk' = {}
    BY <1>2 DEF FetchInv, sourceVars
  <2> QED BY <1>2, <1>5, <1>10, <2>3, <2>4 DEF FetchInv
<1> QED BY <1>9, <1>10

-----------------------------------------------------------------------------
(* The ways of asking for pages.                                           *)

(* By offset: no more is read than was asked for.                          *)
LEMMA OffsetBounds ==
  ASSUME FetchInv, pc = "request", config.type = "offset"
  PROVE  /\ Cardinality(Answer \ junk) \in Nat
         /\ Cardinality(Answer \ junk) <= config.limit
<1> DEFINE n == Least(config.limit, config.served)
<1>1. /\ FetchType /\ pos \in Nat /\ config.limit \in Nat /\ n \in Nat /\ n <= config.limit
      /\ source \in SUBSET Keys
  <2>1. FetchType
    BY DEF FetchInv
  <2>2. config.limit \in Nat /\ config.served \in Nat
    BY <2>1, ConfigIs DEF FetchType
  <2> QED BY <2>1, <2>2, SourceFacts DEF FetchType, Least
<1>2. At \in Nat
  BY <1>1 DEF At, Starts
<1>3. Answer = {k \in source : At <= RankOf(source, k) /\ RankOf(source, k) < At + n}
  BY <1>1, SourceFacts DEF FetchInv, Answer, RowsAt
<1> HIDE DEF n
<1>4. Cardinality(Answer) \in Nat /\ Cardinality(Answer) <= n
  BY <1>1, <1>2, <1>3, RowsCount
<1>5. Answer \in SUBSET Keys /\ Answer \ junk \in SUBSET Answer
  BY <1>1, AnswerInSource
<1>6. Cardinality(Answer \ junk) <= Cardinality(Answer) /\ Cardinality(Answer \ junk) \in Nat
  BY <1>5, KeysFinite, FS_Subset
<1> QED BY <1>1, <1>4, <1>6

LEMMA OffsetReads ==
  ASSUME FetchInv, pc = "request", config.type = "offset", Moves
  PROVE  /\ \A k \in source : Behind(pos, k) \/ k \in Answer => Behind(pos + config.limit, k)
         /\ EndIsSeen => \A k \in source :
               Behind(pos + config.limit, k) => Behind(pos, k) \/ k \in Answer
         /\ EndIsSeen => junk = {}
         /\ EndIsSeen /\ (\/ Cardinality(Answer) < config.limit
                          \/ /\ config.input # "database"
                             /\ count + Cardinality(Answer) >= Cardinality(source)) =>
               \A k \in source : Behind(pos, k) \/ k \in Answer
<1> DEFINE n == Least(config.limit, config.served)  N == Cardinality(source)
<1>1. /\ FetchType /\ Paging /\ pos \in Nat /\ count \in Nat
      /\ config.input # "database" => count <= pos
      /\ config.limit \in Nat \ {0} /\ config.served \in Nat \ {0}
      /\ source \in SUBSET Keys
  <2>1. FetchType /\ Paging
    BY DEF FetchInv
  <2> QED BY <2>1, ConfigIs, SourceFacts DEF FetchType, Paging
<1>2. n \in Nat /\ n <= config.limit /\ (EndIsSeen => n = config.limit)
  BY <1>1 DEF Least, EndIsSeen
<1>3. /\ Answer = {k \in source : pos <= Rank(k) /\ Rank(k) < pos + n}
      /\ Answer = {k \in source : pos <= RankOf(source, k) /\ RankOf(source, k) < pos + n}
  BY <1>1, AnswerIs, SourceFacts DEF Rows, RowsAt
<1>4. \A k \in source : Rank(k) \in Nat /\ Rank(k) < N
  BY <1>1, SourceFacts
<1> HIDE DEF n
<1>5. /\ Cardinality(Answer) \in Nat /\ Cardinality(Answer) <= n
      /\ Cardinality(Answer) < n => N < pos + n
  BY <1>1, <1>2, <1>3, RowsCount
<1>6. \A p : \A k : Behind(p, k) <=> Rank(k) < p
  BY DEF Behind
<1>7. EndIsSeen /\ (Cardinality(Answer) < config.limit
                    \/ (config.input # "database" /\ count + Cardinality(Answer) >= N)) =>
          N <= pos + n
  BY <1>1, <1>2, <1>5, SourceFacts
<1>8. N <= pos + n => \A k \in source : Rank(k) < pos \/ k \in Answer
  BY <1>1, <1>2, <1>3, <1>4, SourceFacts
<1>9. \A k \in source : Rank(k) < pos \/ k \in Answer => Rank(k) < pos + config.limit
  BY <1>1, <1>2, <1>3, <1>4
<1>10. EndIsSeen => \A k \in source : Rank(k) < pos + config.limit => Rank(k) < pos \/ k \in Answer
  BY <1>1, <1>2, <1>3, <1>4
<1>11. EndIsSeen => junk = {}
  BY DEF EndIsSeen
<1> QED BY <1>1, <1>6, <1>7, <1>8, <1>9, <1>10, <1>11

(* A page limit counts offsets too. *)
LEMMA OffsetIsPaged ==
  ASSUME NEW m \in Nat \ {0}, NEW r \in Nat, NEW max \in Nat, r * m + m < max * m
  PROVE  r + 1 < max /\ r * m + m = (r + 1) * m
<1>1. r * m + m = (r + 1) * m /\ r * m \in Nat /\ max * m \in Nat
  OBVIOUS
<1>2. SUFFICES ASSUME ~(r + 1 < max) PROVE FALSE
  BY <1>1
<1>3. r + 1 - max \in Nat /\ (r + 1 - max) * m \in Nat
  BY <1>2
<1>4. (r + 1 - max) * m = (r + 1) * m - max * m
  OBVIOUS
<1> QED BY <1>1, <1>3, <1>4

(* As many pages as there are hold all rows. *)
LEMMA Quotient ==
  ASSUME NEW a \in Nat, NEW b \in Nat \ {0}
  PROVE  a \div b \in Nat /\ a < b * ((a \div b) + 1)
OBVIOUS

LEMMA PagesHoldAll ==
  ASSUME NEW rows \in Nat, NEW s \in Nat \ {0}, NEW p \in Nat, p >= (rows + s - 1) \div s
  PROVE  rows <= p * s
<1> DEFINE q == (rows + s - 1) \div s
<1>1. q \in Nat /\ rows + s - 1 < s * (q + 1) /\ p >= q
  <2>1. rows + s - 1 \in Nat
    OBVIOUS
  <2> QED BY <2>1, Quotient
<1> HIDE DEF q
<1>2. s * (q + 1) = s * q + s /\ s * q \in Nat /\ p * s \in Nat
  BY <1>1
<1>3. p - q \in Nat /\ (p - q) * s \in Nat
  BY <1>1
<1>4. (p - q) * s = p * s - s * q
  BY <1>1
<1> QED BY <1>1, <1>2, <1>3, <1>4

(* By page number.                                                         *)
LEMMA PageReads ==
  ASSUME FetchInv, pc = "request", config.type = "page", Moves
  PROVE  /\ \A k \in source : Behind(pos, k) \/ k \in Answer <=> Behind(pos + 1, k)
         /\ EndIsSeen /\ PageLast(Answer \ junk) =>
               \A k \in source : Behind(pos, k) \/ k \in Answer
<1> DEFINE s == config.served  off == (pos - 1) * s  N == Cardinality(source)
<1>1. /\ FetchType /\ Paging /\ pos \in Nat \ {0} /\ s \in Nat \ {0}
      /\ source \in SUBSET Keys /\ N \in Nat /\ \A k \in source : Rank(k) \in Nat /\ Rank(k) < N
  <2>1. FetchType /\ Paging
    BY DEF FetchInv
  <2> QED BY <2>1, ConfigIs, SourceFacts DEF FetchType, Paging
<1>2. off \in Nat /\ pos * s = off + s
  BY <1>1
<1>3. \A k : (Behind(pos, k) <=> Rank(k) < off) /\ (Behind(pos + 1, k) <=> Rank(k) < off + s)
  <2>1. \A p, k : Behind(p, k) <=> Rank(k) < (p - 1) * s
    BY Zenon DEF Behind
  <2>2. pos * s = off + s
    BY <1>2
  <2>3. \A k : Behind(pos, k) <=> Rank(k) < off
    BY <2>1, Zenon
  <2>4. ASSUME NEW p, p = pos + 1
        PROVE  \A k : Behind(p, k) <=> Rank(k) < off + s
    <3>1. p - 1 = pos
      BY <1>1, <2>4
    <3>2. (p - 1) * s = pos * s
      BY <3>1, Zenon
    <3>3. (p - 1) * s = off + s
      BY <2>2, <3>2, Zenon
    <3> QED BY <2>1, <3>3, Zenon
  <2>5. \A k : Behind(pos + 1, k) <=> Rank(k) < off + s
    BY <2>4, Zenon
  <2> QED BY <2>3, <2>5, Zenon
<1>4. /\ Answer = {k \in source : off <= Rank(k) /\ Rank(k) < off + s}
      /\ Answer = {k \in source : off <= RankOf(source, k) /\ RankOf(source, k) < off + s}
  BY <1>1, AnswerIs, SourceFacts DEF Page, RowsAt
<1>5. EndIsSeen /\ PageLast(Answer \ junk) => Answer = {} \/ pos >= (N + s - 1) \div s
  BY <1>1 DEF EndIsSeen, PageLast, ExtractTotalPages, PagesOf
<1>6. pos >= (N + s - 1) \div s => N <= pos * s
  BY <1>1, PagesHoldAll
<1> HIDE DEF off
<1>7. Answer = {} => N <= off + s
  <2>1. Cardinality(Answer) < s => N < off + s
    BY <1>1, <1>2, <1>4, RowsCount
  <2>2. Cardinality({}) = 0
    BY FS_EmptySet
  <2> QED BY <1>1, <1>2, <2>1, <2>2
<1>8. N <= off + s => \A k \in source : Rank(k) < off \/ k \in Answer
  BY <1>1, <1>2, <1>4
<1>9. \A k \in source : Rank(k) < off \/ k \in Answer <=> Rank(k) < off + s
  BY <1>1, <1>2, <1>4
<1> QED BY <1>1, <1>2, <1>3, <1>5, <1>6, <1>7, <1>8, <1>9

(* By cursor.                                                              *)
LEMMA RowsAfterRank ==
  ASSUME FetchType, NEW p \in Nat, NEW n \in Nat
  PROVE  /\ \A k \in source : p < k <=> RankOf(source, p + 1) <= Rank(k)
         /\ RowsAfter(p, n) = {k \in source : /\ RankOf(source, p + 1) <= RankOf(source, k)
                                              /\ RankOf(source, k) < RankOf(source, p + 1) + n}
<1> DEFINE c == RankOf(source, p + 1)
<1>1. source \in SUBSET Keys /\ source \subseteq Nat /\ c \in Nat
  BY SourceFacts, RankType
<1>2. \A k : Rank(k) = RankOf(source, k) /\ Rank(k) \in Nat
  BY SourceFacts
<1>3. ASSUME NEW k \in source
      PROVE  p < k <=> c <= Rank(k)
  <2>1. k \in Nat /\ k \in source
    BY <1>1
  <2>2. CASE p < k
    <3>1. p + 1 = k \/ p + 1 < k
      BY <2>1, <2>2
    <3>2. p + 1 < k => c <= RankOf(source, k)
      BY <1>1, <2>1, RankGrows
    <3> QED BY <1>2, <2>2, <3>1, <3>2
  <2>3. CASE ~(p < k)
    <3>1. k < p + 1
      BY <2>1, <2>3
    <3>2. RankOf(source, k) < c
      BY <1>1, <2>1, <3>1, RankGrows
    <3> QED BY <1>1, <1>2, <2>3, <3>2
  <2> QED BY <2>2, <2>3
<1>4. Cardinality({j \in source : j <= p}) = c
  <2>1. \A j \in source : j <= p <=> j < p + 1
    BY <1>1
  <2>2. {j \in source : j <= p} = {j \in source : j < p + 1}
    BY <2>1
  <2> QED BY <2>2 DEF RankOf
<1>5. RowsAfter(p, n) = {k \in source : p < k /\ Rank(k) < n + c}
  BY <1>4 DEF RowsAfter
<1> HIDE DEF c
<1>6. \A k \in source : p < k /\ Rank(k) < n + c <=> c <= RankOf(source, k) /\ RankOf(source, k) < c + n
  BY <1>1, <1>2, <1>3
<1>7. RowsAfter(p, n) = {k \in source : c <= RankOf(source, k) /\ RankOf(source, k) < c + n}
  BY <1>5, <1>6
<1> QED BY <1>3, <1>7 DEF c

(* An answer that holds fewer rows than there may be holds all there are.  *)
LEMMA FewRowsAfter ==
  ASSUME FetchType, NEW p \in Nat, NEW n \in Nat, Cardinality(RowsAfter(p, n)) < n
  PROVE  \A k \in source : p < k => k \in RowsAfter(p, n)
<1> DEFINE c == RankOf(source, p + 1)  N == Cardinality(source)
<1>1. source \in SUBSET Keys /\ c \in Nat /\ N \in Nat
      /\ \A k \in source : Rank(k) = RankOf(source, k) /\ Rank(k) \in Nat /\ Rank(k) < N
  BY SourceFacts, RankType
<1>2. /\ \A k \in source : p < k <=> c <= Rank(k)
      /\ RowsAfter(p, n) = {k \in source : c <= RankOf(source, k) /\ RankOf(source, k) < c + n}
  BY RowsAfterRank
<1> HIDE DEF c
<1>3. N < c + n
  BY <1>1, <1>2, RowsCount
<1> QED BY <1>1, <1>2, <1>3

LEMMA CursorReads ==
  ASSUME FetchInv, pc = "request", config.type = "cursor", Moves
  PROVE  /\ Answer # {} => /\ LastKey(Answer) \in Nat \ {0}
                           /\ \A k \in source : Behind(pos, k) \/ k \in Answer
                                                  <=> Behind(LastKey(Answer), k)
                           /\ RowsAfter(LastKey(Answer), 1) = {} =>
                                 \A k \in source : Behind(pos, k) \/ k \in Answer
         /\ Answer = {} => \A k \in source : Behind(pos, k)
         /\ config.input = "database" /\ EndIsSeen /\ Cardinality(Answer) < config.limit =>
               \A k \in source : Behind(pos, k) \/ k \in Answer
<1> DEFINE n == Least(config.limit, config.served)  last == LastKey(Answer)
<1>1. /\ FetchType /\ pos \in Nat /\ n \in Nat \ {0} /\ source \in SUBSET Keys
      /\ source \subseteq Nat \ {0}
      /\ config.input = "database" /\ EndIsSeen => n = config.limit
  <2>1. FetchType
    BY DEF FetchInv
  <2>2. config.limit \in Nat \ {0} /\ config.served \in Nat \ {0}
    BY <2>1, ConfigIs DEF FetchType
  <2>3. n \in Nat \ {0} /\ (config.input = "database" /\ EndIsSeen => n = config.limit)
    BY <2>2 DEF Least, EndIsSeen
  <2> QED BY <2>1, <2>3, SourceFacts DEF FetchType
<1>2. \A p : \A k : Behind(p, k) <=> k <= p
  BY DEF Behind
<1>3. /\ Answer = RowsAfter(pos, n) /\ Answer \subseteq source /\ Answer \in SUBSET Keys
      /\ \A k \in Answer : pos < k
  BY <1>1, AnswerIs, AnswerInSource DEF FetchInv, After, RowsAfter
<1>4. \A k \in source : k <= pos \/ pos < k
  BY <1>1
<1>5. ASSUME Cardinality(Answer) < n
      PROVE  \A k \in source : Behind(pos, k) \/ k \in Answer
  <2>1. \A k \in source : pos < k => k \in Answer
    BY <1>1, <1>3, <1>5, FewRowsAfter
  <2> QED BY <1>2, <1>4, <2>1
<1>6. ASSUME Answer = {}
      PROVE  \A k \in source : Behind(pos, k)
  <2>1. Cardinality(Answer) = 0
    BY <1>6, FS_EmptySet
  <2> QED BY <1>1, <1>5, <1>6, <2>1
<1>7. ASSUME Answer # {}
      PROVE  /\ LastKey(Answer) \in Nat \ {0}
             /\ \A k \in source : Behind(pos, k) \/ k \in Answer <=> Behind(LastKey(Answer), k)
             /\ RowsAfter(LastKey(Answer), 1) = {} =>
                   \A k \in source : Behind(pos, k) \/ k \in Answer
  <2>1. last \in Answer /\ \A j \in Answer : j <= last
    BY <1>3, <1>7, LastKeyIs
  <2>2. last \in source /\ last \in Nat \ {0} /\ pos < last
    BY <1>1, <1>3, <2>1
  <2> HIDE DEF last
  <2>3. ASSUME NEW k \in source
        PROVE  k <= pos \/ k \in Answer <=> k <= last
    <3>1. k \in Nat
      BY <1>1
    <3>2. k <= pos \/ k \in Answer => k <= last
      BY <1>1, <2>1, <2>2, <3>1
    <3>3. ASSUME k <= last, pos < k PROVE k \in Answer
      <4> DEFINE c == RankOf(source, pos + 1)
      <4>1. /\ \A m \in source : pos < m <=> c <= Rank(m)
            /\ Answer = {m \in source : c <= RankOf(source, m) /\ RankOf(source, m) < c + n}
        BY <1>1, <1>3, RowsAfterRank
      <4>2. \A m : Rank(m) = RankOf(source, m) /\ Rank(m) \in Nat
        BY <1>1, SourceFacts
      <4>3. RankOf(source, last) < c + n /\ c \in Nat
        BY <1>1, <2>1, <4>1, RankType
      <4>4. RankOf(source, k) <= RankOf(source, last)
        <5>1. k < last => RankOf(source, k) <= RankOf(source, last)
          BY <1>1, <2>2, <3>1, RankGrows
        <5>2. k = last \/ k < last
          BY <2>2, <3>1, <3>3
        <5> QED BY <4>2, <5>1, <5>2
      <4> HIDE DEF c
      <4> QED BY <1>1, <3>3, <4>1, <4>2, <4>3, <4>4
    <3> QED BY <1>1, <3>1, <3>2, <3>3
  <2>4. ASSUME RowsAfter(last, 1) = {}, NEW k \in source
        PROVE  k <= last
    <3>1. Cardinality(RowsAfter(last, 1)) < 1
      BY <2>4, FS_EmptySet
    <3>2. last < k => k \in RowsAfter(last, 1)
      BY <1>1, <2>2, <3>1, FewRowsAfter
    <3> QED BY <1>1, <2>2, <2>4, <3>2
  <2> QED BY <1>2, <2>2, <2>3, <2>4 DEF last
<1> QED BY <1>1, <1>5, <1>6, <1>7

-----------------------------------------------------------------------------
(* Every answer.                                                           *)

(* SOAP and the database read what HTTP reads: the objects of the answer.  *)
LEMMA ObjectsRead ==
  ASSUME FetchInv
  PROVE  /\ ConvertToRecords(Answer) = Answer \ junk
         /\ ValueAsRecords(Answer) => Answer = Answer \ junk /\ Answer # {}
         /\ config.input = "database" => RowsToRecords(Answer) = Answer \ junk
BY DEF FetchInv, ConvertToRecords, ValueAsRecords, RowsToRecords

(* An answer without pages. *)
LEMMA SinglePreserves ==
  ASSUME FetchInv, HTTPSingle \/ SOAPSingle \/ DatabaseSingle
  PROVE  FetchInv'
<1>1. /\ pc = "request" /\ config.type = "single"
      /\ AppendRecords(Answer \ junk) /\ Go(pos, TRUE, FALSE)
  BY ObjectsRead DEF HTTPSingle, SOAPSingle, DatabaseSingle, Reads
<1>2. Moves /\ Answer = source
  BY <1>1, AnswerIs DEF FetchInv, Moves
<1>3. pc' = "done"
  BY <1>1 DEF Go
<1> QED BY <1>1, <1>2, <1>3, ReadPreserves

(* Pages by number. *)
LEMMA PagePreserves ==
  ASSUME FetchInv, HTTPPage \/ SOAPPage
  PROVE  FetchInv'
<1> DEFINE rows == Answer \ junk
<1>1. /\ pc = "request" /\ config.type = "page" /\ config.input # "database"
      /\ AppendRecords(rows) /\ Go(pos + 1, PageLast(rows), PageCapped)
  BY ObjectsRead DEF HTTPPage, SOAPPage, Reads
<1>2. ASSUME pc' = "request" PROVE Paging'
  <2>1. /\ requests' = Least(requests + 1, MaxPages + 1) /\ UNCHANGED config
        /\ pos' = pos + 1 /\ ~(pos + 1 > MaxPages)
    BY <1>1, <1>2 DEF AppendRecords, Go, PageCapped
  <2>2. pos = requests + 1 /\ requests \in Nat /\ MaxPages \in Nat
    BY <1>1, FetchAssumption DEF FetchInv, Paging, FetchType
  <2>3. requests' = requests + 1 /\ requests' < MaxPages /\ pos' = requests' + 1 /\ pos' # 0
    BY <2>1, <2>2 DEF Least
  <2> QED BY <1>1, <2>1, <2>3 DEF Paging
<1>3. pos + 1 \in Nat
  BY DEF FetchInv, FetchType
<1> QED BY <1>1, <1>2, <1>3, PageReads, ReadPreserves

(* Pages by offset. *)
LEMMA OffsetPreserves ==
  ASSUME FetchInv, HTTPOffset \/ SOAPOffset \/ DatabaseOffset
  PROVE  FetchInv'
<1> DEFINE rows == Answer \ junk  next == pos + config.limit
<1>1. /\ pc = "request" /\ config.type = "offset" /\ AppendRecords(rows)
      /\ \/ config.input # "database" /\ Go(next, OffsetLast(rows), OffsetCapped)
         \/ config.input = "database" /\ Go(Onward(next), Cardinality(rows) < config.limit, FALSE)
  BY ObjectsRead DEF HTTPOffset, SOAPOffset, DatabaseOffset, Reads
<1>2. /\ pos \in Nat /\ count \in Nat /\ config.limit \in Nat \ {0}
      /\ requests \in Nat /\ MaxPages \in Nat /\ MaxKey \in Nat /\ Cardinality(rows) \in Nat
      /\ Cardinality(rows) <= config.limit
      /\ config.input # "database" =>
            pos = requests * config.limit /\ requests < MaxPages /\ count <= pos
  BY <1>1, OffsetBounds, ConfigIs, FetchAssumption DEF FetchInv, FetchType, Paging
<1>3. ASSUME pc' = "request" PROVE Paging'
  <2>1. /\ requests' = Least(requests + 1, MaxPages + 1) /\ UNCHANGED config
        /\ count' = Least(count + Cardinality(rows), MaxKey)
        /\ config.input # "database" => pos' = next /\ ~(next >= MaxPages * config.limit)
    BY <1>1, <1>3 DEF AppendRecords, Go, OffsetCapped
  <2>2. config.input # "database" => count' <= pos'
    BY <1>2, <2>1 DEF Least
  <2>3. ASSUME config.input # "database"
        PROVE  requests' < MaxPages /\ pos' = requests' * config.limit
    <3>1. /\ pos = requests * config.limit
          /\ requests * config.limit + config.limit < MaxPages * config.limit
      <4>1. MaxPages * config.limit \in Nat
        BY <1>2
      <4> QED BY <1>2, <2>1, <2>3, <4>1
    <3>2. requests + 1 < MaxPages
          /\ requests * config.limit + config.limit = (requests + 1) * config.limit
      BY <1>2, <3>1, OffsetIsPaged
    <3>3. requests' = requests + 1
      BY <1>2, <2>1, <3>2 DEF Least
    <3> QED BY <2>1, <2>3, <3>1, <3>2, <3>3
  <2> QED BY <1>1, <2>1, <2>2, <2>3 DEF Paging
<1>4. Moves /\ EndIsSeen => rows = Answer
  BY <1>1, OffsetReads
<1>5. OffsetLast(rows) => \/ Cardinality(rows) < config.limit
                          \/ count + Cardinality(rows) >= Cardinality(source)
  BY DEF OffsetLast, ExtractTotal
<1>6. /\ next \in Nat /\ Onward(next) \in Nat /\ (Moves => Onward(next) = next)
      /\ Moves => \A k \in source : Behind(pos, k) \/ k \in Answer => Behind(next, k)
      /\ Moves /\ EndIsSeen =>
            \A k \in source : Behind(next, k) => Behind(pos, k) \/ k \in Answer
      /\ Moves /\ EndIsSeen /\ Cardinality(rows) < config.limit =>
            \A k \in source : Behind(pos, k) \/ k \in Answer
      /\ Moves /\ EndIsSeen /\ OffsetLast(rows) /\ config.input # "database" =>
            \A k \in source : Behind(pos, k) \/ k \in Answer
  <2>1. next \in Nat /\ Onward(next) \in Nat /\ (Moves => Onward(next) = next)
    BY <1>2 DEF Onward
  <2> QED BY <1>1, <1>4, <1>5, <2>1, OffsetReads
<1>7. AppendRecords(Answer \ junk)
  BY <1>1
<1> HIDE DEF rows, next
<1>8. CASE config.input # "database" /\ Go(next, OffsetLast(rows), OffsetCapped)
  BY <1>1, <1>3, <1>6, <1>7, <1>8, ReadPreserves
<1>9. CASE Go(Onward(next), Cardinality(rows) < config.limit, FALSE)
  <2> DEFINE last == Cardinality(rows) < config.limit  to == Onward(next)
  <2>1. Go(to, last, FALSE)
        /\ (last /\ Moves /\ EndIsSeen => \A k \in source : Behind(pos, k) \/ k \in Answer)
    BY <1>6, <1>9
  <2>2. to \in Nat /\ (Moves => to = next)
    BY <1>6
  <2> HIDE DEF last, to
  <2> QED BY <1>1, <1>3, <1>6, <1>7, <2>1, <2>2, ReadPreserves
<1> QED BY <1>1, <1>8, <1>9

(* Pages by cursor. *)
LEMMA CursorPreserves ==
  ASSUME FetchInv, HTTPCursor \/ SOAPCursor \/ DatabaseCursor
  PROVE  FetchInv'
<1> DEFINE rows == Answer \ junk
<1>1. /\ pc = "request" /\ config.type = "cursor" /\ AppendRecords(rows)
      /\ \/ /\ config.input # "database"
            /\ \E next \in NextCursors(Answer) : Go(next, next = 0, CursorCapped)
         \/ /\ config.input = "database" /\ rows = Answer
            /\ Go(Onward(LastKey(Answer)), Cardinality(Answer) < config.limit, FALSE)
  <2>1. ASSUME HTTPCursor
        PROVE  /\ pc = "request" /\ config.type = "cursor" /\ AppendRecords(rows)
               /\ config.input # "database"
               /\ \E next \in NextCursors(Answer) : Go(next, next = 0, CursorCapped)
    BY <2>1, ObjectsRead DEF HTTPCursor, Reads
  <2>2. ASSUME SOAPCursor
        PROVE  /\ pc = "request" /\ config.type = "cursor" /\ AppendRecords(rows)
               /\ config.input # "database"
               /\ \E next \in NextCursors(Answer) : Go(next, next = 0, CursorCapped)
    <3>1. Answer = rows
      BY <2>2, ObjectsRead DEF SOAPCursor
    <3>2. AppendRecords(Answer)
      BY <2>2 DEF SOAPCursor
    <3> HIDE DEF rows
    <3>3. AppendRecords(rows)
      BY <3>1, <3>2
    <3> QED BY <2>2, <3>3 DEF SOAPCursor, Reads
  <2>3. ASSUME DatabaseCursor
        PROVE  /\ pc = "request" /\ config.type = "cursor" /\ AppendRecords(rows)
               /\ config.input = "database" /\ rows = Answer
               /\ Go(Onward(LastKey(Answer)), Cardinality(Answer) < config.limit, FALSE)
    <3>1. config.input = "database" /\ pc = "request" /\ config.type = "cursor"
      BY <2>3 DEF DatabaseCursor, Reads
    <3>2. RowsToRecords(Answer) = Answer /\ Answer = rows
      BY <3>1, ObjectsRead DEF RowsToRecords
    <3>3. /\ AppendRecords(RowsToRecords(Answer))
          /\ Go(Onward(LastKey(RowsToRecords(Answer))),
                Cardinality(RowsToRecords(Answer)) < config.limit, FALSE)
      BY <2>3 DEF DatabaseCursor
    <3> HIDE DEF rows
    <3>4. AppendRecords(Answer) /\ Go(Onward(LastKey(Answer)), Cardinality(Answer) < config.limit, FALSE)
      BY <3>2, <3>3
    <3>5. AppendRecords(rows)
      BY <3>2, <3>4
    <3> QED BY <3>1, <3>2, <3>4, <3>5
  <2> QED BY <2>1, <2>2, <2>3
<1>2. Answer # {} => LastKey(Answer) \in Nat \ {0}
  <2>1. Answer \in SUBSET Keys /\ Keys \subseteq Nat \ {0}
    BY AnswerInSource, SourceFacts DEF FetchInv
  <2> QED BY <2>1, LastKeyIs
<1>3. CASE /\ config.input # "database"
           /\ \E next \in NextCursors(Answer) : Go(next, next = 0, CursorCapped)
  <2>1. PICK next \in NextCursors(Answer) : Go(next, next = 0, CursorCapped)
    BY <1>3
  <2>2. ASSUME pc' = "request" PROVE Paging'
    <3>1. /\ requests' = Least(requests + 1, MaxPages + 1) /\ UNCHANGED config
          /\ ~(requests + 1 >= MaxPages)
      BY <1>1, <2>1, <2>2 DEF AppendRecords, Go, CursorCapped
    <3>2. requests \in Nat /\ MaxPages \in Nat
      BY FetchAssumption DEF FetchInv, FetchType
    <3> QED BY <1>1, <3>1, <3>2 DEF Paging, Least
  <2>3. next # 0 => Answer # {} /\ next = LastKey(Answer)
    BY DEF NextCursors
  <2>4. next = 0 => Answer = {} \/ RowsAfter(LastKey(Answer), 1) = {}
    BY <1>2 DEF NextCursors
  <2>5. next \in Nat
    BY <1>2 DEF NextCursors
  <2> QED BY <1>1, <2>1, <2>2, <2>3, <2>4, <2>5, CursorReads, ReadPreserves
<1>4. CASE /\ config.input = "database" /\ rows = Answer
           /\ Go(Onward(LastKey(Answer)), Cardinality(Answer) < config.limit, FALSE)
  <2> DEFINE to == Onward(LastKey(Answer))  last == Cardinality(Answer) < config.limit
  <2>1. pc' = "request" => Paging'
    BY <1>1, <1>4 DEF Paging, AppendRecords
  <2>2. Answer = {} => last
    <3>1. config.limit \in Nat \ {0}
      BY ConfigIs DEF FetchInv, FetchType
    <3> QED BY <3>1, FS_EmptySet
  <2>3. Go(to, last, FALSE) /\ AppendRecords(Answer \ junk)
    BY <1>1, <1>4
  <2>4. ~last => to \in Nat /\ (Moves => to = LastKey(Answer))
    BY <1>2, <2>2 DEF Onward, FetchInv, FetchType
  <2>5. ~last /\ Moves => \A k \in source : Behind(pos, k) \/ k \in Answer <=> Behind(to, k)
    BY <1>1, <2>2, <2>4, CursorReads
  <2>6. last /\ Moves /\ EndIsSeen => \A k \in source : Behind(pos, k) \/ k \in Answer
    BY <1>1, <1>4, CursorReads
  <2> HIDE DEF to, last
  <2> QED BY <1>1, <2>1, <2>3, <2>4, <2>5, <2>6, ReadPreserves
<1> QED BY <1>1, <1>3, <1>4

-----------------------------------------------------------------------------
(* The fetch.                                                              *)

LEMMA InitFetch == FetchInit => FetchInv
<1> SUFFICES ASSUME FetchInit PROVE FetchInv
  OBVIOUS
<1>1. FetchType
  <2>1. junk \subseteq source /\ source \subseteq Keys
    BY DEF FetchInit
  <2>2. junk \subseteq Keys /\ source \subseteq Keys /\ stable \subseteq source /\ stable \subseteq Keys
    BY <2>1 DEF FetchInit
  <2>3. gone = {} /\ gone \subseteq Keys /\ source \cap gone = {}
    BY DEF FetchInit
  <2>4. /\ changes \in 0 .. MaxChanges /\ pos \in Nat /\ requests \in 0 .. MaxPages + 1
        /\ requests <= MaxPages /\ count \in 0 .. MaxKey /\ refreshes \in 0 .. MaxOAuth2Retries
    BY FetchAssumption DEF FetchInit
  <2>5. got \in [Keys -> 0 .. 2]
    BY DEF FetchInit
  <2>6. /\ config \in Configs /\ cancelled \in BOOLEAN /\ pushed \in BOOLEAN /\ pulled \in BOOLEAN
        /\ pc \in {"idle", "request", "done", "capped", "failed"}
    BY DEF FetchInit
  <2> QED BY <2>2, <2>3, <2>4, <2>5, <2>6, Zenon DEF FetchType
<1> QED BY <1>1 DEF FetchInit, FetchInv, Fresh, RowsFetchedOnce

LEMMA NextFetch == FetchInv /\ [FetchNext]_vars => FetchInv'
BY BeginPreserves, InsertPreserves, DeletePreserves, OthersPreserve,
   SinglePreserves, PagePreserves, OffsetPreserves, CursorPreserves
   DEF FetchNext, FetchStep, HTTPFetch, SOAPFetch, DatabaseFetch

LEMMA AlwaysFetch == FetchSpec => []FetchInv
BY InitFetch, NextFetch, PTL DEF FetchSpec

(* An HTTP or SOAP fetch reads no more pages than maxPaginationPages, and  *)
(* asks for a new token no more often than MaxOAuth2Retries, however many  *)
(* pages it reads (fetchPageBased, fetchOffsetBased, fetchCursorBased,     *)
(* handleOAuth2Unauthorized).                                              *)
THEOREM FetchTyped == FetchSpec => []FetchType
<1>1. FetchInv => FetchType
  BY DEF FetchInv
<1> QED BY <1>1, AlwaysFetch, PTL

(* A fetch that read to the end holds every row that was there all the     *)
(* time, and a fetch that returns holds no row twice, unless a row was     *)
(* deleted or inserted among those it had passed by number, or the page,   *)
(* the offset or the cursor does not reach the server (fetchPageBased,     *)
(* fetchOffsetBased, fetchCursorBased, fetchLimitOffset, fetchCursor).     *)
THEOREM FetchedOnce == FetchSpec => []RowsFetchedOnce
<1>1. FetchInv => RowsFetchedOnce
  BY DEF FetchInv
<1> QED BY <1>1, AlwaysFetch, PTL
=============================================================================
