--------------------------- MODULE DeliveryProofs ---------------------------
(***************************************************************************)
(* Theorems about one execution, for every batch, every pipeline, every    *)
(* depth of nesting and every output module: _metadata.loop names the      *)
(* loops whose item is in scope (LoopScope), failed records are noticed    *)
(* (FailuresNoticed), the destination holds what Send may leave there      *)
(* (DestinationHolds) and the result says so (ResultHonest).               *)
(*                                                                         *)
(* LoopScope has an invariant of its own, ScopeInv: a loop that takes its  *)
(* alias out must not take out another's, so that loops in scope have      *)
(* different aliases; and an error finds each caller inside its nested     *)
(* filters, where its alias is in scope.                                   *)
(*                                                                         *)
(* The other theorems share DeliveryInv.  Its core says of the chain of    *)
(* calls where the records are: what a call has given out, followed by     *)
(* what it still has to do, is what it was given, in order; what a         *)
(* condition handed down is with its callee; and the records that may      *)
(* still come out of the stage are followed separately from those that     *)
(* can no longer, which no marker need show.  Of the output stage it says  *)
(* what SendInv says of Send, between two units.                           *)
(***************************************************************************)
EXTENDS Delivery, FiniteSetTheorems, SequenceTheorems, TLAPS

-----------------------------------------------------------------------------
(* What Send of an output module keeps true from unit to unit, for every   *)
(* batch, batch size, error policy, number of attempts, and any failures,  *)
(* lost answers, cancellation or close in between.                         *)
(*                                                                         *)
(* The batch is cut at multiples of the unit size.  Of the records before  *)
(* the unit at hand everything is settled; behind it the destination has   *)
(* nothing; and in between it has at most what the attempts so far carried.*)

(* The batch as a function of the output and the records, so that a step   *)
(* that leaves both alone leaves it alone.                                 *)
SizeOf(o, s) == IF o.single THEN 1 ELSE IF o.size = 0 THEN Len(s) ELSE o.size

UnitOf(o, s, u) == {s[i] : i \in {j \in 1 .. Len(s) : /\ (u - 1) * SizeOf(o, s) < j
                                                      /\ j <= u * SizeOf(o, s)}}

BeforeOf(o, s, u) == {s[i] : i \in {j \in 1 .. Len(s) : j <= (u - 1) * SizeOf(o, s)}}

MoreOf(o, s, u) == (u - 1) * SizeOf(o, s) < Len(s)

(* What a request or a statement carries of unit u, and of the first n.    *)
FirstIn(o, s, u) == {s[i] : i \in DOMAIN s \cap {(u - 1) * SizeOf(o, s) + 1}}

CarriedOf(o, s, u) ==
    LET inBody == CASE o.body = "template" -> FirstIn(o, s, u)
                    [] o.body = "records"  -> UnitOf(o, s, u)
                    [] OTHER -> {}
        inUrl  == CASE ~o.named -> {}
                    [] o.single -> UnitOf(o, s, u)
                    [] OTHER -> FirstIn(o, s, u)
    IN  CASE o.kind # "http" -> UnitOf(o, s, u)
          [] o.single -> IF o.body = "none" THEN inUrl ELSE UnitOf(o, s, u)
          [] OTHER -> inBody \cup inUrl

HeldOf(o, s, n) == UNION {CarriedOf(o, s, v) : v \in 1 .. n}

PartOf(o) == /\ o.kind = "http"
             /\ IF o.single THEN o.body = "none" /\ ~o.named ELSE o.body # "records"

TakenOf(rec) == {r \in Ids : rec[r] > 0}

(* No record is in the batch twice.                                        *)
Distinct(s) == \A i, j \in DOMAIN s : s[i] = s[j] => i = j

-----------------------------------------------------------------------------
(* Units.                                                                  *)

(* An output module as its constructor makes it.                           *)
LEMMA ConfigFacts ==
  ASSUME NEW o \in OutputConfigs
  PROVE  /\ o \in OutputConfig /\ o.attempts \in Nat \ {0} /\ o.size \in Nat
         /\ o.tx => o.kind = "database"
         /\ o.kind = "database" => o.single /\ o.attempts = 1
         /\ o # NoOutput
<1>1. o \in OutputConfig /\ WellFormed(o)
  BY OutputsAssumption
<1>2. o.kind \in {"http", "soap", "database"} /\ o.attempts \in Nat \ {0} /\ o.size \in Nat
  BY <1>1 DEF OutputConfig
<1>3. o # NoOutput
  BY <1>2 DEF NoOutput
<1> QED BY <1>1, <1>2, <1>3
        DEF WellFormed, NewHTTPRequest, NewSOAPRequest, NewDatabaseOutput

(* The unit size is a natural number.                                      *)
LEMMA SizeType ==
  ASSUME NEW o \in OutputConfigs, NEW s \in Seq(Ids)
  PROVE  SizeOf(o, s) \in Nat
BY ConfigFacts DEF SizeOf

(* The end of a unit is the beginning of the next.                         *)
LEMMA UnitEnds ==
  ASSUME NEW n \in Nat, NEW u \in Nat \ {0}
  PROVE  /\ (u - 1) * n \in Nat /\ u * n \in Nat
         /\ ((u + 1) - 1) * n = u * n
         /\ (u - 1) * n <= u * n
         /\ u * n = (u - 1) * n + n
<1>1. u - 1 \in Nat
  OBVIOUS
<1>2. \A v \in Nat : v * n \in Nat /\ (v + 1) * n = v * n + n
  OBVIOUS
<1>3. u * n = (u - 1) * n + n
  BY <1>1, <1>2
<1>4. (u + 1) - 1 = u
  OBVIOUS
<1> QED BY <1>1, <1>2, <1>3, <1>4

(* The unit size is not zero while there is a unit.                        *)
LEMMA SizePositive ==
  ASSUME NEW o \in OutputConfigs, NEW s \in Seq(Ids), NEW u \in Nat \ {0}, MoreOf(o, s, u)
  PROVE  SizeOf(o, s) > 0
<1>1. o.size \in Nat /\ Len(s) \in Nat
  BY ConfigFacts
<1>2. CASE o.single
  BY <1>2 DEF SizeOf
<1>3. CASE ~o.single /\ o.size # 0
  BY <1>1, <1>3 DEF SizeOf
<1>4. CASE ~o.single /\ o.size = 0
  <2>1. SizeOf(o, s) = Len(s) /\ (u - 1) * SizeOf(o, s) \in Nat
    BY <1>1, <1>4, UnitEnds DEF SizeOf
  <2>2. Len(s) > 0
    BY <1>1, <2>1 DEF MoreOf
  <2> QED BY <2>1, <2>2
<1> QED BY <1>2, <1>3, <1>4

(* A unit joins the records before it, without being among them.           *)
LEMMA UnitJoins ==
  ASSUME NEW o \in OutputConfigs, NEW s \in Seq(Ids), Distinct(s), NEW u \in Nat \ {0}
  PROVE  /\ BeforeOf(o, s, u + 1) = BeforeOf(o, s, u) \cup UnitOf(o, s, u)
         /\ BeforeOf(o, s, u) \cap UnitOf(o, s, u) = {}
         /\ BeforeOf(o, s, u) \subseteq ToSet(s) /\ UnitOf(o, s, u) \subseteq ToSet(s)
         /\ ToSet(s) \subseteq Ids
<1> DEFINE n == SizeOf(o, s)
           a == (u - 1) * n
           b == u * n
<1>1. n \in Nat
  BY SizeType
<1>2. a \in Nat /\ b \in Nat /\ ((u + 1) - 1) * n = b /\ a <= b
  BY <1>1, UnitEnds
<1>3. /\ BeforeOf(o, s, u) = {s[i] : i \in {j \in 1 .. Len(s) : j <= a}}
      /\ BeforeOf(o, s, u + 1) = {s[i] : i \in {j \in 1 .. Len(s) : j <= b}}
      /\ UnitOf(o, s, u) = {s[i] : i \in {j \in 1 .. Len(s) : a < j /\ j <= b}}
  BY <1>2 DEF BeforeOf, UnitOf
<1>4. ToSet(s) = {s[i] : i \in 1 .. Len(s)} /\ DOMAIN s = 1 .. Len(s) /\ Len(s) \in Nat
  BY DEF ToSet
<1> HIDE DEF n, a, b
<1>5. {s[i] : i \in {j \in 1 .. Len(s) : j <= b}}
        = {s[i] : i \in {j \in 1 .. Len(s) : j <= a}}
            \cup {s[i] : i \in {j \in 1 .. Len(s) : a < j /\ j <= b}}
  <2>1. {j \in 1 .. Len(s) : j <= b}
          = {j \in 1 .. Len(s) : j <= a} \cup {j \in 1 .. Len(s) : a < j /\ j <= b}
    BY <1>2, <1>4
  <2> QED BY <2>1, Zenon
<1>6. {s[i] : i \in {j \in 1 .. Len(s) : j <= a}}
        \cap {s[i] : i \in {j \in 1 .. Len(s) : a < j /\ j <= b}} = {}
  BY <1>2, <1>4 DEF Distinct
<1>7. ToSet(s) \subseteq Ids
  BY <1>4
<1> QED BY <1>3, <1>4, <1>5, <1>6, <1>7

(* Before the first unit there is nothing, before one too many everything. *)
LEMMA UnitBounds ==
  ASSUME NEW o \in OutputConfigs, NEW s \in Seq(Ids), NEW u \in Nat \ {0}
  PROVE  /\ BeforeOf(o, s, 1) = {}
         /\ ~MoreOf(o, s, u) => BeforeOf(o, s, u) = ToSet(s)
<1>1. SizeOf(o, s) \in Nat /\ Len(s) \in Nat /\ DOMAIN s = 1 .. Len(s)
  BY SizeType
<1>2. (1 - 1) * SizeOf(o, s) = 0 /\ (u - 1) * SizeOf(o, s) \in Nat
  BY <1>1, UnitEnds
<1>3. BeforeOf(o, s, 1) = {}
  BY <1>1, <1>2 DEF BeforeOf
<1>4. ASSUME ~MoreOf(o, s, u) PROVE BeforeOf(o, s, u) = ToSet(s)
  <2> DEFINE a == (u - 1) * SizeOf(o, s)
  <2>1. a \in Nat /\ Len(s) <= a
    BY <1>1, <1>2, <1>4 DEF MoreOf
  <2> HIDE DEF a
  <2>2. {j \in 1 .. Len(s) : j <= a} = DOMAIN s
    BY <1>1, <2>1
  <2> QED BY <2>2 DEF BeforeOf, ToSet, a
<1> QED BY <1>3, <1>4

(* What comes before a unit is an initial part of the batch.               *)
LEMMA BeforeIsInitial ==
  ASSUME NEW o \in OutputConfigs, NEW s \in Seq(Ids), NEW u \in Nat \ {0}
  PROVE  \E n \in 0 .. Len(s) : BeforeOf(o, s, u) = ToSet(SubSeq(s, 1, n))
<1> DEFINE a == (u - 1) * SizeOf(o, s)
           n == IF a <= Len(s) THEN a ELSE Len(s)
<1>1. a \in Nat /\ Len(s) \in Nat /\ DOMAIN s = 1 .. Len(s)
  BY SizeType, UnitEnds
<1>2. n \in 0 .. Len(s)
  BY <1>1
<1>3. DOMAIN SubSeq(s, 1, n) = 1 .. n /\ \A i \in 1 .. n : SubSeq(s, 1, n)[i] = s[i]
  BY <1>1, <1>2
<1>4. {j \in 1 .. Len(s) : j <= a} = 1 .. n
  BY <1>1
<1>5. BeforeOf(o, s, u) = {s[i] : i \in 1 .. n}
  BY <1>4 DEF BeforeOf
<1> HIDE DEF n
<1>6. ToSet(SubSeq(s, 1, n)) = {s[i] : i \in 1 .. n}
  BY <1>3 DEF ToSet
<1> QED BY <1>2, <1>5, <1>6

(* In single mode a unit is one record.                                    *)
LEMMA SingleUnit ==
  ASSUME NEW o \in OutputConfigs, NEW s \in Seq(Ids), NEW u \in Nat \ {0},
         o.single, MoreOf(o, s, u)
  PROVE  UnitOf(o, s, u) = {s[u]}
<1>1. SizeOf(o, s) = 1 /\ Len(s) \in Nat
  BY DEF SizeOf
<1>2. (u - 1) * 1 = u - 1 /\ u * 1 = u
  OBVIOUS
<1>3. u \in 1 .. Len(s)
  BY <1>1, <1>2 DEF MoreOf
<1>4. {j \in 1 .. Len(s) : u - 1 < j /\ j <= u} = {u}
  BY <1>1, <1>3
<1> QED BY <1>1, <1>2, <1>4 DEF UnitOf

(* What is carried grows by what the next unit carries.                    *)
LEMMA HeldGrows ==
  ASSUME NEW o, NEW s, NEW n \in Nat
  PROVE  /\ HeldOf(o, s, 0) = {}
         /\ HeldOf(o, s, n + 1) = HeldOf(o, s, n) \cup CarriedOf(o, s, n + 1)
<1>1. 1 .. 0 = {} /\ 1 .. n + 1 = (1 .. n) \cup {n + 1}
  OBVIOUS
<1>2. HeldOf(o, s, 0) = {}
  BY <1>1 DEF HeldOf
<1>3. HeldOf(o, s, n + 1) = HeldOf(o, s, n) \cup CarriedOf(o, s, n + 1)
  BY <1>1, Zenon DEF HeldOf
<1> QED BY <1>2, <1>3

(* A unit begins no later than one behind it.                              *)
LEMMA UnitsInOrder ==
  ASSUME NEW n \in Nat, NEW i \in Nat, NEW j \in Nat, i <= j
  PROVE  i * n \in Nat /\ j * n \in Nat /\ i * n <= j * n
<1>1. PICK d \in Nat : j = i + d
  <2>1. j - i \in Nat /\ j = i + (j - i)
    OBVIOUS
  <2> QED BY <2>1
<1>2. (i + d) * n = i * n + d * n /\ i * n \in Nat /\ d * n \in Nat
  OBVIOUS
<1> QED BY <1>1, <1>2

(* Behind the batch a unit carries nothing.                                *)
LEMMA NothingBehind ==
  ASSUME NEW o \in OutputConfigs, NEW s \in Seq(Ids), NEW u \in Nat \ {0}, ~MoreOf(o, s, u)
  PROVE  CarriedOf(o, s, u) = {}
<1> DEFINE a == (u - 1) * SizeOf(o, s)
           b == u * SizeOf(o, s)
<1>1. a \in Nat /\ Len(s) \in Nat /\ DOMAIN s = 1 .. Len(s) /\ Len(s) <= a
  BY SizeType, UnitEnds DEF MoreOf
<1>2. UnitOf(o, s, u) = {s[i] : i \in {j \in 1 .. Len(s) : a < j /\ j <= b}}
  BY DEF UnitOf
<1>3. FirstIn(o, s, u) = {s[i] : i \in DOMAIN s \cap {a + 1}}
  BY DEF FirstIn
<1> HIDE DEF a, b
<1>4. {j \in 1 .. Len(s) : a < j /\ j <= b} = {} /\ DOMAIN s \cap {a + 1} = {}
  BY <1>1
<1>5. UnitOf(o, s, u) = {} /\ FirstIn(o, s, u) = {}
  BY <1>2, <1>3, <1>4
<1> QED BY <1>5 DEF CarriedOf

(* Once no unit is left everything is carried that is.                     *)
LEMMA HeldStays ==
  ASSUME NEW o \in OutputConfigs, NEW s \in Seq(Ids), NEW m \in Nat, NEW k \in Nat,
         m <= k, ~MoreOf(o, s, m + 1)
  PROVE  HeldOf(o, s, m) = HeldOf(o, s, k)
<1>1. SizeOf(o, s) \in Nat /\ Len(s) \in Nat
  BY SizeType
<1>2. ASSUME NEW v \in 1 .. k, v \notin 1 .. m PROVE CarriedOf(o, s, v) = {}
  <2>1. v \in Nat \ {0} /\ v - 1 \in Nat /\ m <= v - 1 /\ (m + 1) - 1 = m
    BY <1>2
  <2>2. /\ m * SizeOf(o, s) \in Nat /\ (v - 1) * SizeOf(o, s) \in Nat
        /\ m * SizeOf(o, s) <= (v - 1) * SizeOf(o, s)
    BY <1>1, <2>1, UnitsInOrder
  <2>3. ~MoreOf(o, s, v)
    BY <1>1, <2>1, <2>2 DEF MoreOf
  <2> QED BY <2>1, <2>3, NothingBehind
<1>3. 1 .. m \subseteq 1 .. k
  OBVIOUS
<1> QED BY <1>2, <1>3 DEF HeldOf

(* There are no more units than records.                                   *)
LEMMA FewUnits ==
  ASSUME NEW o \in OutputConfigs, NEW s \in Seq(Ids)
  PROVE  ~MoreOf(o, s, Len(s) + 1)
<1>1. SizeOf(o, s) \in Nat /\ Len(s) \in Nat /\ (Len(s) + 1) - 1 = Len(s)
  BY SizeType
<1>2. CASE Len(s) = 0
  BY <1>1, <1>2 DEF MoreOf
<1>3. CASE Len(s) # 0
  <2>1. SizeOf(o, s) # 0
    BY <1>1, <1>3, ConfigFacts DEF SizeOf
  <2>2. /\ 1 * Len(s) = Len(s) /\ 1 * Len(s) <= SizeOf(o, s) * Len(s)
        /\ SizeOf(o, s) * Len(s) = Len(s) * SizeOf(o, s)
    <3>1. 1 \in Nat /\ 1 <= SizeOf(o, s)
      BY <1>1, <2>1
    <3>2. 1 * Len(s) <= SizeOf(o, s) * Len(s)
      BY <1>1, <3>1, UnitsInOrder
    <3>3. \A i \in Nat : 1 * i = i
      OBVIOUS
    <3>4. \A i, j \in Nat : i * j = j * i
      OBVIOUS
    <3> QED BY <1>1, <3>2, <3>3, <3>4
  <2>3. Len(s) * SizeOf(o, s) \in Nat
    BY <1>1
  <2> QED BY <1>1, <2>2, <2>3 DEF MoreOf
<1> QED BY <1>2, <1>3

(* What the first units carry is what those of the batch carry.            *)
LEMMA HeldIsInitial ==
  ASSUME NEW o \in OutputConfigs, NEW s \in Seq(Ids), NEW m \in Nat
  PROVE  /\ \E n \in 0 .. Len(s) : HeldOf(o, s, m) = HeldOf(o, s, n)
         /\ ~MoreOf(o, s, m + 1) => HeldOf(o, s, m) = HeldOf(o, s, Len(s))
<1>1. Len(s) \in Nat /\ ~MoreOf(o, s, Len(s) + 1)
  BY FewUnits
<1>2. CASE m <= Len(s)
  <2>1. m \in 0 .. Len(s)
    BY <1>1, <1>2
  <2>2. ~MoreOf(o, s, m + 1) => HeldOf(o, s, m) = HeldOf(o, s, Len(s))
    BY <1>1, <1>2, HeldStays
  <2> QED BY <2>1, <2>2
<1>3. CASE ~(m <= Len(s))
  <2>1. Len(s) <= m /\ Len(s) \in 0 .. Len(s)
    BY <1>1, <1>3
  <2>2. HeldOf(o, s, Len(s)) = HeldOf(o, s, m)
    BY <1>1, <2>1, HeldStays
  <2> QED BY <2>1, <2>2
<1> QED BY <1>2, <1>3

-----------------------------------------------------------------------------
(* Counting.                                                               *)

(* Sets of records are finite, and no larger than the batch they are of.   *)
LEMMA SetsOfRecords ==
  /\ \A x \in SUBSET Ids :
        IsFiniteSet(x) /\ Cardinality(x) \in Nat /\ Cardinality(x) <= MaxRecords
  /\ \A x, y \in SUBSET Ids :
        /\ x \subseteq y => Cardinality(x) <= Cardinality(y)
        /\ Cardinality(x \cup y) = Cardinality(x) + Cardinality(y) - Cardinality(x \cap y)
        /\ x \cap y = {} => Cardinality(x \cup y) = Cardinality(x) + Cardinality(y)
        /\ Cardinality(x \cup y) <= Cardinality(x) + Cardinality(y)
<1>1. IsFiniteSet(Ids) /\ Cardinality(Ids) = MaxRecords
  BY BatchAssumption, FS_Interval DEF Ids
<1>2. ASSUME NEW x \in SUBSET Ids
      PROVE  IsFiniteSet(x) /\ Cardinality(x) \in Nat /\ Cardinality(x) <= MaxRecords
  BY <1>1, FS_Subset, FS_CardinalityType
<1>3. ASSUME NEW x \in SUBSET Ids, NEW y \in SUBSET Ids
      PROVE  /\ x \subseteq y => Cardinality(x) <= Cardinality(y)
             /\ Cardinality(x \cup y) = Cardinality(x) + Cardinality(y) - Cardinality(x \cap y)
             /\ x \cap y = {} => Cardinality(x \cup y) = Cardinality(x) + Cardinality(y)
             /\ Cardinality(x \cup y) <= Cardinality(x) + Cardinality(y)
  <2>1. x \subseteq y => Cardinality(x) <= Cardinality(y)
    BY <1>2, FS_Subset
  <2>2. Cardinality(x \cup y) = Cardinality(x) + Cardinality(y) - Cardinality(x \cap y)
    BY <1>2, FS_Union
  <2>3. Cardinality(x) \in Nat /\ Cardinality(y) \in Nat /\ Cardinality(x \cap y) \in Nat
    <3>1. x \cap y \in SUBSET Ids
      OBVIOUS
    <3> QED BY <3>1, <1>2
  <2>4. x \cap y = {} => Cardinality(x \cap y) = 0
    BY FS_EmptySet
  <2> QED BY <2>1, <2>2, <2>3, <2>4
<1> QED BY <1>2, <1>3

(* A batch has at most as many different records as it is long.            *)
LEMMA BatchCount ==
  ASSUME NEW s \in Seq(Ids)
  PROVE  Cardinality(ToSet(s)) <= Len(s)
<1>1. Len(s) \in Nat /\ s \in [1 .. Len(s) -> Ids]
  OBVIOUS
<1>2. s \in Surjection(1 .. Len(s), ToSet(s))
  BY <1>1 DEF Surjection, ToSet
<1> QED BY <1>1, <1>2, FS_SurjCardinalityBound DEF ExistsSurjection

(* A count that grows by one part, or by the answers lost, keeps its bound.*)
LEMMA LostAnswers ==
  ASSUME NEW l \in Nat
  PROVE  /\ l * MaxRecords \in Nat
         /\ (l + 1) * MaxRecords = l * MaxRecords + MaxRecords
BY BatchAssumption

-----------------------------------------------------------------------------
(* Send between two units, or at one of which so many attempts were made:  *)
(* rec is what the destination has, l the number of answers lost.          *)

Repeats(o, s, u, tries, rec, l) ==
    /\ tries <= o.attempts
    /\ \A r \in Ids : rec[r] <= 1 + l /\ rec[r] <= o.attempts
    /\ \A r \in Ids \ BeforeOf(o, s, u) :
          rec[r] <= l /\ rec[r] <= (IF r \in UnitOf(o, s, u) THEN tries ELSE 0)

InOrder(o, s, u, rec) ==
    o.onError = "fail" /\ ~o.tx =>
        IF PartOf(o) THEN \/ TakenOf(rec) = HeldOf(o, s, u - 1)
                          \/ TakenOf(rec) = HeldOf(o, s, u)
                     ELSE \/ TakenOf(rec) = BeforeOf(o, s, u)
                          \/ TakenOf(rec) = BeforeOf(o, s, u + 1)

Pending(o, s, u, sent, written, rec, mode) ==
    /\ mode = "open" => o.tx
    /\ o.tx /\ o.onError = "fail" => mode = "open"
    /\ mode = "open" => /\ TakenOf(rec) = {}
                        /\ written \subseteq BeforeOf(o, s, u)
                        /\ Cardinality(written) = sent
                        /\ o.onError = "fail" => written = BeforeOf(o, s, u)
    /\ mode # "open" => written = {}

Counts(o, s, u, sent, rec, l) ==
    /\ sent <= Cardinality(BeforeOf(o, s, u))
    /\ Cardinality(TakenOf(rec)) <= sent + l * MaxRecords
    /\ ~o.tx /\ ~PartOf(o) => sent <= Cardinality(TakenOf(rec) \cap BeforeOf(o, s, u))

At(o, s, u, tries, sent, written, rec, l, mode) ==
    /\ Repeats(o, s, u, tries, rec, l) /\ InOrder(o, s, u, rec)
    /\ Pending(o, s, u, sent, written, rec, mode) /\ Counts(o, s, u, sent, rec, l)

(* Send when it has returned its count, and an error or none.              *)
Ended(o, s, sent, failed, rec, l, mode) ==
    /\ sent <= Len(s)
    /\ \A r \in Ids : rec[r] <= 1 + l /\ rec[r] <= o.attempts
    /\ Cardinality(TakenOf(rec)) <= sent + l * MaxRecords
    /\ ~(o.tx /\ (failed \/ mode # "open")) /\ ~PartOf(o) => sent <= Cardinality(TakenOf(rec))
    /\ o.onError = "fail" =>
          /\ \E n \in 0 .. Len(s) :
                TakenOf(rec) = IF PartOf(o) THEN HeldOf(o, s, n) ELSE ToSet(SubSeq(s, 1, n))
          /\ ~failed => TakenOf(rec) = IF PartOf(o) THEN HeldOf(o, s, Len(s)) ELSE ToSet(s)
    /\ mode = "open" /\ TakenOf(rec) # {} => Cardinality(TakenOf(rec)) = sent

(* What the destination takes adds to what it has.                         *)
Added(rec, ids) == [r \in Ids |-> rec[r] + IF r \in ids THEN 1 ELSE 0]

(* A record more or less in the destination, of those just carried there.  *)
LEMMA AddedFacts ==
  ASSUME NEW rec \in [Ids -> Nat], NEW ids \in SUBSET Ids
  PROVE  /\ Added(rec, ids) \in [Ids -> Nat]
         /\ \A r \in Ids : Added(rec, ids)[r] = IF r \in ids THEN rec[r] + 1 ELSE rec[r]
         /\ TakenOf(Added(rec, ids)) = TakenOf(rec) \cup ids
<1>1. \A r \in Ids : Added(rec, ids)[r] = IF r \in ids THEN rec[r] + 1 ELSE rec[r]
  BY DEF Added
<1>2. Added(rec, ids) \in [Ids -> Nat]
  BY DEF Added
<1>3. TakenOf(Added(rec, ids)) = TakenOf(rec) \cup ids
  BY <1>1 DEF TakenOf
<1> QED BY <1>1, <1>2, <1>3

-----------------------------------------------------------------------------
(* What happens to the unit at hand.                                       *)

(* The sets the counts are of, in a form the lemmas below share.           *)
LEMMA UnitSets ==
  ASSUME NEW o \in OutputConfigs, NEW s \in Seq(Ids), Distinct(s), NEW u \in Nat \ {0},
         NEW rec \in [Ids -> Nat]
  PROVE  /\ BeforeOf(o, s, u) \in SUBSET Ids /\ UnitOf(o, s, u) \in SUBSET Ids
         /\ BeforeOf(o, s, u + 1) \in SUBSET Ids
         /\ BeforeOf(o, s, u) \subseteq BeforeOf(o, s, u + 1)
         /\ TakenOf(rec) \in SUBSET Ids
         /\ TakenOf(rec) \cap BeforeOf(o, s, u) \in SUBSET Ids
         /\ Cardinality(BeforeOf(o, s, u + 1))
              = Cardinality(BeforeOf(o, s, u)) + Cardinality(UnitOf(o, s, u))
<1>1. /\ BeforeOf(o, s, u) \in SUBSET Ids /\ UnitOf(o, s, u) \in SUBSET Ids
      /\ BeforeOf(o, s, u + 1) = BeforeOf(o, s, u) \cup UnitOf(o, s, u)
      /\ BeforeOf(o, s, u) \cap UnitOf(o, s, u) = {}
  BY UnitJoins
<1>2. Cardinality(BeforeOf(o, s, u) \cup UnitOf(o, s, u))
        = Cardinality(BeforeOf(o, s, u)) + Cardinality(UnitOf(o, s, u))
  BY <1>1, SetsOfRecords
<1>3. TakenOf(rec) \in SUBSET Ids
  BY DEF TakenOf
<1> QED BY <1>1, <1>2, <1>3

(* A unit that fails under skip or log is behind, without a count.         *)
LEMMA UnitSkipped ==
  ASSUME NEW o \in OutputConfigs, NEW s \in Seq(Ids), Distinct(s), NEW u \in Nat \ {0},
         NEW rec \in [Ids -> Nat], NEW l \in Nat, NEW sent \in Nat, NEW tries \in Nat,
         NEW written \in SUBSET Ids,
         NEW mode, At(o, s, u, tries, sent, written, rec, l, mode), o.onError # "fail"
  PROVE  At(o, s, u + 1, 0, sent, written, rec, l, mode)
<1>1. /\ BeforeOf(o, s, u + 1) = BeforeOf(o, s, u) \cup UnitOf(o, s, u)
      /\ BeforeOf(o, s, u) \in SUBSET Ids /\ BeforeOf(o, s, u + 1) \in SUBSET Ids
  BY UnitJoins, UnitSets
<1>2. Repeats(o, s, u + 1, 0, rec, l)
  <2>1. 0 <= o.attempts
    BY ConfigFacts
  <2>2. ASSUME NEW r \in Ids \ BeforeOf(o, s, u + 1) PROVE rec[r] = 0 /\ rec[r] <= l
    <3>1. r \in Ids \ BeforeOf(o, s, u) /\ r \notin UnitOf(o, s, u)
      BY <1>1
    <3>2. rec[r] \in Nat /\ rec[r] <= 0 /\ rec[r] <= l
      BY <3>1 DEF At, Repeats
    <3> QED BY <3>2
  <2> QED BY <2>1, <2>2 DEF At, Repeats
<1>3. InOrder(o, s, u + 1, rec)
  BY DEF InOrder
<1>4. Pending(o, s, u + 1, sent, written, rec, mode)
  BY <1>1 DEF At, Pending
<1>5. Counts(o, s, u + 1, sent, rec, l)
  <2>1. /\ Cardinality(BeforeOf(o, s, u)) <= Cardinality(BeforeOf(o, s, u + 1))
        /\ Cardinality(BeforeOf(o, s, u)) \in Nat /\ Cardinality(BeforeOf(o, s, u + 1)) \in Nat
    BY <1>1, SetsOfRecords
  <2> DEFINE x == TakenOf(rec) \cap BeforeOf(o, s, u)
             y == TakenOf(rec) \cap BeforeOf(o, s, u + 1)
  <2>2. x \in SUBSET Ids /\ y \in SUBSET Ids /\ x \subseteq y
    BY <1>1
  <2> HIDE DEF x, y
  <2>3. Cardinality(x) <= Cardinality(y) /\ Cardinality(x) \in Nat /\ Cardinality(y) \in Nat
    BY <2>2, SetsOfRecords
  <2> QED BY <2>1, <2>3 DEF At, Counts, x, y
<1> QED BY <1>2, <1>3, <1>4, <1>5 DEF At

(* An attempt carries the unit, or of a batch template a part, to the      *)
(* destination, and its answer is lost.                                    *)
LEMMA UnitTaken ==
  ASSUME NEW o \in OutputConfigs, NEW s \in Seq(Ids), Distinct(s), NEW u \in Nat \ {0},
         NEW rec \in [Ids -> Nat], NEW l \in Nat, NEW sent \in Nat, NEW tries \in Nat,
         NEW written \in SUBSET Ids, NEW ids \in SUBSET Ids,
         NEW mode, At(o, s, u, tries, sent, written, rec, l, mode), mode # "open", tries < o.attempts,
         ids \subseteq UnitOf(o, s, u),
         PartOf(o) => ids = CarriedOf(o, s, u), ~PartOf(o) => ids = UnitOf(o, s, u)
  PROVE  At(o, s, u, tries + 1, sent, written, Added(rec, ids), l + 1, mode)
<1> DEFINE new == Added(rec, ids)
<1>1. /\ new \in [Ids -> Nat] /\ TakenOf(new) = TakenOf(rec) \cup ids
      /\ \A r \in Ids : new[r] = IF r \in ids THEN rec[r] + 1 ELSE rec[r]
  BY AddedFacts
<1>2. /\ BeforeOf(o, s, u + 1) = BeforeOf(o, s, u) \cup UnitOf(o, s, u)
      /\ BeforeOf(o, s, u) \cap UnitOf(o, s, u) = {}
      /\ BeforeOf(o, s, u) \in SUBSET Ids /\ UnitOf(o, s, u) \in SUBSET Ids
      /\ TakenOf(rec) \in SUBSET Ids /\ TakenOf(new) \in SUBSET Ids
  BY <1>1, UnitJoins, UnitSets
<1> HIDE DEF new
<1>3. o.attempts \in Nat
  BY ConfigFacts
<1>4. Repeats(o, s, u, tries + 1, new, l + 1)
  <2>1. ASSUME NEW r \in ids PROVE new[r] <= l + 1 /\ new[r] <= tries + 1 /\ new[r] \in Nat
    <3>1. r \in Ids \ BeforeOf(o, s, u) /\ r \in UnitOf(o, s, u)
      BY <1>2
    <3>2. rec[r] <= l /\ rec[r] <= tries /\ rec[r] \in Nat
      BY <3>1 DEF At, Repeats
    <3> QED BY <1>1, <3>2
  <2>2. tries + 1 <= o.attempts
    BY <1>3
  <2>3. ASSUME NEW r \in Ids PROVE new[r] <= 1 + (l + 1) /\ new[r] <= o.attempts
    <3>1. CASE r \in ids
      BY <3>1, <2>1, <2>2, <1>3
    <3>2. CASE r \notin ids
      <4>1. new[r] = rec[r] /\ rec[r] <= 1 + l /\ rec[r] <= o.attempts /\ rec[r] \in Nat
        BY <3>2, <1>1 DEF At, Repeats
      <4> QED BY <4>1
    <3> QED BY <3>1, <3>2
  <2>4. ASSUME NEW r \in Ids \ BeforeOf(o, s, u)
        PROVE  new[r] <= l + 1 /\ new[r] <= (IF r \in UnitOf(o, s, u) THEN tries + 1 ELSE 0)
    <3>1. CASE r \in ids
      <4>1. r \in UnitOf(o, s, u)
        BY <3>1
      <4> QED BY <3>1, <4>1, <2>1
    <3>2. CASE r \notin ids
      <4>1. new[r] = rec[r] /\ rec[r] \in Nat
        BY <3>2, <1>1
      <4>2. rec[r] <= l /\ rec[r] <= (IF r \in UnitOf(o, s, u) THEN tries ELSE 0)
        BY DEF At, Repeats
      <4> QED BY <4>1, <4>2
    <3> QED BY <3>1, <3>2
  <2> QED BY <2>2, <2>3, <2>4 DEF Repeats
<1>5. InOrder(o, s, u, new)
  <2>1. u - 1 \in Nat /\ (u - 1) + 1 = u
    OBVIOUS
  <2>2. HeldOf(o, s, u) = HeldOf(o, s, u - 1) \cup CarriedOf(o, s, u)
    BY <2>1, HeldGrows
  <2> QED BY <1>1, <1>2, <2>2 DEF At, InOrder
<1>6. Pending(o, s, u, sent, written, new, mode)
  BY DEF At, Pending
<1>7. Counts(o, s, u, sent, new, l + 1)
  <2>1. Cardinality(TakenOf(new)) <= Cardinality(TakenOf(rec)) + Cardinality(ids)
    BY <1>1, <1>2, SetsOfRecords
  <2>2. /\ Cardinality(ids) \in Nat /\ Cardinality(ids) <= MaxRecords
        /\ Cardinality(TakenOf(rec)) \in Nat /\ Cardinality(TakenOf(new)) \in Nat
    BY <1>2, SetsOfRecords
  <2>3. Cardinality(TakenOf(rec)) <= sent + l * MaxRecords
    BY DEF At, Counts
  <2>4. Cardinality(TakenOf(new)) <= sent + (l + 1) * MaxRecords
    BY <2>1, <2>2, <2>3, LostAnswers, BatchAssumption
  <2>5. TakenOf(new) \cap BeforeOf(o, s, u) = TakenOf(rec) \cap BeforeOf(o, s, u)
    BY <1>1, <1>2
  <2> QED BY <2>4, <2>5 DEF At, Counts
<1> QED BY <1>4, <1>5, <1>6, <1>7 DEF At, new

(* The unit is sent, and counted.                                          *)
LEMMA UnitCounted ==
  ASSUME NEW o \in OutputConfigs, NEW s \in Seq(Ids), Distinct(s), NEW u \in Nat \ {0},
         NEW rec \in [Ids -> Nat], NEW l \in Nat, NEW sent \in Nat, NEW tries \in Nat,
         NEW written \in SUBSET Ids, NEW ids \in SUBSET Ids,
         NEW mode, At(o, s, u, tries, sent, written, rec, l, mode), mode # "open", tries < o.attempts,
         ids \subseteq UnitOf(o, s, u),
         PartOf(o) => ids = CarriedOf(o, s, u), ~PartOf(o) => ids = UnitOf(o, s, u)
  PROVE  At(o, s, u + 1, 0, sent + Cardinality(UnitOf(o, s, u)), written, Added(rec, ids), l, mode)
<1> DEFINE new == Added(rec, ids)
           n == Cardinality(UnitOf(o, s, u))
<1>1. /\ new \in [Ids -> Nat] /\ TakenOf(new) = TakenOf(rec) \cup ids
      /\ \A r \in Ids : new[r] = IF r \in ids THEN rec[r] + 1 ELSE rec[r]
  BY AddedFacts
<1>2. /\ BeforeOf(o, s, u + 1) = BeforeOf(o, s, u) \cup UnitOf(o, s, u)
      /\ BeforeOf(o, s, u) \cap UnitOf(o, s, u) = {}
      /\ BeforeOf(o, s, u) \in SUBSET Ids /\ UnitOf(o, s, u) \in SUBSET Ids
      /\ BeforeOf(o, s, u + 1) \in SUBSET Ids
      /\ TakenOf(rec) \in SUBSET Ids /\ TakenOf(new) \in SUBSET Ids
      /\ Cardinality(BeforeOf(o, s, u + 1)) = Cardinality(BeforeOf(o, s, u)) + n
  BY <1>1, UnitJoins, UnitSets
<1>3. o.attempts \in Nat /\ n \in Nat /\ Cardinality(BeforeOf(o, s, u)) \in Nat
  BY <1>2, ConfigFacts, SetsOfRecords
<1> HIDE DEF new, n
<1>4. Repeats(o, s, u + 1, 0, new, l)
  <2>1. ASSUME NEW r \in Ids PROVE new[r] <= 1 + l /\ new[r] <= o.attempts
    <3>1. CASE r \in ids
      <4>1. r \in Ids \ BeforeOf(o, s, u) /\ r \in UnitOf(o, s, u)
        BY <3>1, <1>2
      <4>2. rec[r] <= l /\ rec[r] <= tries /\ rec[r] \in Nat
        BY <4>1 DEF At, Repeats
      <4> QED BY <1>1, <1>3, <3>1, <4>2
    <3>2. CASE r \notin ids
      BY <3>2, <1>1 DEF At, Repeats
    <3> QED BY <3>1, <3>2
  <2>2. ASSUME NEW r \in Ids \ BeforeOf(o, s, u + 1) PROVE new[r] <= l /\ new[r] <= 0
    <3>1. r \in Ids \ BeforeOf(o, s, u) /\ r \notin UnitOf(o, s, u) /\ r \notin ids
      BY <1>2
    <3>2. new[r] = rec[r] /\ rec[r] <= l /\ rec[r] <= 0
      BY <1>1, <3>1 DEF At, Repeats
    <3> QED BY <3>2
  <2> QED BY <1>3, <2>1, <2>2 DEF Repeats
<1>5. InOrder(o, s, u + 1, new)
  <2>1. u - 1 \in Nat /\ (u - 1) + 1 = u /\ (u + 1) - 1 = u
    OBVIOUS
  <2>2. HeldOf(o, s, u) = HeldOf(o, s, u - 1) \cup CarriedOf(o, s, u)
    BY <2>1, HeldGrows
  <2> QED BY <1>1, <1>2, <2>1, <2>2 DEF At, InOrder
<1>6. Pending(o, s, u + 1, sent + n, written, new, mode)
  BY DEF At, Pending
<1>7. Counts(o, s, u + 1, sent + n, new, l)
  <2>1. sent + n <= Cardinality(BeforeOf(o, s, u + 1))
    BY <1>2, <1>3 DEF At, Counts
  <2>2. /\ Cardinality(TakenOf(new)) <= Cardinality(TakenOf(rec)) + Cardinality(ids)
        /\ Cardinality(ids) <= n /\ Cardinality(ids) \in Nat
        /\ Cardinality(TakenOf(rec)) \in Nat /\ Cardinality(TakenOf(new)) \in Nat
    BY <1>1, <1>2, SetsOfRecords DEF n
  <2>3. Cardinality(TakenOf(new)) <= (sent + n) + l * MaxRecords
    <3> DEFINE m == l * MaxRecords
    <3>1. m \in Nat /\ Cardinality(TakenOf(rec)) <= sent + m
      BY LostAnswers DEF At, Counts
    <3> HIDE DEF m
    <3>2. Cardinality(TakenOf(new)) <= (sent + n) + m
      BY <1>3, <2>2, <3>1
    <3> QED BY <3>2 DEF m
  <2>4. ASSUME ~o.tx, ~PartOf(o)
        PROVE  sent + n <= Cardinality(TakenOf(new) \cap BeforeOf(o, s, u + 1))
    <3> DEFINE x == TakenOf(rec) \cap BeforeOf(o, s, u)
    <3>1. ids = UnitOf(o, s, u)
      BY <2>4
    <3>2. /\ TakenOf(new) \cap BeforeOf(o, s, u + 1) = x \cup UnitOf(o, s, u)
          /\ x \cap UnitOf(o, s, u) = {} /\ x \in SUBSET Ids
      BY <1>1, <1>2, <3>1
    <3> HIDE DEF x
    <3>3. Cardinality(x \cup UnitOf(o, s, u)) = Cardinality(x) + n /\ Cardinality(x) \in Nat
      BY <1>2, <3>2, SetsOfRecords DEF n
    <3>4. sent <= Cardinality(x)
      BY <2>4 DEF At, Counts, x
    <3>5. Cardinality(TakenOf(new) \cap BeforeOf(o, s, u + 1)) = Cardinality(x) + n
      BY <3>2, <3>3
    <3> QED BY <1>3, <3>3, <3>4, <3>5
  <2> QED BY <2>1, <2>3, <2>4 DEF Counts
<1> QED BY <1>4, <1>5, <1>6, <1>7 DEF At, new, n

(* A row is written in the transaction.                                    *)
LEMMA RowWritten ==
  ASSUME NEW o \in OutputConfigs, NEW s \in Seq(Ids), Distinct(s), NEW u \in Nat \ {0},
         NEW rec \in [Ids -> Nat], NEW l \in Nat, NEW sent \in Nat, NEW tries \in Nat,
         NEW written \in SUBSET Ids,
         NEW mode, At(o, s, u, tries, sent, written, rec, l, mode), mode = "open", MoreOf(o, s, u)
  PROVE  At(o, s, u + 1, 0, sent + 1, written \cup UnitOf(o, s, u), rec, l, mode)
<1>1. /\ BeforeOf(o, s, u + 1) = BeforeOf(o, s, u) \cup UnitOf(o, s, u)
      /\ BeforeOf(o, s, u) \cap UnitOf(o, s, u) = {}
      /\ BeforeOf(o, s, u) \in SUBSET Ids /\ UnitOf(o, s, u) \in SUBSET Ids
      /\ Cardinality(BeforeOf(o, s, u + 1))
           = Cardinality(BeforeOf(o, s, u)) + Cardinality(UnitOf(o, s, u))
  BY UnitJoins, UnitSets
<1>2. Cardinality(UnitOf(o, s, u)) = 1 /\ o.tx
  <2>0. o.tx
    BY DEF At, Pending
  <2>1. UnitOf(o, s, u) = {s[u]}
    BY <2>0, ConfigFacts, SingleUnit
  <2> QED BY <2>0, <2>1, FS_Singleton
<1>3. Cardinality(BeforeOf(o, s, u)) \in Nat
  BY <1>1, SetsOfRecords
<1>4. TakenOf(rec) = {} /\ written \subseteq BeforeOf(o, s, u) /\ Cardinality(written) = sent
  BY DEF At, Pending
<1>5. \A r \in Ids : rec[r] = 0
  BY <1>4 DEF TakenOf
<1>6. Repeats(o, s, u + 1, 0, rec, l)
  <2>1. 0 <= o.attempts /\ \A r \in Ids : rec[r] <= 1 + l /\ rec[r] <= o.attempts /\ rec[r] <= l
    BY <1>5, ConfigFacts
  <2> QED BY <1>5, <2>1 DEF Repeats
<1>7. Pending(o, s, u + 1, sent + 1, written \cup UnitOf(o, s, u), rec, mode)
  <2>1. Cardinality(written \cup UnitOf(o, s, u)) = sent + 1
    <3>1. written \cap UnitOf(o, s, u) = {}
      BY <1>1, <1>4
    <3>2. Cardinality(written \cup UnitOf(o, s, u))
            = Cardinality(written) + Cardinality(UnitOf(o, s, u))
      BY <1>1, <3>1, SetsOfRecords
    <3> QED BY <1>2, <1>4, <3>2
  <2> QED BY <1>1, <1>4, <2>1 DEF At, Pending
<1>8. Counts(o, s, u + 1, sent + 1, rec, l)
  <2>1. Cardinality(TakenOf(rec)) <= (sent + 1) + l * MaxRecords
    <3>1. l * MaxRecords \in Nat /\ Cardinality(TakenOf(rec)) = 0
      BY <1>4, LostAnswers, FS_EmptySet
    <3> QED BY <3>1
  <2> QED BY <1>1, <1>2, <1>3, <2>1 DEF At, Counts
<1> QED BY <1>2, <1>6, <1>7, <1>8 DEF At, InOrder

(* The server rolls the transaction back, and Send goes on without it.     *)
LEMMA RowsLost ==
  ASSUME NEW o \in OutputConfigs, NEW s \in Seq(Ids), Distinct(s), NEW u \in Nat \ {0},
         NEW rec \in [Ids -> Nat], NEW l \in Nat, NEW sent \in Nat, NEW tries \in Nat,
         NEW written \in SUBSET Ids,
         NEW mode, At(o, s, u, tries, sent, written, rec, l, mode), o.onError # "fail"
  PROVE  At(o, s, u + 1, 0, sent, {}, rec, l, "none")
<1>1. At(o, s, u + 1, 0, sent, written, rec, l, mode)
  BY UnitSkipped
<1> QED BY <1>1 DEF At, Pending

-----------------------------------------------------------------------------
(* Send returns.                                                           *)

(* With an error, from wherever it is.                                     *)
LEMMA EndsWithError ==
  ASSUME NEW o \in OutputConfigs, NEW s \in Seq(Ids), Distinct(s), NEW u \in Nat \ {0},
         NEW rec \in [Ids -> Nat], NEW l \in Nat, NEW sent \in Nat, NEW tries \in Nat,
         NEW written \in SUBSET Ids,
         NEW mode, At(o, s, u, tries, sent, written, rec, l, mode)
  PROVE  Ended(o, s, sent, TRUE, rec, l, mode)
<1>1. /\ BeforeOf(o, s, u) \in SUBSET Ids /\ BeforeOf(o, s, u) \subseteq ToSet(s)
      /\ ToSet(s) \in SUBSET Ids /\ TakenOf(rec) \in SUBSET Ids
      /\ TakenOf(rec) \cap BeforeOf(o, s, u) \in SUBSET Ids
  BY UnitJoins, UnitSets
<1>2. sent <= Len(s)
  <2>1. /\ Cardinality(BeforeOf(o, s, u)) <= Cardinality(ToSet(s)) /\ Cardinality(ToSet(s)) <= Len(s)
        /\ Cardinality(BeforeOf(o, s, u)) \in Nat /\ Cardinality(ToSet(s)) \in Nat
    BY <1>1, SetsOfRecords, BatchCount
  <2>2. sent <= Cardinality(BeforeOf(o, s, u)) /\ Len(s) \in Nat
    BY DEF At, Counts
  <2> QED BY <2>1, <2>2
<1>3. ASSUME ~o.tx, ~PartOf(o)
      PROVE  sent <= Cardinality(TakenOf(rec))
  <2>1. /\ Cardinality(TakenOf(rec) \cap BeforeOf(o, s, u)) <= Cardinality(TakenOf(rec))
        /\ Cardinality(TakenOf(rec) \cap BeforeOf(o, s, u)) \in Nat
        /\ Cardinality(TakenOf(rec)) \in Nat
    BY <1>1, SetsOfRecords
  <2> QED BY <1>3, <2>1 DEF At, Counts
<1>4. ASSUME o.onError = "fail"
      PROVE  \E n \in 0 .. Len(s) :
                TakenOf(rec) = IF PartOf(o) THEN HeldOf(o, s, n) ELSE ToSet(SubSeq(s, 1, n))
  <2>1. CASE o.tx
    <3>1. TakenOf(rec) = BeforeOf(o, s, 1) /\ ~PartOf(o)
      BY <1>4, <2>1, UnitBounds, ConfigFacts DEF At, Pending, PartOf
    <3> QED BY <3>1, BeforeIsInitial
  <2>2. CASE ~o.tx /\ ~PartOf(o)
    <3>1. TakenOf(rec) = BeforeOf(o, s, u) \/ TakenOf(rec) = BeforeOf(o, s, u + 1)
      BY <1>4, <2>2 DEF At, InOrder
    <3>2. u \in Nat \ {0} /\ u + 1 \in Nat \ {0}
      OBVIOUS
    <3> QED BY <2>2, <3>1, <3>2, BeforeIsInitial
  <2>3. CASE ~o.tx /\ PartOf(o)
    <3>1. TakenOf(rec) = HeldOf(o, s, u - 1) \/ TakenOf(rec) = HeldOf(o, s, u)
      BY <1>4, <2>3 DEF At, InOrder
    <3>2. u \in Nat /\ u - 1 \in Nat
      OBVIOUS
    <3>3. PICK m \in {u - 1, u} : TakenOf(rec) = HeldOf(o, s, m)
      BY <3>1
    <3>4. m \in Nat
      BY <3>2
    <3>5. \E n \in 0 .. Len(s) : HeldOf(o, s, m) = HeldOf(o, s, n)
      BY <3>4, HeldIsInitial
    <3> QED BY <2>3, <3>3, <3>5
  <2> QED BY <2>1, <2>2, <2>3
<1>5. mode = "open" => TakenOf(rec) = {}
  BY DEF At, Pending
<1>6. \A r \in Ids : rec[r] <= 1 + l /\ rec[r] <= o.attempts
  BY DEF At, Repeats
<1>7. Cardinality(TakenOf(rec)) <= sent + l * MaxRecords
  BY DEF At, Counts
<1> QED BY <1>2, <1>3, <1>4, <1>5, <1>6, <1>7 DEF Ended

(* Without one, after its last unit, if there is nothing to commit.        *)
LEMMA EndsWithoutError ==
  ASSUME NEW o \in OutputConfigs, NEW s \in Seq(Ids), Distinct(s), NEW u \in Nat \ {0},
         NEW rec \in [Ids -> Nat], NEW l \in Nat, NEW sent \in Nat,
         NEW written \in SUBSET Ids,
         NEW mode, At(o, s, u, 0, sent, written, rec, l, mode), ~o.tx, ~MoreOf(o, s, u)
  PROVE  Ended(o, s, sent, FALSE, rec, l, mode)
<1>1. Ended(o, s, sent, TRUE, rec, l, mode)
  BY EndsWithError
<1>2. BeforeOf(o, s, u) = ToSet(s)
  BY UnitBounds
<1>3. BeforeOf(o, s, u + 1) = ToSet(s)
  <2>1. BeforeOf(o, s, u) \subseteq BeforeOf(o, s, u + 1)
    BY UnitSets
  <2>2. u + 1 \in Nat \ {0}
    OBVIOUS
  <2>3. BeforeOf(o, s, u + 1) \subseteq ToSet(s)
    BY <2>2, UnitJoins
  <2> QED BY <1>2, <2>1, <2>3
<1>4. o.onError = "fail" =>
        TakenOf(rec) = IF PartOf(o) THEN HeldOf(o, s, Len(s)) ELSE ToSet(s)
  <2>1. u - 1 \in Nat /\ (u - 1) + 1 = u /\ u \in Nat /\ (u + 1) - 1 = u
    OBVIOUS
  <2>2. HeldOf(o, s, u) = HeldOf(o, s, u - 1) \cup CarriedOf(o, s, u)
    BY <2>1, HeldGrows
  <2>3. CarriedOf(o, s, u) = {}
    BY NothingBehind
  <2>4. ~MoreOf(o, s, (u - 1) + 1)
    BY <2>1
  <2>5. HeldOf(o, s, u - 1) = HeldOf(o, s, Len(s))
    BY <2>1, <2>4, HeldIsInitial
  <2> QED BY <1>2, <1>3, <2>2, <2>3, <2>5 DEF At, InOrder
<1> QED BY <1>1, <1>4 DEF Ended

(* The transaction is committed, whether or not its answer arrives.        *)
LEMMA EndsCommitted ==
  ASSUME NEW o \in OutputConfigs, NEW s \in Seq(Ids), Distinct(s), NEW u \in Nat \ {0},
         NEW rec \in [Ids -> Nat], NEW l \in Nat, NEW sent \in Nat, NEW tries \in Nat,
         NEW written \in SUBSET Ids, NEW more \in {0, 1},
         NEW mode, At(o, s, u, tries, sent, written, rec, l, mode), mode = "open", ~MoreOf(o, s, u)
  PROVE  /\ Ended(o, s, sent, TRUE, Added(rec, written), l + more, mode)
         /\ Ended(o, s, sent, FALSE, Added(rec, written), l + more, mode)
<1> DEFINE new == Added(rec, written)
<1>1. Ended(o, s, sent, TRUE, rec, l, mode)
  BY EndsWithError
<1>2. /\ TakenOf(rec) = {} /\ Cardinality(written) = sent
      /\ o.onError = "fail" => written = BeforeOf(o, s, u)
  BY DEF At, Pending
<1>3. BeforeOf(o, s, u) = ToSet(s) /\ \E n \in 0 .. Len(s) : BeforeOf(o, s, u) = ToSet(SubSeq(s, 1, n))
  BY UnitBounds, BeforeIsInitial
<1>4. /\ TakenOf(new) = written
      /\ \A r \in Ids : new[r] = IF r \in written THEN rec[r] + 1 ELSE rec[r]
  <2>1. /\ TakenOf(new) = TakenOf(rec) \cup written
        /\ \A r \in Ids : new[r] = IF r \in written THEN rec[r] + 1 ELSE rec[r]
    BY AddedFacts
  <2>2. TakenOf(rec) \cup written = written
    BY <1>2
  <2> QED BY <2>1, <2>2
<1> HIDE DEF new
<1>5. \A r \in Ids : new[r] <= 1 + (l + more) /\ new[r] <= o.attempts
  <2>1. \A r \in Ids : rec[r] = 0
    BY <1>2 DEF TakenOf
  <2>2. o.attempts \in Nat \ {0} /\ l + more \in Nat
    BY ConfigFacts
  <2>3. ASSUME NEW r \in Ids PROVE new[r] <= 1 + (l + more) /\ new[r] <= o.attempts
    <3>1. new[r] \in {0, 1}
      BY <1>4, <2>1
    <3> QED BY <2>2, <3>1
  <2> QED BY <2>3
<1>6. sent <= sent + (l + more) * MaxRecords
  <2>1. l + more \in Nat
    OBVIOUS
  <2>2. (l + more) * MaxRecords \in Nat
    BY <2>1, LostAnswers
  <2> QED BY <2>2
<1>7. sent <= Len(s)
  BY <1>1 DEF Ended
<1>8. sent <= sent
  OBVIOUS
<1>9. ~PartOf(o) /\ o.tx
  BY ConfigFacts DEF At, Pending, PartOf
<1> QED BY <1>2, <1>3, <1>4, <1>5, <1>6, <1>7, <1>8, <1>9 DEF Ended, new

(* A commit when the server has rolled the transaction back adds nothing.  *)
LEMMA EndsRolledBack ==
  ASSUME NEW o \in OutputConfigs, NEW s \in Seq(Ids), Distinct(s), NEW u \in Nat \ {0},
         NEW rec \in [Ids -> Nat], NEW l \in Nat, NEW sent \in Nat, NEW tries \in Nat,
         NEW written \in SUBSET Ids, NEW more \in {0, 1},
         At(o, s, u, tries, sent, written, rec, l, "none"), o.tx
  PROVE  /\ Ended(o, s, sent, TRUE, Added(rec, written), l + more, "none")
         /\ Ended(o, s, sent, FALSE, Added(rec, written), l + more, "none")
<1>1. Ended(o, s, sent, TRUE, rec, l, "none")
  BY EndsWithError
<1>2. written = {} /\ o.onError # "fail"
  BY DEF At, Pending
<1>3. Added(rec, written) = rec
  <2>1. \A r \in Ids : rec[r] + 0 = rec[r]
    OBVIOUS
  <2> QED BY <1>2, <2>1 DEF Added
<1>4. /\ l * MaxRecords \in Nat /\ (l + more) * MaxRecords \in Nat
      /\ l * MaxRecords <= (l + more) * MaxRecords /\ l + more \in Nat /\ l <= l + more
  <2>0. l * MaxRecords \in Nat /\ (l + 1) * MaxRecords = l * MaxRecords + MaxRecords
        /\ MaxRecords \in Nat
    BY LostAnswers, BatchAssumption
  <2>1. CASE more = 0
    <3>1. l + more = l
      BY <2>1
    <3> QED BY <2>0, <2>1, <3>1
  <2>2. CASE more = 1
    <3>1. l + more = l + 1
      BY <2>2
    <3>2. l * MaxRecords + MaxRecords \in Nat /\ l * MaxRecords <= l * MaxRecords + MaxRecords
      BY <2>0
    <3>3. l <= l + 1 /\ l + 1 \in Nat
      OBVIOUS
    <3> QED BY <2>0, <3>1, <3>2, <3>3
  <2> QED BY <2>1, <2>2
<1>5. Cardinality(TakenOf(rec)) <= sent + (l + more) * MaxRecords
  <2> DEFINE a == l * MaxRecords
             b == (l + more) * MaxRecords
  <2>1. a \in Nat /\ b \in Nat /\ a <= b
    BY <1>4
  <2>2. Cardinality(TakenOf(rec)) <= sent + a /\ Cardinality(TakenOf(rec)) \in Nat
    BY <1>1, UnitSets, SetsOfRecords DEF Ended
  <2> HIDE DEF a, b
  <2>3. Cardinality(TakenOf(rec)) <= sent + b
    BY <2>1, <2>2
  <2> QED BY <2>3 DEF b
<1>6. \A r \in Ids : rec[r] <= 1 + (l + more) /\ rec[r] <= o.attempts
  BY <1>1, <1>4 DEF Ended
<1>7. sent <= Len(s)
  BY <1>1 DEF Ended
<1> QED BY <1>2, <1>3, <1>5, <1>6, <1>7 DEF Ended

(* One more attempt was made, that the destination did not take.           *)
LEMMA AttemptMade ==
  ASSUME NEW o \in OutputConfigs, NEW s, NEW u, NEW rec \in [Ids -> Nat], NEW l \in Nat,
         NEW sent, NEW tries \in Nat, NEW written,
         NEW mode, At(o, s, u, tries, sent, written, rec, l, mode), tries < o.attempts
  PROVE  At(o, s, u, tries + 1, sent, written, rec, l, mode)
<1>1. o.attempts \in Nat
  BY ConfigFacts
<1>2. ASSUME NEW r \in Ids \ BeforeOf(o, s, u)
      PROVE  rec[r] <= l /\ rec[r] <= (IF r \in UnitOf(o, s, u) THEN tries + 1 ELSE 0)
  <2>1. rec[r] \in Nat /\ rec[r] <= l /\ rec[r] <= (IF r \in UnitOf(o, s, u) THEN tries ELSE 0)
    BY DEF At, Repeats
  <2> QED BY <2>1
<1>3. Repeats(o, s, u, tries + 1, rec, l)
  BY <1>1, <1>2 DEF At, Repeats
<1> QED BY <1>3 DEF At

-----------------------------------------------------------------------------
(* The invariant of Send.                                                  *)

(* The transaction is in force.                                            *)
Mode == IF output.tx /\ ~send.rolledBack THEN "open" ELSE "none"

Busy == send.pc \in {"unit", "attempt", "commit"}

Untouched == send = Idle /\ lost = 0 /\ Taken = {}

Stage ==
    /\ send.pc = "unit" => send.tries = 0
    /\ send.pc = "attempt" => MoreUnits /\ send.tries < output.attempts
    /\ send.pc = "commit" => ~MoreUnits /\ output.tx

SendInv ==
    /\ send \in Send /\ received \in [Ids -> Nat] /\ lost \in Nat
    /\ send.pc = "idle" => Untouched
    /\ send.pc # "idle" => /\ records \in Seq(Ids) /\ Distinct(records)
                           /\ output \in OutputConfigs
    /\ Busy => /\ Stage
               /\ At(output, records, send.unit, send.tries, send.sent, send.written,
                     received, lost, Mode)
    /\ Returned => Ended(output, records, send.sent, send.failed, received, lost, Mode)

(* What the model calls Unit, Carried, CarriesPart, MoreUnits and Taken is *)
(* what the lemmas above speak of.                                         *)
LEMMA SendTerms ==
  /\ \A u : /\ Unit(u) = UnitOf(output, records, u)
            /\ FirstOf(u) = FirstIn(output, records, u)
            /\ Carried(u) = CarriedOf(output, records, u)
            /\ CarriedUpTo(u) = HeldOf(output, records, u)
  /\ MoreUnits <=> MoreOf(output, records, send.unit)
  /\ CarriesPart <=> PartOf(output)
  /\ Taken = TakenOf(received)
<1>1. UnitSize = SizeOf(output, records)
  BY DEF UnitSize, SizeOf
<1>2. /\ MoreUnits <=> MoreOf(output, records, send.unit)
      /\ CarriesPart <=> PartOf(output)
      /\ Taken = TakenOf(received)
  BY <1>1 DEF MoreUnits, MoreOf, CarriesPart, PartOf, Taken, TakenOf
<1>3. ASSUME NEW u
      PROVE  /\ Unit(u) = UnitOf(output, records, u)
             /\ FirstOf(u) = FirstIn(output, records, u)
  BY <1>1 DEF Unit, UnitOf, FirstOf, FirstIn
<1>4. ASSUME NEW u PROVE Carried(u) = CarriedOf(output, records, u)
  <2>1. Unit(u) = UnitOf(output, records, u) /\ FirstOf(u) = FirstIn(output, records, u)
    BY <1>3
  <2> QED BY <2>1 DEF Carried, CarriedOf, InBody, InUrl
<1>5. ASSUME NEW n PROVE CarriedUpTo(n) = HeldOf(output, records, n)
  BY <1>4, Zenon DEF CarriedUpTo, HeldOf
<1> QED BY <1>2, <1>3, <1>4, <1>5

(* The fields of Send's state.                                             *)
LEMMA SendFields ==
  ASSUME send \in Send
  PROVE  /\ send.unit \in Nat \ {0} /\ send.tries \in Nat /\ send.sent \in Nat
         /\ send.written \in SUBSET Ids /\ send.failed \in BOOLEAN
         /\ send.aborted \in BOOLEAN /\ send.rolledBack \in BOOLEAN
         /\ send.pc \in {"idle", "unit", "attempt", "commit", "returned"}
BY DEF Send

(* A request carries its unit, or of a batch template a part of it.        *)
LEMMA CarriedFacts ==
  ASSUME SendInv, Busy, MoreUnits
  PROVE  /\ Carried(send.unit) \in SUBSET Ids
         /\ Carried(send.unit) \subseteq UnitOf(output, records, send.unit)
         /\ Carried(send.unit) = CarriedOf(output, records, send.unit)
         /\ ~PartOf(output) => Carried(send.unit) = UnitOf(output, records, send.unit)
         /\ UnitOf(output, records, send.unit) \in SUBSET Ids
<1> DEFINE n == SizeOf(output, records)
           a == (send.unit - 1) * n
           b == send.unit * n
<1>1. output \in OutputConfigs /\ records \in Seq(Ids) /\ Distinct(records)
      /\ send.unit \in Nat \ {0}
  BY SendFields DEF SendInv, Busy
<1>2. n \in Nat /\ a \in Nat /\ b = a + n /\ Len(records) \in Nat
      /\ DOMAIN records = 1 .. Len(records)
  BY <1>1, SizeType, UnitEnds
<1>3. a < Len(records)
  BY SendTerms DEF MoreOf
<1>4. n > 0
  <2>1. MoreOf(output, records, send.unit)
    BY SendTerms
  <2> QED BY <1>1, <2>1, SizePositive
<1>5. UnitSize = n
  BY DEF UnitSize, SizeOf
<1>6. UnitOf(output, records, send.unit) = {records[i] : i \in {j \in 1 .. Len(records) : a < j /\ j <= b}}
  BY DEF UnitOf
<1>7. FirstOf(send.unit) = {records[i] : i \in DOMAIN records \cap {a + 1}}
  BY <1>5 DEF FirstOf
<1> HIDE DEF n, a, b
<1>8. DOMAIN records \cap {a + 1} \subseteq {j \in 1 .. Len(records) : a < j /\ j <= b}
  BY <1>2, <1>4
<1>9. FirstOf(send.unit) \subseteq UnitOf(output, records, send.unit)
  BY <1>6, <1>7, <1>8
<1>10. UnitOf(output, records, send.unit) \in SUBSET Ids
  BY <1>1, UnitJoins
<1>11. /\ Carried(send.unit) = CarriedOf(output, records, send.unit)
       /\ FirstOf(send.unit) = FirstIn(output, records, send.unit)
  BY SendTerms
<1>12. CarriedOf(output, records, send.unit) \subseteq UnitOf(output, records, send.unit)
  BY <1>9, <1>11 DEF CarriedOf
<1>13. ~PartOf(output)
         => CarriedOf(output, records, send.unit) = UnitOf(output, records, send.unit)
  <2>1. /\ output.body \in {"template", "records", "none"} /\ output.named \in BOOLEAN
        /\ output.single \in BOOLEAN
    BY <1>1, ConfigFacts DEF OutputConfig
  <2>2. CASE output.kind # "http"
    BY <2>2 DEF CarriedOf
  <2>3. CASE output.kind = "http" /\ output.single
    BY <2>1, <2>3 DEF CarriedOf, PartOf
  <2>4. CASE output.kind = "http" /\ ~output.single
    BY <2>1, <2>4, <1>9, <1>11 DEF CarriedOf, PartOf
  <2> QED BY <2>1, <2>2, <2>3, <2>4
<1> QED BY <1>10, <1>11, <1>12, <1>13

(* Send returns its error, from wherever it is.                            *)
LEMMA ReturnsError ==
  ASSUME SendInv, UNCHANGED <<records, output>>, Busy,
         received' \in [Ids -> Nat], lost' \in Nat, NEW tries \in Nat, NEW gone \in SUBSET Ids,
         At(output, records, send.unit, tries, send.sent, send.written, received', lost', Mode),
         send' = [send EXCEPT !.pc = "returned", !.failed = TRUE, !.written = gone]
  PROVE  SendInv'
<1>1. send \in Send /\ output \in OutputConfigs /\ records \in Seq(Ids) /\ Distinct(records)
  BY DEF SendInv, Busy
<1>2. /\ send' \in Send /\ send'.pc = "returned" /\ send'.failed = TRUE
      /\ send'.sent = send.sent /\ Mode' = Mode
  BY <1>1 DEF Send, Mode
<1>3. Ended(output, records, send.sent, TRUE, received', lost', Mode)
  <2>1. /\ send.unit \in Nat \ {0} /\ send.tries \in Nat /\ send.sent \in Nat
        /\ send.written \in SUBSET Ids
    BY <1>1, SendFields
  <2> QED BY <1>1, <2>1, EndsWithError
<1> QED BY <1>1, <1>2, <1>3 DEF SendInv, Busy, Returned

(* Send goes on with another unit.                                         *)
LEMMA GoesOn ==
  ASSUME SendInv, UNCHANGED <<records, output>>, Busy,
         received' \in [Ids -> Nat], lost' \in Nat,
         NEW sent \in Nat, NEW written \in SUBSET Ids, NEW aborted \in BOOLEAN,
         NEW rolledBack \in BOOLEAN,
         At(output, records, send.unit + 1, 0, sent, written, received', lost',
            IF output.tx /\ ~rolledBack THEN "open" ELSE "none"),
         send' = [send EXCEPT !.pc = "unit", !.unit = @ + 1, !.tries = 0, !.sent = sent,
                              !.written = written, !.aborted = aborted,
                              !.rolledBack = rolledBack]
  PROVE  SendInv'
<1>1. send \in Send /\ output \in OutputConfigs /\ records \in Seq(Ids) /\ Distinct(records)
  BY DEF SendInv, Busy
<1>2. /\ send'.pc = "unit" /\ send'.unit = send.unit + 1 /\ send'.tries = 0
      /\ send'.sent = sent /\ send'.written = written /\ send'.rolledBack = rolledBack
  BY <1>1 DEF Send
<1>3. send' \in Send
  <2>1. send.unit + 1 \in Nat \ {0} /\ 0 \in Nat
    BY <1>1, SendFields
  <2> QED BY <1>1, <2>1, Zenon DEF Send
<1> QED BY <1>1, <1>2, <1>3 DEF SendInv, Busy, Returned, Stage, Mode

(* A unit fails, after its last attempt or before its first.               *)
LEMMA FailsUnit ==
  ASSUME SendInv, UNCHANGED <<records, output>>, Busy,
         received' \in [Ids -> Nat], lost' \in Nat, NEW tries \in Nat,
         At(output, records, send.unit, tries, send.sent, send.written, received', lost', Mode),
         NEW aborted \in BOOLEAN, UnitFails(aborted)
  PROVE  SendInv'
<1>1. send \in Send /\ output \in OutputConfigs /\ records \in Seq(Ids) /\ Distinct(records)
  BY DEF SendInv, Busy
<1>2. CASE output.onError = "fail"
  <2>1. send' = [send EXCEPT !.pc = "returned", !.failed = TRUE, !.written = {}]
    BY <1>2 DEF UnitFails
  <2>2. {} \in SUBSET Ids
    OBVIOUS
  <2> QED BY <2>1, <2>2, ReturnsError
<1>3. CASE output.onError # "fail"
  <2>1. At(output, records, send.unit + 1, 0, send.sent, send.written, received', lost', Mode)
    BY <1>1, <1>3, SendFields, UnitSkipped
  <2>2. send' = [send EXCEPT !.pc = "unit", !.unit = @ + 1, !.tries = 0, !.sent = send.sent,
                             !.written = send.written, !.aborted = send.aborted \/ aborted,
                             !.rolledBack = send.rolledBack]
    BY <1>1, <1>3 DEF UnitFails, Send
  <2>3. (send.aborted \/ aborted) \in BOOLEAN /\ send.sent \in Nat /\ send.written \in SUBSET Ids
        /\ send.rolledBack \in BOOLEAN
    BY <1>1, SendFields
  <2> QED BY <2>1, <2>2, <2>3, GoesOn DEF Mode
<1> QED BY <1>2, <1>3

(* A failed attempt is repeated, or fails its unit.                        *)
LEMMA RetriesOrFails ==
  ASSUME SendInv, UNCHANGED <<records, output>>, send.pc = "attempt",
         received' \in [Ids -> Nat], lost' \in Nat,
         At(output, records, send.unit, send.tries + 1, send.sent, send.written, received', lost', Mode),
         RetryOrFail
  PROVE  SendInv'
<1>1. /\ send \in Send /\ output \in OutputConfigs /\ records \in Seq(Ids) /\ Distinct(records)
      /\ Busy /\ Stage
  BY DEF SendInv, Busy
<1>2. CASE send.tries + 1 < output.attempts /\ send' = [send EXCEPT !.tries = @ + 1]
  <2>1. /\ send' \in Send /\ send'.pc = "attempt" /\ send'.unit = send.unit
        /\ send'.tries = send.tries + 1 /\ send'.sent = send.sent /\ send'.written = send.written
        /\ Mode' = Mode
    BY <1>1, <1>2 DEF Send, Mode
  <2>2. Stage'
    BY <1>1, <1>2, <2>1 DEF Stage, MoreUnits, UnitSize
  <2> QED BY <1>1, <2>1, <2>2 DEF SendInv, Busy, Returned
<1>3. CASE UnitFails(FALSE)
  <2>1. send.tries + 1 \in Nat
    BY <1>1, SendFields
  <2> QED BY <1>1, <1>3, <2>1, FailsUnit
<1> QED BY <1>2, <1>3 DEF RetryOrFail

-----------------------------------------------------------------------------
(* The steps of Send.                                                      *)

(* What a busy Send has to go by.                                          *)
LEMMA BusyFacts ==
  ASSUME SendInv, Busy
  PROVE  /\ send \in Send /\ received \in [Ids -> Nat] /\ lost \in Nat
         /\ records \in Seq(Ids) /\ Distinct(records) /\ output \in OutputConfigs
         /\ Stage
         /\ At(output, records, send.unit, send.tries, send.sent, send.written, received, lost, Mode)
         /\ send.unit \in Nat \ {0} /\ send.tries \in Nat /\ send.sent \in Nat
         /\ send.written \in SUBSET Ids /\ send.failed \in BOOLEAN
         /\ send.aborted \in BOOLEAN /\ send.rolledBack \in BOOLEAN
<1>1. send \in Send
  BY DEF SendInv
<1> QED BY <1>1, SendFields DEF SendInv, Busy

(* The steps that decide about a unit before anything is sent of it.       *)
UnitStep == NextBatch \/ NextRecord \/ NextEnvelope \/ NextStatement

(* A unit is taken up, fails to render, or is left to the context. *)
LEMMA UnitStepPreserves ==
  ASSUME SendInv, UnitStep
  PROVE  SendInv'
<1>1. /\ send.pc = "unit" /\ MoreUnits /\ UNCHANGED <<records, output, received, lost>>
      /\ StartUnit \/ StopAtContext
  <2>1. send.pc = "unit" /\ MoreUnits /\ (StartUnit \/ StopAtContext)
    BY DEF UnitStep, NextBatch, NextRecord, NextEnvelope, NextStatement, AtUnit
  <2> QED BY <2>1 DEF StartUnit, StopAtContext, fixed
<1>2. Busy
  BY <1>1 DEF Busy
<1>3. /\ send \in Send /\ received' \in [Ids -> Nat] /\ lost' \in Nat
      /\ At(output, records, send.unit, send.tries, send.sent, send.written, received', lost', Mode)
      /\ send.tries = 0 /\ send.tries \in Nat /\ output \in OutputConfigs
      /\ send.written \in SUBSET Ids /\ Stage
  BY <1>1, <1>2, BusyFacts DEF Stage
<1>4. CASE StopAtContext
  <2>1. send' = [send EXCEPT !.pc = "returned", !.failed = TRUE, !.written = send.written]
    BY <1>3, <1>4 DEF StopAtContext, ReturnWith, Send
  <2> QED BY <1>1, <1>2, <1>3, <2>1, ReturnsError
<1>5. CASE UnitFails(FALSE)
  BY <1>1, <1>2, <1>3, <1>5, FailsUnit
<1>6. CASE send' = [send EXCEPT !.pc = "attempt"]
  <2>1. /\ send' \in Send /\ send'.pc = "attempt" /\ send'.unit = send.unit
        /\ send'.tries = send.tries /\ send'.sent = send.sent /\ send'.written = send.written
        /\ Mode' = Mode
    BY <1>1, <1>3, <1>6 DEF Send, Mode
  <2>2. 0 < output.attempts
    BY <1>3, ConfigFacts
  <2>3. Stage'
    BY <1>1, <1>3, <2>1, <2>2 DEF Stage, MoreUnits, UnitSize
  <2> QED BY <1>1, <1>2, <1>3, <2>1, <2>3, BusyFacts DEF SendInv, Busy, Returned
<1> QED BY <1>1, <1>4, <1>5, <1>6 DEF StartUnit

(* After the last unit Send returns, or commits.                           *)
LEMMA LastUnitDonePreserves ==
  ASSUME SendInv, LastUnitDone
  PROVE  SendInv'
<1>1. /\ send.pc = "unit" /\ ~MoreUnits /\ UNCHANGED <<records, output, received, lost>> /\ Busy
  BY DEF LastUnitDone, fixed, Busy
<1>2. ~MoreOf(output, records, send.unit) /\ send.tries = 0
  BY <1>1, SendTerms, BusyFacts DEF Stage
<1>3. CASE output.tx
  <2>1. send' = [send EXCEPT !.pc = "commit"]
    BY <1>3 DEF LastUnitDone
  <2>2. /\ send' \in Send /\ send'.pc = "commit" /\ send'.unit = send.unit
        /\ send'.tries = send.tries /\ send'.sent = send.sent /\ send'.written = send.written
        /\ Mode' = Mode
    BY <1>1, <2>1, BusyFacts DEF Send, Mode
  <2>3. Stage'
    BY <1>1, <1>3, <2>2 DEF Stage, MoreUnits, UnitSize
  <2> QED BY <1>1, <2>2, <2>3, BusyFacts DEF SendInv, Busy, Returned
<1>4. CASE ~output.tx
  <2>1. send' = [send EXCEPT !.pc = "returned", !.failed = FALSE]
    BY <1>4 DEF LastUnitDone, ReturnWith
  <2>2. /\ send' \in Send /\ send'.pc = "returned" /\ send'.sent = send.sent
        /\ send'.failed = FALSE /\ Mode' = Mode
    BY <1>1, <2>1, BusyFacts DEF Send, Mode
  <2>3. Ended(output, records, send.sent, FALSE, received, lost, Mode)
    BY <1>1, <1>2, <1>4, BusyFacts, EndsWithoutError
  <2> QED BY <1>1, <2>2, <2>3, BusyFacts DEF SendInv, Busy, Returned
<1> QED BY <1>3, <1>4

(* The steps that end an attempt at a request.                             *)
RequestStep == \/ RequestSucceeds \/ RequestRefused \/ AnswerLost \/ RequestNotBuilt
               \/ CallNotBuilt \/ AnswerNotSuccess \/ EnvelopeNotSuccess \/ RequestInterrupted

(* A request is for a unit, and requests know no transaction.              *)
LEMMA AttemptFacts ==
  ASSUME SendInv, send.pc = "attempt"
  PROVE  /\ Busy /\ MoreUnits /\ MoreOf(output, records, send.unit)
         /\ send.tries < output.attempts
         /\ output.kind # "database" => ~output.tx
<1>1. Busy /\ MoreUnits /\ send.tries < output.attempts /\ output \in OutputConfigs
  BY DEF SendInv, Busy, Stage
<1> QED BY <1>1, ConfigFacts, SendTerms

(* The destination takes what an attempt carries; its answer is lost.      *)
LEMMA CarriedTaken ==
  ASSUME SendInv, send.pc = "attempt", Mode # "open",
         NEW ids \in SUBSET Ids, ids \subseteq UnitOf(output, records, send.unit),
         PartOf(output) => ids = CarriedOf(output, records, send.unit),
         ~PartOf(output) => ids = UnitOf(output, records, send.unit),
         Take(ids), lost' = lost + 1
  PROVE  /\ At(output, records, send.unit, send.tries + 1, send.sent, send.written, received', lost', Mode)
         /\ received' \in [Ids -> Nat] /\ lost' \in Nat
<1>1. Busy /\ send.tries < output.attempts
  BY AttemptFacts
<1>2. received' = Added(received, ids)
  BY DEF Take, Added
<1>3. At(output, records, send.unit, send.tries + 1, send.sent, send.written,
         Added(received, ids), lost + 1, Mode)
  BY <1>1, BusyFacts, UnitTaken
<1> QED BY <1>1, <1>2, <1>3, BusyFacts, AddedFacts

(* The destination takes what an attempt carries, and answers.             *)
LEMMA CarriedCounted ==
  ASSUME SendInv, send.pc = "attempt", Mode # "open", UNCHANGED <<records, output, lost>>,
         NEW ids \in SUBSET Ids, ids \subseteq UnitOf(output, records, send.unit),
         PartOf(output) => ids = CarriedOf(output, records, send.unit),
         ~PartOf(output) => ids = UnitOf(output, records, send.unit),
         Take(ids), UnitSent
  PROVE  SendInv'
<1>1. Busy /\ send.tries < output.attempts
  BY AttemptFacts
<1>2. received' = Added(received, ids) /\ received' \in [Ids -> Nat] /\ lost' = lost /\ lost' \in Nat
  BY <1>1, AddedFacts, BusyFacts DEF Take, Added
<1> DEFINE n == Cardinality(UnitOf(output, records, send.unit))
<1>3. At(output, records, send.unit + 1, 0, send.sent + n, send.written, received', lost', Mode)
  BY <1>1, <1>2, BusyFacts, UnitCounted
<1>4. n \in Nat
  BY <1>1, BusyFacts, UnitJoins, SetsOfRecords
<1>5. send' = [send EXCEPT !.pc = "unit", !.unit = @ + 1, !.tries = 0, !.sent = send.sent + n,
                           !.written = send.written, !.aborted = send.aborted,
                           !.rolledBack = send.rolledBack]
  <2>1. send' = [send EXCEPT !.pc = "unit", !.unit = @ + 1, !.tries = 0, !.sent = send.sent + n]
    BY SendTerms DEF UnitSent
  <2> QED BY <1>1, <2>1, BusyFacts DEF Send
<1>6. /\ send.sent + n \in Nat /\ send.written \in SUBSET Ids /\ send.aborted \in BOOLEAN
      /\ send.rolledBack \in BOOLEAN
  BY <1>1, <1>4, BusyFacts
<1> HIDE DEF n
<1> QED BY <1>1, <1>2, <1>3, <1>5, <1>6, GoesOn DEF Mode

(* An attempt at a request succeeds, is repeated, or fails its unit.       *)
LEMMA RequestStepPreserves ==
  ASSUME SendInv, RequestStep
  PROVE  SendInv'
<1>1. /\ send.pc = "attempt" /\ output.kind # "database" /\ UNCHANGED <<records, output>>
  BY DEF RequestStep, RequestSucceeds, RequestRefused, AnswerLost, RequestNotBuilt,
         CallNotBuilt, AnswerNotSuccess, EnvelopeNotSuccess, RequestInterrupted, IsRequest, fixed
<1>2. Busy /\ MoreUnits /\ send.tries < output.attempts /\ Mode # "open"
  BY <1>1, AttemptFacts DEF Mode
<1> DEFINE ids == Carried(send.unit)
<1>3. /\ ids \in SUBSET Ids /\ ids \subseteq UnitOf(output, records, send.unit)
      /\ PartOf(output) => ids = CarriedOf(output, records, send.unit)
      /\ ~PartOf(output) => ids = UnitOf(output, records, send.unit)
  BY <1>2, CarriedFacts
<1> HIDE DEF ids
<1>4. CASE RequestSucceeds
  BY <1>1, <1>2, <1>3, <1>4, CarriedCounted DEF RequestSucceeds, fixed, ids
<1>5. ASSUME UNCHANGED <<received, lost>>, RetryOrFail \/ UnitFails(FALSE) PROVE SendInv'
  <2>1. /\ At(output, records, send.unit, send.tries + 1, send.sent, send.written, received', lost', Mode)
        /\ received' \in [Ids -> Nat] /\ lost' \in Nat /\ send.tries + 1 \in Nat
    BY <1>2, <1>5, BusyFacts, AttemptMade
  <2> QED BY <1>1, <1>2, <1>5, <2>1, RetriesOrFails, FailsUnit
<1>6. ASSUME Take(ids), lost' = lost + 1, RetryOrFail \/ UnitFails(FALSE) PROVE SendInv'
  <2>1. /\ At(output, records, send.unit, send.tries + 1, send.sent, send.written, received', lost', Mode)
        /\ received' \in [Ids -> Nat] /\ lost' \in Nat
    BY <1>1, <1>2, <1>3, <1>6, CarriedTaken
  <2>2. send.tries + 1 \in Nat
    BY <1>2, BusyFacts
  <2> QED BY <1>1, <1>2, <1>6, <2>1, <2>2, RetriesOrFails, FailsUnit
<1>7. CASE RequestRefused \/ RequestNotBuilt \/ CallNotBuilt \/ RequestInterrupted
  BY <1>5, <1>7 DEF RequestRefused, RequestNotBuilt, CallNotBuilt, RequestInterrupted
<1>8. CASE AnswerLost \/ AnswerNotSuccess \/ EnvelopeNotSuccess
  BY <1>6, <1>8 DEF AnswerLost, AnswerNotSuccess, EnvelopeNotSuccess, ids
<1> QED BY <1>4, <1>7, <1>8 DEF RequestStep

(* The steps that end a statement.                                         *)
StatementStep == \/ StatementWithoutPool \/ ExecuteAlone \/ ExecuteInTransaction
                 \/ TransactionLost \/ ExecuteAfterRollback \/ StatementRefused

(* A statement is done, alone or in its transaction, or fails.             *)
LEMMA StatementStepPreserves ==
  ASSUME SendInv, StatementStep
  PROVE  SendInv'
<1>1. send.pc = "attempt" /\ output.kind = "database" /\ UNCHANGED <<records, output>>
  BY DEF StatementStep, StatementWithoutPool, ExecuteAlone, ExecuteInTransaction,
         TransactionLost, ExecuteAfterRollback, StatementRefused, InTransaction,
         AtStatement, fixed
<1>2. /\ Busy /\ MoreUnits /\ MoreOf(output, records, send.unit)
      /\ send.tries < output.attempts /\ output \in OutputConfigs
  BY <1>1, AttemptFacts, BusyFacts
<1>3. ~CarriesPart /\ Unit(send.unit) = UnitOf(output, records, send.unit) /\ ~PartOf(output)
      /\ UnitOf(output, records, send.unit) \in SUBSET Ids
  BY <1>1, <1>2, SendTerms, CarriedFacts DEF CarriesPart, PartOf
<1>4. ASSUME UNCHANGED <<received, lost>>, NEW ends \in BOOLEAN, UnitFails(ends) PROVE SendInv'
  BY <1>1, <1>2, <1>4, BusyFacts, FailsUnit
<1>5. CASE StatementWithoutPool
  <2>1. send' = [send EXCEPT !.pc = "returned", !.failed = TRUE]
        /\ UNCHANGED <<received, lost>>
    BY <1>5 DEF StatementWithoutPool, ReturnWith
  <2>2. send' = [send EXCEPT !.pc = "returned", !.failed = TRUE, !.written = send.written]
    BY <1>2, <2>1, BusyFacts DEF Send
  <2> QED BY <1>1, <1>2, <2>1, <2>2, BusyFacts, ReturnsError
<1>6. ASSUME Mode # "open", NEW ends \in BOOLEAN,
             \/ Take(Unit(send.unit)) /\ UnitSent /\ UNCHANGED lost
             \/ UnitFails(ends) /\ UNCHANGED <<received, lost>>
             \/ Take(Unit(send.unit)) /\ lost' = lost + 1 /\ UnitFails(ends)
      PROVE  SendInv'
  <2>2. CASE Take(Unit(send.unit)) /\ UnitSent /\ UNCHANGED lost
    BY <1>1, <1>3, <1>6, <2>2, CarriedCounted
  <2>3. CASE UnitFails(ends) /\ UNCHANGED <<received, lost>>
    BY <1>4, <2>3
  <2>4. CASE Take(Unit(send.unit)) /\ lost' = lost + 1 /\ UnitFails(ends)
    <3>1. /\ At(output, records, send.unit, send.tries + 1, send.sent, send.written, received', lost', Mode)
          /\ received' \in [Ids -> Nat] /\ lost' \in Nat
      BY <1>1, <1>3, <1>6, <2>4, CarriedTaken
    <3>2. send.tries + 1 \in Nat
      BY <1>2, BusyFacts
    <3> QED BY <1>1, <1>2, <2>4, <3>1, <3>2, FailsUnit
  <2> QED BY <1>6, <2>2, <2>3, <2>4
<1>9. CASE ExecuteAlone
  <2>1. Mode # "open"
    BY <1>9 DEF ExecuteAlone, AtStatement, Mode
  <2> QED BY <1>6, <1>9, <2>1 DEF ExecuteAlone
<1>10. CASE ExecuteAfterRollback
  <2>1. Mode # "open"
    BY <1>10 DEF ExecuteAfterRollback, Mode
  <2> QED BY <1>6, <1>10, <2>1 DEF ExecuteAfterRollback
<1>11. CASE TransactionLost
  <2>1. UNCHANGED <<received, lost>> /\ {} \in SUBSET Ids
    BY <1>11 DEF TransactionLost
  <2>2. CASE output.onError = "fail"
    <3>1. send' = [send EXCEPT !.pc = "returned", !.failed = TRUE, !.written = {}]
      BY <1>11, <2>2 DEF TransactionLost
    <3> QED BY <1>1, <1>2, <2>1, <3>1, BusyFacts, ReturnsError
  <2>3. CASE output.onError # "fail"
    <3>1. send' = [send EXCEPT !.pc = "unit", !.unit = @ + 1, !.tries = 0, !.sent = send.sent,
                               !.written = {}, !.aborted = send.aborted, !.rolledBack = TRUE]
      BY <1>2, <1>11, <2>3, BusyFacts DEF TransactionLost, Send
    <3>2. At(output, records, send.unit + 1, 0, send.sent, {}, received', lost', "none")
      BY <1>2, <2>1, <2>3, BusyFacts, RowsLost
    <3>3. (IF output.tx /\ ~TRUE THEN "open" ELSE "none") = "none"
      OBVIOUS
    <3>4. received' \in [Ids -> Nat] /\ lost' \in Nat /\ send.sent \in Nat /\ TRUE \in BOOLEAN
          /\ send.aborted \in BOOLEAN
      BY <1>2, <2>1, BusyFacts
    <3> QED BY <1>1, <1>2, <2>1, <3>1, <3>2, <3>3, <3>4, GoesOn
  <2> QED BY <2>2, <2>3
<1>7. CASE ExecuteInTransaction
  <2>1. Mode = "open" /\ UNCHANGED <<received, lost>>
    BY <1>7 DEF ExecuteInTransaction, InTransaction, AtStatement, Mode
  <2>2. CASE send' = [send EXCEPT !.pc = "unit", !.unit = @ + 1, !.tries = 0, !.sent = @ + 1,
                                  !.written = @ \cup Unit(send.unit)]
    <3> DEFINE w == send.written \cup UnitOf(output, records, send.unit)
    <3>1. At(output, records, send.unit + 1, 0, send.sent + 1, w, received', lost', Mode)
      BY <1>2, <2>1, BusyFacts, RowWritten
    <3>2. w \in SUBSET Ids /\ send.sent + 1 \in Nat
      BY <1>2, <1>3, BusyFacts
    <3>4. send' = [send EXCEPT !.pc = "unit", !.unit = @ + 1, !.tries = 0, !.sent = send.sent + 1,
                               !.written = w, !.aborted = send.aborted,
                               !.rolledBack = send.rolledBack]
      BY <1>2, <1>3, <2>2, BusyFacts DEF Send
    <3> HIDE DEF w
    <3> QED BY <1>1, <1>2, <2>1, <3>1, <3>2, <3>4, BusyFacts, GoesOn DEF Mode
  <2>3. CASE \E ends \in BOOLEAN : UnitFails(ends)
    BY <1>4, <2>1, <2>3
  <2> QED BY <1>7, <2>2, <2>3 DEF ExecuteInTransaction
<1>8. CASE StatementRefused
  <2>1. UnitFails(output.tx) /\ UNCHANGED <<received, lost>> /\ output.tx \in BOOLEAN
    BY <1>2, <1>8, ConfigFacts DEF StatementRefused, OutputConfig
  <2> QED BY <1>4, <2>1
<1> QED BY <1>5, <1>7, <1>8, <1>9, <1>10, <1>11 DEF StatementStep

(* The transaction is committed or rolled back.                            *)
LEMMA CommitPreserves ==
  ASSUME SendInv, Commit
  PROVE  SendInv'
<1>1. send.pc = "commit" /\ UNCHANGED <<records, output>> /\ Busy
  BY DEF Commit, fixed, Busy
<1>2. output.tx /\ ~MoreOf(output, records, send.unit)
  BY <1>1, BusyFacts, SendTerms DEF Stage
<1>3. CASE ReturnWith(TRUE) /\ UNCHANGED <<received, lost>>
  <2>1. send' = [send EXCEPT !.pc = "returned", !.failed = TRUE, !.written = send.written]
    BY <1>1, <1>3, BusyFacts DEF ReturnWith, Send
  <2> QED BY <1>1, <1>3, <2>1, BusyFacts, ReturnsError
<1>4. ASSUME NEW failed \in BOOLEAN, ReturnWith(failed), Take(send.written),
             NEW more \in {0, 1}, lost' = lost + more
      PROVE  SendInv'
  <2>1. /\ send'.pc = "returned" /\ send'.sent = send.sent /\ send'.failed = failed
        /\ send' \in Send /\ Mode' = Mode
    <3>1. send' = [send EXCEPT !.pc = "returned", !.failed = failed]
      BY <1>4 DEF ReturnWith
    <3>2. send \in Send
      BY <1>1, BusyFacts
    <3>3. send'.pc = "returned" /\ send'.sent = send.sent /\ send'.failed = failed
          /\ Mode' = Mode
      BY <1>1, <3>1, <3>2 DEF Send, Mode
    <3>4. send' \in Send
      BY <3>1, <3>2, Zenon DEF Send
    <3> QED BY <3>3, <3>4
  <2>2. received' = Added(received, send.written) /\ received' \in [Ids -> Nat] /\ lost' \in Nat
    BY <1>1, <1>4, BusyFacts, AddedFacts DEF Take, Added
  <2>3. Ended(output, records, send.sent, failed, received', lost', Mode)
    <3>1. /\ Ended(output, records, send.sent, TRUE, received', lost', Mode)
          /\ Ended(output, records, send.sent, FALSE, received', lost', Mode)
      <4>1. CASE Mode = "open"
        BY <1>1, <1>2, <1>4, <2>2, <4>1, BusyFacts, EndsCommitted
      <4>2. CASE Mode = "none"
        BY <1>1, <1>2, <1>4, <2>2, <4>2, BusyFacts, EndsRolledBack
      <4> QED BY <4>1, <4>2 DEF Mode
    <3>2. failed = TRUE \/ failed = FALSE
      OBVIOUS
    <3> QED BY <3>1, <3>2, Zenon
  <2> QED BY <1>1, <2>1, <2>2, <2>3, BusyFacts DEF SendInv, Busy, Returned
<1>5. CASE ReturnWith(FALSE) /\ Take(send.written) /\ UNCHANGED lost
  <2>1. lost' = lost + 0
    BY <1>1, <1>5, BusyFacts
  <2> QED BY <1>4, <1>5, <2>1
<1>6. CASE ReturnWith(TRUE) /\ Take(send.written) /\ lost' = lost + 1
  BY <1>4, <1>6
<1> QED BY <1>3, <1>5, <1>6 DEF Commit

(* Every step of a Send under way keeps the invariant.                     *)
LEMMA SendStepPreserves ==
  ASSUME SendInv, SendStep
  PROVE  SendInv'
BY UnitStepPreserves, LastUnitDonePreserves, RequestStepPreserves, StatementStepPreserves,
   CommitPreserves DEF SendStep, UnitStep, RequestStep, StatementStep

(* Send begins with a batch in which no record is twice.                   *)
LEMMA BeginSendPreserves ==
  ASSUME SendInv, send.pc = "idle", UNCHANGED records, records \in Seq(Ids), Distinct(records),
         NEW o \in OutputConfigs, SendNothing(o) \/ SendRequests(o) \/ SendStatements(o)
  PROVE  SendInv'
<1>1. /\ output' = o /\ UNCHANGED <<received, lost>>
      /\ send = Idle /\ received \in [Ids -> Nat] /\ lost = 0 /\ TakenOf(received) = {}
      /\ \/ send' = [send EXCEPT !.pc = "unit"]
         \/ ReturnWith(FALSE) /\ records = <<>>
         \/ ReturnWith(TRUE)
  <2>1. send = Idle /\ received \in [Ids -> Nat] /\ lost = 0 /\ TakenOf(received) = {}
    BY SendTerms DEF SendInv, Untouched
  <2>2. CASE SendNothing(o)
    BY <2>1, <2>2 DEF SendNothing, Configure
  <2>3. CASE SendRequests(o)
    BY <2>1, <2>3 DEF SendRequests, Configure
  <2>4. CASE SendStatements(o)
    BY <2>1, <2>4 DEF SendStatements, Configure
  <2> QED BY <2>2, <2>3, <2>4
<1> DEFINE mode == IF o.tx THEN "open" ELSE "none"
<1>2. BeforeOf(o, records, 1) = {} /\ {} \in SUBSET Ids /\ Cardinality({}) = 0
  BY UnitBounds, FS_EmptySet
<1>3. \A r \in Ids : received[r] = 0
  BY <1>1 DEF TakenOf
<1>4. At(o, records, 1, 0, 0, {}, received, 0, mode)
  <2>1. Repeats(o, records, 1, 0, received, 0)
    <3>1. 0 <= o.attempts
      BY ConfigFacts
    <3> QED BY <1>3, <3>1 DEF Repeats
  <2>2. InOrder(o, records, 1, received) /\ Pending(o, records, 1, 0, {}, received, mode)
    <3>1. HeldOf(o, records, 1 - 1) = {}
      <4>1. 1 - 1 = 0 /\ 0 \in Nat
        OBVIOUS
      <4> QED BY <4>1, HeldGrows
    <3> QED BY <1>1, <1>2, <3>1 DEF InOrder, Pending
  <2>3. Counts(o, records, 1, 0, received, 0)
    <3>1. 0 + 0 * MaxRecords = 0 /\ 0 <= 0
      BY BatchAssumption
    <3>2. TakenOf(received) \cap BeforeOf(o, records, 1) = {}
      BY <1>2
    <3>3. /\ Cardinality(BeforeOf(o, records, 1)) = 0 /\ Cardinality(TakenOf(received)) = 0
          /\ Cardinality(TakenOf(received) \cap BeforeOf(o, records, 1)) = 0
      BY <1>1, <1>2, <3>2
    <3> QED BY <3>1, <3>3 DEF Counts
  <2> QED BY <2>1, <2>2, <2>3 DEF At
<1>5. /\ records' = records /\ received' = received /\ lost' = 0 /\ lost' \in Nat
      /\ 1 \in Nat \ {0} /\ 0 \in Nat
  BY <1>1
<1>6. CASE send' = [send EXCEPT !.pc = "unit"]
  <2>1. send' = [pc |-> "unit", unit |-> 1, tries |-> 0, sent |-> 0, written |-> {},
                 aborted |-> FALSE, rolledBack |-> FALSE, failed |-> FALSE]
    BY <1>1, <1>6 DEF Idle
  <2>2. /\ send' \in Send /\ send'.pc = "unit" /\ send'.unit = 1 /\ send'.tries = 0
        /\ send'.sent = 0 /\ send'.written = {} /\ Mode' = mode
    BY <1>1, <1>2, <1>5, <2>1 DEF Send, Mode
  <2>3. Stage'
    BY <2>2 DEF Stage
  <2> QED BY <1>1, <1>4, <1>5, <2>2, <2>3 DEF SendInv, Busy, Returned
<1>7. ASSUME NEW failed \in BOOLEAN, ReturnWith(failed), ~failed => records = <<>>
      PROVE  SendInv'
  <2>1. send' = [pc |-> "returned", unit |-> 1, tries |-> 0, sent |-> 0, written |-> {},
                 aborted |-> FALSE, rolledBack |-> FALSE, failed |-> failed]
    BY <1>1, <1>7 DEF Idle, ReturnWith
  <2>2. /\ send' \in Send /\ send'.pc = "returned" /\ send'.sent = 0 /\ send'.failed = failed
        /\ Mode' = mode
    BY <1>1, <1>2, <1>5, <2>1 DEF Send, Mode
  <2>3. Ended(o, records, 0, TRUE, received, 0, mode)
    BY <1>1, <1>2, <1>4, <1>5, EndsWithError
  <2>4. ~failed => TakenOf(received) = IF PartOf(o) THEN HeldOf(o, records, Len(records))
                                                    ELSE ToSet(records)
    <3>1. 0 \in Nat /\ (records = <<>> => Len(records) = 0)
      OBVIOUS
    <3>2. HeldOf(o, records, 0) = {}
      BY <3>1, HeldGrows
    <3> QED BY <1>1, <1>7, <3>1, <3>2 DEF ToSet
  <2>5. Ended(o, records, 0, failed, received, 0, mode)
    <3>1. 0 <= Cardinality(TakenOf(received)) /\ Cardinality(TakenOf(received)) <= 0 + 0 * MaxRecords
      BY <1>1, <1>2, BatchAssumption
    <3> QED BY <2>3, <2>4, <3>1 DEF Ended
  <2> QED BY <1>1, <1>5, <2>2, <2>5 DEF SendInv, Busy, Returned
<1> QED BY <1>1, <1>6, <1>7

(* What does not concern Send leaves it as it is.                          *)
LEMMA SendStands ==
  ASSUME SendInv, UNCHANGED <<send, received, lost>>,
         send.pc = "idle" \/ UNCHANGED <<records, output>>
  PROVE  SendInv'
<1>1. CASE send.pc = "idle"
  BY <1>1 DEF SendInv, Untouched, Busy, Returned, Taken
<1>2. CASE UNCHANGED <<records, output>>
  BY <1>2 DEF SendInv, Untouched, Busy, Returned, Taken, Stage, MoreUnits, UnitSize, Mode
<1> QED BY <1>1, <1>2

-----------------------------------------------------------------------------
(* What the invariant says of the destination.                             *)

(* The counts of a Send that returned fit what the destination has.        *)
LEMMA CountFollows ==
  ASSUME SendInv
  PROVE  CountIsReceived
<1> SUFFICES ASSUME Returned, output # NoOutput
             PROVE  /\ Cardinality(Taken) <= send.sent + lost * MaxRecords
                    /\ ~(output.tx /\ (send.failed \/ send.rolledBack)) /\ ~CarriesPart
                         => send.sent <= Cardinality(Taken)
  BY DEF CountIsReceived
<1>1. Ended(output, records, send.sent, send.failed, received, lost, Mode)
  BY DEF SendInv
<1>2. Mode # "open" => ~output.tx \/ send.rolledBack
  BY DEF Mode
<1> QED BY <1>1, <1>2, SendTerms DEF Ended

(* What Send owes the destination, whether or not it has returned, follows *)
(* from what it owes it on returning with an error.                        *)
LEMMA DestinationOf ==
  ASSUME output \in OutputConfigs, received \in [Ids -> Nat], lost \in Nat,
         NEW failed, Ended(output, records, send.sent, failed, received, lost, Mode),
         Returned => failed = send.failed,
         Mode = "open" /\ Taken # {} => Returned
  PROVE  DestinationIsExact
<1>1. Taken = TakenOf(received) /\ (CarriesPart <=> PartOf(output))
      /\ \A n : CarriedUpTo(n) = HeldOf(output, records, n)
  BY SendTerms
<1>2. FailStopsInOrder
  <2> SUFFICES ASSUME output.onError = "fail"
               PROVE  /\ \E n \in 0 .. Len(records) :
                            Taken = IF CarriesPart THEN CarriedUpTo(n)
                                                   ELSE ToSet(SubSeq(records, 1, n))
                      /\ Returned /\ ~send.failed =>
                            Taken = IF CarriesPart THEN CarriedUpTo(Len(records))
                                                   ELSE ToSet(records)
    BY DEF FailStopsInOrder
  <2>1. PICK n \in 0 .. Len(records) :
           TakenOf(received) = IF PartOf(output) THEN HeldOf(output, records, n)
                                                 ELSE ToSet(SubSeq(records, 1, n))
    BY DEF Ended
  <2>2. Taken = IF CarriesPart THEN CarriedUpTo(n) ELSE ToSet(SubSeq(records, 1, n))
    BY <1>1, <2>1
  <2>3. ~failed => TakenOf(received) = IF PartOf(output) THEN HeldOf(output, records, Len(records))
                                                         ELSE ToSet(records)
    BY DEF Ended
  <2>4. Returned /\ ~send.failed => Taken = IF CarriesPart THEN CarriedUpTo(Len(records))
                                                          ELSE ToSet(records)
    BY <1>1, <2>3
  <2> QED BY <2>2, <2>4
<1>3. TransactionAllOrNothing
  <2>1. output.tx /\ ~send.rolledBack => Mode = "open"
    BY DEF Mode
  <2> QED BY <1>1, <2>1 DEF TransactionAllOrNothing, Ended
<1>4. DuplicatesNeedLostAnswers
  <2>1. output.attempts \in Nat \ {0}
    BY ConfigFacts
  <2>2. \A r \in Ids : /\ received[r] \in Nat
                      /\ received[r] <= 1 + lost /\ received[r] <= output.attempts
    BY DEF Ended
  <2> QED BY <2>1, <2>2 DEF DuplicatesNeedLostAnswers
<1> QED BY <1>2, <1>3, <1>4 DEF DestinationIsExact

(* The destination is exact, whether or not Send has returned.             *)
LEMMA DestinationFollows ==
  ASSUME SendInv, send.pc = "idle" => records \in Seq(Ids)
  PROVE  DestinationIsExact
<1>1. CASE send.pc = "idle"
  <2>1. Taken = {} /\ lost = 0 /\ received \in [Ids -> Nat] /\ ~Returned
    BY <1>1 DEF SendInv, Untouched, Returned
  <2>2. \E n \in 0 .. Len(records) :
           Taken = IF CarriesPart THEN CarriedUpTo(n) ELSE ToSet(SubSeq(records, 1, n))
    <3>1. 0 \in 0 .. Len(records) /\ SubSeq(records, 1, 0) = <<>> /\ 1 .. 0 = {}
      BY <1>1
    <3>2. CarriedUpTo(0) = {}
      BY <3>1 DEF CarriedUpTo
    <3> QED BY <2>1, <3>1, <3>2 DEF ToSet
  <2>3. \A r \in Ids : received[r] = 0
    BY <2>1 DEF Taken
  <2> QED BY <2>1, <2>2, <2>3 DEF DestinationIsExact, FailStopsInOrder, TransactionAllOrNothing,
                                  DuplicatesNeedLostAnswers
<1>2. CASE Busy
  <2>1. /\ Ended(output, records, send.sent, TRUE, received, lost, Mode) /\ ~Returned
        /\ Mode = "open" => TakenOf(received) = {}
    BY <1>2, BusyFacts, EndsWithError DEF Busy, Returned, At, Pending
  <2> QED BY <1>2, <2>1, BusyFacts, SendTerms, DestinationOf
<1>3. CASE Returned
  <2>1. /\ Ended(output, records, send.sent, send.failed, received, lost, Mode)
        /\ output \in OutputConfigs /\ received \in [Ids -> Nat] /\ lost \in Nat
    BY <1>3 DEF SendInv, Returned
  <2> QED BY <1>3, <2>1, DestinationOf
<1>4. send.pc \in {"idle", "unit", "attempt", "commit", "returned"}
  BY SendFields DEF SendInv
<1> QED BY <1>1, <1>2, <1>3, <1>4 DEF Busy, Returned

-----------------------------------------------------------------------------
(* The chain of calls and the stages of an execution.                      *)

(* A frame as far as the argument looks at it: what its records are does   *)
(* not matter.                                                             *)
AnyFrame == [filter : Filters, todo : Seq(Nat), out : Seq(Nat),
             at : {"record", "item", "nested"}, nested : Seq(Nat),
             ran : Nat, items : Nat]

Inside(frame) == frame.filter.kind = "loop" /\ frame.at # "record"

InScopeOf(s) == {s[i].filter.alias : i \in {j \in DOMAIN s : Inside(s[j])}}

(* What holds of the stack s and the aliases in scope.                     *)
Scoped(s, names) ==
    /\ s \in Seq(AnyFrame)
    /\ \A i \in DOMAIN s : s[i].at # "record" => s[i].todo # <<>>
    /\ \A i \in DOMAIN s : i < Len(s) => s[i].at = "nested"
    /\ names = InScopeOf(s)
    /\ \A i, j \in DOMAIN s :
          Inside(s[i]) /\ Inside(s[j]) /\ s[i].filter.alias = s[j].filter.alias => i = j

ScopeInv ==
    /\ Scoped(stack, aliases)
    /\ raised /\ stack # <<>> => top.at = "nested"
    /\ phase = "filter" => records \in Seq(Nat)
    /\ phase \in {"connect", "input"} => stack = <<>>

-----------------------------------------------------------------------------
(* What becomes of a stack.                                                *)

(* The alias of a frame, if it is in scope.                                *)
NameOf(frame) == IF Inside(frame) THEN {frame.filter.alias} ELSE {}

(* The innermost frame changes.                                            *)
LEMMA TopChanges ==
  ASSUME NEW s, NEW names, Scoped(s, names), s # <<>>,
         NEW frame \in AnyFrame, frame.filter = Last(s).filter,
         frame.at # "record" => frame.todo # <<>>,
         Inside(frame) /\ ~Inside(Last(s)) => frame.filter.alias \notin names
  PROVE  Scoped([s EXCEPT ![Len(s)] = frame], (names \ NameOf(Last(s))) \cup NameOf(frame))
<1> DEFINE t == [s EXCEPT ![Len(s)] = frame]
           new == (names \ NameOf(Last(s))) \cup NameOf(frame)
<1>1. /\ s \in Seq(AnyFrame) /\ Len(s) \in Nat \ {0} /\ DOMAIN s = 1 .. Len(s)
      /\ Last(s) = s[Len(s)]
  BY DEF Scoped, Last
<1>2. /\ t \in Seq(AnyFrame) /\ Len(t) = Len(s) /\ DOMAIN t = DOMAIN s
      /\ t[Len(s)] = frame
      /\ \A i \in DOMAIN s : i # Len(s) => t[i] = s[i]
  BY <1>1
<1>3. Inside(frame) => \A i \in DOMAIN s :
         i # Len(s) /\ Inside(s[i]) => s[i].filter.alias # frame.filter.alias
  <2> SUFFICES ASSUME Inside(frame), NEW i \in DOMAIN s, i # Len(s), Inside(s[i])
               PROVE  s[i].filter.alias # frame.filter.alias
    OBVIOUS
  <2>1. CASE Inside(Last(s))
    BY <2>1, <1>1 DEF Scoped
  <2>2. CASE ~Inside(Last(s))
    BY <2>2 DEF Scoped, InScopeOf
  <2> QED BY <2>1, <2>2
<1>4. new = InScopeOf(t)
  <2>1. ASSUME NEW n \in new PROVE n \in InScopeOf(t)
    <3>1. CASE n \in names \ NameOf(Last(s))
      <4>1. PICK i \in DOMAIN s : Inside(s[i]) /\ n = s[i].filter.alias
        BY <3>1 DEF Scoped, InScopeOf
      <4>2. i # Len(s)
        BY <4>1, <3>1, <1>1 DEF NameOf
      <4> QED BY <4>1, <4>2, <1>2 DEF InScopeOf
    <3>2. CASE n \in NameOf(frame)
      <4>1. Inside(frame) /\ n = frame.filter.alias
        BY <3>2 DEF NameOf
      <4> QED BY <4>1, <1>1, <1>2 DEF InScopeOf
    <3> QED BY <2>1, <3>1, <3>2
  <2>2. ASSUME NEW n \in InScopeOf(t) PROVE n \in new
    <3>1. PICK i \in DOMAIN t : Inside(t[i]) /\ n = t[i].filter.alias
      BY <2>2 DEF InScopeOf
    <3>2. CASE i = Len(s)
      BY <3>1, <3>2, <1>2 DEF NameOf
    <3>3. CASE i # Len(s)
      <4>1. Inside(s[i]) /\ n = s[i].filter.alias
        BY <3>1, <3>3, <1>2
      <4>2. n \in names
        BY <4>1, <1>2 DEF Scoped, InScopeOf
      <4>3. n \notin NameOf(Last(s))
        BY <4>1, <3>3, <1>1, <1>2 DEF Scoped, NameOf
      <4> QED BY <4>2, <4>3
    <3> QED BY <3>2, <3>3
  <2> QED BY <2>1, <2>2
<1>5. \A i \in DOMAIN t : t[i].at # "record" => t[i].todo # <<>>
  BY <1>1, <1>2 DEF Scoped
<1>6. \A i \in DOMAIN t : i < Len(t) => t[i].at = "nested"
  BY <1>1, <1>2 DEF Scoped
<1>7. ASSUME NEW i \in DOMAIN t, NEW j \in DOMAIN t, Inside(t[i]), Inside(t[j]),
             t[i].filter.alias = t[j].filter.alias
      PROVE  i = j
  <2>1. CASE i # Len(s) /\ j # Len(s)
    BY <2>1, <1>7, <1>2 DEF Scoped
  <2>2. CASE i = Len(s) \/ j = Len(s)
    BY <2>2, <1>7, <1>2, <1>3
  <2> QED BY <2>1, <2>2
<1> QED BY <1>2, <1>4, <1>5, <1>6, <1>7 DEF Scoped

(* The innermost call returns.                                             *)
LEMMA TopGoes ==
  ASSUME NEW s, NEW names, Scoped(s, names), s # <<>>
  PROVE  /\ Scoped(Front(s), names \ NameOf(Last(s)))
         /\ Front(s) # <<>> => Last(Front(s)).at = "nested"
<1> DEFINE t == Front(s)
           new == names \ NameOf(Last(s))
<1>1. /\ s \in Seq(AnyFrame) /\ Len(s) \in Nat \ {0} /\ DOMAIN s = 1 .. Len(s)
      /\ Last(s) = s[Len(s)]
  BY DEF Scoped, Last
<1>2. /\ t \in Seq(AnyFrame) /\ Len(t) = Len(s) - 1 /\ DOMAIN t = 1 .. Len(s) - 1
      /\ \A i \in DOMAIN t : i \in DOMAIN s /\ i < Len(s) /\ t[i] = s[i]
  BY <1>1 DEF Front
<1>3. new = InScopeOf(t)
  <2>1. ASSUME NEW n \in new PROVE n \in InScopeOf(t)
    <3>1. PICK i \in DOMAIN s : Inside(s[i]) /\ n = s[i].filter.alias
      BY <2>1 DEF Scoped, InScopeOf
    <3>2. i # Len(s)
      BY <3>1, <2>1, <1>1 DEF NameOf
    <3>3. i \in DOMAIN t
      BY <3>2, <1>1, <1>2
    <3> QED BY <3>1, <3>3, <1>2 DEF InScopeOf
  <2>2. ASSUME NEW n \in InScopeOf(t) PROVE n \in new
    <3>1. PICK i \in DOMAIN t : Inside(t[i]) /\ n = t[i].filter.alias
      BY <2>2 DEF InScopeOf
    <3>2. i \in DOMAIN s /\ i < Len(s) /\ Inside(s[i]) /\ n = s[i].filter.alias
      BY <3>1, <1>2
    <3>3. n \in names
      BY <3>2 DEF Scoped, InScopeOf
    <3>4. n \notin NameOf(Last(s))
      BY <3>2, <1>1 DEF Scoped, NameOf
    <3> QED BY <3>3, <3>4
  <2> QED BY <2>1, <2>2
<1>4. \A i \in DOMAIN t : t[i].at = "nested" /\ t[i].todo # <<>>
  BY <1>2 DEF Scoped
<1>5. \A i, j \in DOMAIN t :
         Inside(t[i]) /\ Inside(t[j]) /\ t[i].filter.alias = t[j].filter.alias => i = j
  BY <1>2 DEF Scoped
<1>6. t # <<>> => Last(t).at = "nested"
  BY <1>2, <1>4 DEF Last
<1> QED BY <1>2, <1>3, <1>4, <1>5, <1>6 DEF Scoped

(* A Process is called, by executeFilters or inside nested filters.        *)
LEMMA TopComes ==
  ASSUME NEW s, NEW names, Scoped(s, names), s # <<>> => Last(s).at = "nested",
         NEW frame \in AnyFrame, frame.at = "record"
  PROVE  Scoped(Append(s, frame), names)
<1> DEFINE t == Append(s, frame)
<1>1. /\ s \in Seq(AnyFrame) /\ Len(s) \in Nat /\ DOMAIN s = 1 .. Len(s)
      /\ s # <<>> => s[Len(s)].at = "nested"
  BY DEF Scoped, Last
<1>2. /\ t \in Seq(AnyFrame) /\ Len(t) = Len(s) + 1 /\ DOMAIN t = 1 .. Len(s) + 1
      /\ t[Len(s) + 1] = frame /\ \A i \in DOMAIN s : i \in DOMAIN t /\ t[i] = s[i]
  BY <1>1
<1>3. \A i \in DOMAIN t : Inside(t[i]) => i \in DOMAIN s /\ t[i] = s[i]
  BY <1>1, <1>2 DEF Inside
<1>4. names = InScopeOf(t)
  <2>1. ASSUME NEW n \in names PROVE n \in InScopeOf(t)
    <3>1. PICK i \in DOMAIN s : Inside(s[i]) /\ n = s[i].filter.alias
      BY <2>1 DEF Scoped, InScopeOf
    <3> QED BY <3>1, <1>2 DEF InScopeOf
  <2>2. ASSUME NEW n \in InScopeOf(t) PROVE n \in names
    <3>1. PICK i \in DOMAIN t : Inside(t[i]) /\ n = t[i].filter.alias
      BY <2>2 DEF InScopeOf
    <3> QED BY <3>1, <1>3 DEF Scoped, InScopeOf
  <2> QED BY <2>1, <2>2
<1>5. \A i \in DOMAIN t : t[i].at # "record" => t[i].todo # <<>>
  BY <1>1, <1>2 DEF Scoped
<1>6. \A i \in DOMAIN t : i < Len(t) => t[i].at = "nested"
  BY <1>1, <1>2 DEF Scoped
<1>7. \A i, j \in DOMAIN t :
         Inside(t[i]) /\ Inside(t[j]) /\ t[i].filter.alias = t[j].filter.alias => i = j
  BY <1>3 DEF Scoped
<1> QED BY <1>2, <1>4, <1>5, <1>6, <1>7 DEF Scoped

-----------------------------------------------------------------------------
(* The steps of the filter stage.                                          *)

(* The innermost call is a frame of the stack; once past choosing a record *)
(* it has one at hand.                                                     *)
LEMMA TopIsFrame ==
  ASSUME ScopeInv, stack # <<>>
  PROVE  /\ top \in AnyFrame /\ top = stack[Len(stack)]
         /\ top.at # "record" => top.todo # <<>>
<1>1. stack \in Seq(AnyFrame) /\ Len(stack) \in 1 .. Len(stack) /\ Len(stack) \in DOMAIN stack
  BY DEF ScopeInv, Scoped
<1> QED BY <1>1 DEF ScopeInv, Scoped, top, Last

(* The record at hand is done with, or an error goes to the caller; either *)
(* way the filter's own alias, if it is in scope, leaves it.               *)
LEMMA RecordSettled ==
  ASSUME ScopeInv, phase = "filter", UNCHANGED <<records, phase>>, stack # <<>>, top.todo # <<>>,
         aliases' = aliases \ NameOf(top),
         \/ ~raised' /\ \E rs \in Seq(Nat) : Result(rs)
         \/ Raise
  PROVE  ScopeInv'
<1>1. Scoped(stack, aliases) /\ records \in Seq(Nat)
  BY DEF ScopeInv
<1>2. top \in AnyFrame
  BY TopIsFrame
<1>3. CASE Raise
  <2>1. stack' = Front(stack)
    BY <1>3 DEF Raise
  <2>2. Scoped(stack', aliases') /\ (stack' # <<>> => Last(stack').at = "nested")
    BY <2>1, <1>1, TopGoes DEF top
  <2> QED BY <2>2, <1>1 DEF ScopeInv, top
<1>4. ASSUME ~raised', NEW rs \in Seq(Nat), Result(rs)
      PROVE  ScopeInv'
  <2> DEFINE frame == [top EXCEPT !.todo = Tail(@), !.out = @ \o rs, !.at = "record",
                                  !.nested = <<>>, !.ran = 0, !.items = 0]
  <2>1. /\ Tail(top.todo) \in Seq(Nat) /\ top.out \o rs \in Seq(Nat) /\ <<>> \in Seq(Nat)
    BY <1>2 DEF AnyFrame
  <2>2. frame \in AnyFrame /\ frame.filter = top.filter /\ frame.at = "record"
    BY <1>2, <2>1 DEF AnyFrame
  <2>3. NameOf(frame) = {} /\ ~Inside(frame)
    BY <2>2 DEF NameOf, Inside
  <2>4. stack' = [stack EXCEPT ![Len(stack)] = frame]
    BY <1>4 DEF Result, SetTop
  <2> HIDE DEF frame
  <2>5. Scoped(stack', (aliases \ NameOf(top)) \cup NameOf(frame))
    BY <1>1, <2>2, <2>3, <2>4, TopChanges DEF top
  <2>6. Scoped(stack', aliases')
    BY <2>5, <2>3
  <2> QED BY <2>6, <1>1, <1>4 DEF ScopeInv
<1> QED BY <1>3, <1>4

(* A loop, or a condition, goes on with the record at hand: it enters, or  *)
(* moves among, its items or its nested filters.                           *)
LEMMA RecordGoesOn ==
  ASSUME ScopeInv, phase = "filter", UNCHANGED <<records, phase>>, stack # <<>>, top.todo # <<>>,
         ~raised', NEW frame \in AnyFrame, SetTop(frame),
         frame.filter = top.filter, frame.todo = top.todo, frame.at # "record",
         \/ top.at # "record" /\ UNCHANGED aliases
         \/ top.filter.kind # "loop" /\ UNCHANGED aliases
         \/ /\ top.at = "record" /\ top.filter.alias \notin aliases
            /\ aliases' = aliases \cup {top.filter.alias} /\ top.filter.kind = "loop"
  PROVE  ScopeInv'
<1>1. Scoped(stack, aliases) /\ records \in Seq(Nat)
  BY DEF ScopeInv
<1>2. stack' = [stack EXCEPT ![Len(stack)] = frame]
  BY DEF SetTop
<1>3. top \in AnyFrame /\ top = Last(stack)
  BY TopIsFrame DEF top
<1>4. aliases' = (aliases \ NameOf(top)) \cup NameOf(frame)
  <2>1. Inside(top) => top.filter.alias \in aliases
    <3>1. Len(stack) \in DOMAIN stack /\ top = stack[Len(stack)]
      BY <1>1, TopIsFrame DEF Scoped
    <3> QED BY <3>1, <1>1 DEF Scoped, InScopeOf
  <2> QED BY <2>1 DEF NameOf, Inside
<1>5. Inside(frame) /\ ~Inside(top) => frame.filter.alias \notin aliases
  BY DEF Inside
<1>6. Scoped(stack', aliases')
  BY <1>1, <1>2, <1>3, <1>4, <1>5, TopChanges
<1> QED BY <1>6, <1>1 DEF ScopeInv

(* Beginning a Process puts one frame on the stack, or none if the batch   *)
(* is refused at once.                                                     *)
LEMMA EnterPushes ==
  ASSUME ScopeInv, phase = "filter", UNCHANGED phase, ~raised,
         NEW f \in Filters, NEW batch \in Seq(Nat), NEW callers,
         Scoped(callers, aliases), callers # <<>> => Last(callers).at = "nested",
         Enter(f, batch, callers)
  PROVE  ScopeInv'
<1>1. records' = records /\ aliases' = aliases /\ records \in Seq(Nat)
  BY DEF Enter, ScopeInv
<1>2. CASE stack' = callers
  BY <1>1, <1>2 DEF ScopeInv, top
<1>3. CASE stack' = Append(callers, NewFrame(f, batch)) /\ UNCHANGED raised
  <2>1. NewFrame(f, batch) \in AnyFrame /\ NewFrame(f, batch).at = "record"
    <3>1. <<>> \in Seq(Nat) /\ 0 \in Nat
      OBVIOUS
    <3> QED BY <3>1 DEF NewFrame, AnyFrame
  <2>2. Scoped(stack', aliases')
    BY <1>1, <1>3, <2>1, TopComes
  <2> QED BY <1>1, <1>3, <2>2 DEF ScopeInv
<1> QED BY <1>2, <1>3 DEF Enter

(* A filter starts, of the pipeline or nested in the filter at hand. *)
LEMMA StartsPreserve ==
  ASSUME ScopeInv, phase = "filter", UNCHANGED phase, NEW f \in Filters,
         StartFilter(f) \/ StartNested(f)
  PROVE  ScopeInv'
<1>1. Scoped(stack, aliases) /\ records \in Seq(Nat)
  BY DEF ScopeInv
<1>2. CASE StartFilter(f)
  <2>1. stack = <<>> /\ ~raised /\ Enter(f, records, stack)
    BY <1>2 DEF StartFilter
  <2> QED BY <1>1, <2>1, EnterPushes
<1>3. CASE StartNested(f)
  <2> DEFINE frame == [top EXCEPT !.ran = @ + 1]
             callers == [stack EXCEPT ![Len(stack)] = frame]
  <2>1. /\ ~raised /\ stack # <<>> /\ top.at = "nested"
        /\ Enter(f, top.nested, [stack EXCEPT ![Len(stack)].ran = @ + 1])
    BY <1>3 DEF StartNested, Within
  <2>2. top \in AnyFrame /\ top.todo # <<>> /\ top = stack[Len(stack)] /\ top = Last(stack)
    BY <2>1, TopIsFrame DEF top
  <2>3. /\ frame \in AnyFrame /\ frame.filter = top.filter /\ frame.at = "nested"
        /\ frame.todo = top.todo
    <3>1. top.ran + 1 \in Nat
      BY <2>2 DEF AnyFrame
    <3> QED BY <2>1, <2>2, <3>1 DEF AnyFrame
  <2>4. [stack EXCEPT ![Len(stack)].ran = @ + 1] = callers
    BY <2>2
  <2>5. aliases = (aliases \ NameOf(top)) \cup NameOf(frame)
    <3>1. Inside(top) => top.filter.alias \in aliases
      <4>1. Len(stack) \in DOMAIN stack
        BY <2>1, <1>1 DEF Scoped
      <4> QED BY <4>1, <2>2, <1>1 DEF Scoped, InScopeOf
    <3> QED BY <3>1, <2>1, <2>3 DEF NameOf, Inside
  <2>6. Inside(frame) => Inside(Last(stack))
    BY <2>1, <2>2, <2>3 DEF Inside
  <2>7. aliases = (aliases \ NameOf(Last(stack))) \cup NameOf(frame)
    BY <2>2, <2>5
  <2>8. /\ frame.filter = Last(stack).filter
        /\ frame.at # "record" => frame.todo # <<>>
    BY <2>2, <2>3
  <2> HIDE DEF frame
  <2>9. Scoped(callers, aliases)
    BY <1>1, <2>1, <2>3, <2>6, <2>7, <2>8, TopChanges, ZenonT(30)
  <2>10. Last(callers).at = "nested"
    <3>1. Len(callers) = Len(stack) /\ callers[Len(stack)] = frame
      BY <1>1, <2>1 DEF Scoped
    <3> QED BY <3>1, <2>3 DEF Last
  <2>11. top.nested \in Seq(Nat)
    BY <2>2 DEF AnyFrame
  <2> QED BY <2>1, <2>4, <2>9, <2>10, <2>11, EnterPushes
<1> QED BY <1>2, <1>3

(* A Process that has gone through its batch returns to its caller. *)
LEMMA ReturnPreserves ==
  ASSUME ScopeInv, phase = "filter", UNCHANGED phase, Return
  PROVE  ScopeInv'
<1>1. Scoped(stack, aliases) /\ records \in Seq(Nat) /\ stack # <<>> /\ top.at = "record"
  BY DEF ScopeInv, Return
<1>2. aliases' = aliases /\ ~raised'
  BY DEF Return
<1>3. top \in AnyFrame /\ NameOf(top) = {}
  BY <1>1, TopIsFrame DEF NameOf, Inside
<1>4. /\ Scoped(Front(stack), aliases)
      /\ Front(stack) # <<>> => Last(Front(stack)).at = "nested"
  <2>1. aliases \ NameOf(top) = aliases
    BY <1>3
  <2> QED BY <1>1, <2>1, TopGoes DEF top
<1>5. CASE Front(stack) = <<>>
  <2>1. stack' = <<>> /\ records' = top.out
    BY <1>5 DEF Return
  <2> QED BY <1>2, <1>3, <1>4, <1>5, <2>1 DEF ScopeInv, AnyFrame
<1>6. CASE Front(stack) # <<>>
  <2> DEFINE callers == Front(stack)
             caller == Last(callers)
             frame == [caller EXCEPT !.nested = top.out]
  <2>1. /\ stack' = [callers EXCEPT ![Len(callers)].nested = top.out]
        /\ records' = records
    BY <1>6 DEF Return
  <2>2. /\ callers \in Seq(AnyFrame) /\ Len(callers) \in DOMAIN callers
        /\ caller = callers[Len(callers)] /\ caller \in AnyFrame
        /\ caller.at = "nested" /\ caller.todo # <<>>
    BY <1>4, <1>6 DEF Scoped, Last
  <2>3. /\ frame \in AnyFrame /\ frame.filter = caller.filter /\ frame.at = "nested"
        /\ frame.todo = caller.todo
    BY <2>2, <1>3 DEF AnyFrame
  <2>4. stack' = [callers EXCEPT ![Len(callers)] = frame]
    BY <2>1, <2>2
  <2>5. aliases = (aliases \ NameOf(caller)) \cup NameOf(frame)
    BY <2>2, <2>3, <1>4 DEF NameOf, Inside, Scoped, InScopeOf
  <2>6. Inside(frame) => Inside(caller)
    BY <2>2, <2>3 DEF Inside
  <2> HIDE DEF callers, caller, frame
  <2>7. Scoped(callers, aliases) /\ callers # <<>> /\ caller = Last(callers)
    BY <1>4, <1>6 DEF callers, caller
  <2>8. Scoped(stack', aliases)
    <3>1. /\ aliases = (aliases \ NameOf(Last(callers))) \cup NameOf(frame)
          /\ Inside(frame) => Inside(Last(callers))
          /\ frame.filter = Last(callers).filter /\ frame.todo # <<>> /\ frame \in AnyFrame
      BY <2>2, <2>3, <2>5, <2>6, <2>7
    <3>2. Scoped([callers EXCEPT ![Len(callers)] = frame], aliases)
      BY <2>7, <3>1, TopChanges
    <3> QED BY <2>4, <3>2
  <2> QED BY <1>1, <1>2, <2>1, <2>8 DEF ScopeInv
<1> QED BY <1>5, <1>6

(* What a filter may make of the record it is at, or of the error of it.   *)
Settled == ~raised' /\ \E rs \in Seq(Nat) : Result(rs)

(* Keeping or dropping a record settles it; a failed one is settled or     *)
(* raises the error.                                                       *)
LEMMA OutcomesSettle ==
  ASSUME ScopeInv, stack # <<>>, top.todo # <<>>, ~raised
  PROVE  /\ Keep => Settled
         /\ Drop => Settled
         /\ KeepUnmarked => Settled \/ Raise
         /\ HandleRecordError => Settled \/ Raise
<1>1. <<record>> \in Seq(Nat) /\ <<>> \in Seq(Nat)
  <2>1. record \in Nat
    BY TopIsFrame DEF record, AnyFrame
  <2> QED BY <2>1
<1>2. ASSUME Keep PROVE Settled
  <2>1. Result(<<record>>) /\ raised' = raised
    BY <1>2 DEF Keep
  <2>2. ~raised'
    BY <2>1
  <2> QED BY <1>1, <2>1, <2>2, Zenon DEF Settled
<1>3. ASSUME Drop PROVE Settled
  <2>1. Result(<<>>) /\ raised' = raised
    BY <1>3 DEF Drop
  <2>2. ~raised'
    BY <2>1
  <2> QED BY <1>1, <2>1, <2>2, Zenon DEF Settled
<1>4. KeepUnmarked => Keep \/ Drop \/ Raise
  BY DEF KeepUnmarked
<1>5. HandleRecordError => Keep \/ Drop \/ Raise
  BY DEF HandleRecordError
<1> QED BY <1>2, <1>3, <1>4, <1>5

(* The filters that hold no others.                                        *)
PlainStep == \/ MapRecord \/ CallRecord \/ SetRecord \/ RemoveRecord \/ ScriptRecord
             \/ FilterStopsAtContext

(* The steps of the filters without nested filters. *)
LEMMA PlainStepPreserves ==
  ASSUME ScopeInv, phase = "filter", UNCHANGED phase, PlainStep
  PROVE  ScopeInv'
<1>1. /\ UNCHANGED <<records, aliases>>
      /\ ~raised /\ stack # <<>> /\ top.todo # <<>> /\ top.at = "record"
      /\ Keep \/ HandleRecordError \/ KeepUnmarked \/ Raise
  <2>1. CASE MapRecord
    BY <2>1 DEF MapRecord, AtRecord, Within
  <2>2. CASE CallRecord
    BY <2>2 DEF CallRecord, AtRecord, Within
  <2>3. CASE SetRecord
    BY <2>3 DEF SetRecord, AtRecord, Within
  <2>4. CASE RemoveRecord
    BY <2>4 DEF RemoveRecord, AtRecord, Within
  <2>5. CASE ScriptRecord
    BY <2>5 DEF ScriptRecord, Transforms, TransformFails, AtRecord, Within
  <2>6. CASE FilterStopsAtContext
    BY <2>6 DEF FilterStopsAtContext, AtRecord, Within
  <2> QED BY <2>1, <2>2, <2>3, <2>4, <2>5, <2>6 DEF PlainStep
<1>2. Settled \/ Raise
  BY <1>1, OutcomesSettle
<1>3. aliases' = aliases \ NameOf(top)
  BY <1>1 DEF NameOf, Inside
<1> QED BY <1>1, <1>2, <1>3, RecordSettled DEF Settled

ConditionStep == ConditionRecord \/ ConditionDone \/ ConditionCatches

(* The steps of a condition; an error of its nested filters passes it with *)
(* no alias to take out.                                                   *)
LEMMA ConditionStepPreserves ==
  ASSUME ScopeInv, phase = "filter", UNCHANGED phase, ConditionStep
  PROVE  ScopeInv'
<1>1. /\ UNCHANGED <<records, aliases>>
      /\ stack # <<>> /\ top.filter.kind = "condition"
  BY DEF ConditionStep, ConditionRecord, ConditionDone, ConditionCatches, AtRecord, Within
<1>2. NameOf(top) = {} /\ aliases' = aliases \ NameOf(top)
  BY <1>1 DEF NameOf, Inside
<1>3. top \in AnyFrame /\ (top.at # "record" => top.todo # <<>>)
  BY <1>1, TopIsFrame
<1>4. CASE ConditionRecord
  <2>1. ~raised /\ top.todo # <<>>
    BY <1>4 DEF ConditionRecord, AtRecord, Within
  <2>2. CASE EvaluationFails
    <3>1. Raise \/ Drop
      BY <2>2 DEF EvaluationFails
    <3>2. Raise \/ Settled
      BY <3>1, <2>1, <1>1, OutcomesSettle
    <3> QED BY <3>2, <2>1, <1>1, <1>2, RecordSettled DEF Settled
  <2>3. CASE EnterBranch
    <3> DEFINE frame == [top EXCEPT !.at = "nested", !.nested = <<record>>]
    <3>1. <<record>> \in Seq(Nat)
      <4>1. record \in Nat
        BY <1>3, <2>1 DEF record, AnyFrame
      <4> QED BY <4>1
    <3>2. /\ frame \in AnyFrame /\ frame.filter = top.filter /\ frame.todo = top.todo
          /\ frame.at # "record"
      BY <3>1, <1>3 DEF AnyFrame
    <3>3. SetTop(frame) /\ ~raised'
      BY <2>1, <2>3 DEF EnterBranch
    <3> HIDE DEF frame
    <3> QED BY <1>1, <2>1, <3>2, <3>3, RecordGoesOn
  <2> QED BY <1>4, <2>2, <2>3 DEF ConditionRecord
<1>5. CASE ConditionDone
  <2>1. ~raised' /\ top.todo # <<>> /\ Result(top.nested)
    BY <1>5, <1>3 DEF ConditionDone, Within
  <2>2. top.nested \in Seq(Nat)
    BY <1>3 DEF AnyFrame
  <2> QED BY <1>1, <1>2, <2>1, <2>2, RecordSettled
<1>6. CASE ConditionCatches
  <2>1. CASE Raise
    <3>1. top.todo # <<>>
      BY <1>1, <1>3, <1>6 DEF ConditionCatches, ScopeInv
    <3> QED BY <1>1, <1>2, <2>1, <3>1, RecordSettled
  <2>2. CASE raised' = FALSE /\ UNCHANGED stack
    BY <1>1, <2>2 DEF ScopeInv
  <2> QED BY <1>6, <2>1, <2>2 DEF ConditionCatches
<1> QED BY <1>4, <1>5, <1>6 DEF ConditionStep

(* A loop that fails takes its own alias out, and no other. *)
LEMMA LoopFailsPreserves ==
  ASSUME ScopeInv, phase = "filter", UNCHANGED <<records, phase>>,
         stack # <<>>, top.todo # <<>>, ~raised, LoopFails(NameOf(top))
  PROVE  ScopeInv'
<1>1. KeepUnmarked /\ aliases' = aliases \ NameOf(top)
  BY DEF LoopFails
<1>2. Settled \/ Raise
  BY <1>1, OutcomesSettle
<1> QED BY <1>1, <1>2, RecordSettled DEF Settled

LoopStep == LoopRecord \/ LoopItem \/ LoopItemDone \/ LoopDone \/ LoopCatches

(* The steps of a loop. *)
LEMMA LoopStepPreserves ==
  ASSUME ScopeInv, phase = "filter", UNCHANGED phase, LoopStep
  PROVE  ScopeInv'
<1>1. UNCHANGED records /\ stack # <<>> /\ top.filter.kind = "loop"
  BY DEF LoopStep, LoopRecord, LoopItem, LoopItemDone, LoopDone, LoopCatches, AtRecord, Within
<1>2. top \in AnyFrame /\ (top.at # "record" => top.todo # <<>>)
  BY <1>1, TopIsFrame
<1>3. NameOf(top) = IF top.at = "record" THEN {} ELSE {top.filter.alias}
  BY <1>1 DEF NameOf, Inside
<1>4. CASE LoopRecord
  <2>1. ~raised /\ top.at = "record" /\ top.todo # <<>> /\ NameOf(top) = {}
    BY <1>3, <1>4 DEF LoopRecord, AtRecord, Within
  <2>2. CASE Keep /\ UNCHANGED aliases
    <3>1. Settled
      BY <1>1, <2>1, <2>2, OutcomesSettle
    <3> QED BY <1>1, <2>1, <2>2, <3>1, RecordSettled DEF Settled
  <2>3. CASE LoopFails({})
    BY <1>1, <2>1, <2>3, LoopFailsPreserves
  <2>4. ASSUME ~InScope(top.filter.alias), aliases' = aliases \cup {top.filter.alias},
               NEW n \in 0 .. MaxItems, SetTop([top EXCEPT !.at = "item", !.items = n]),
               UNCHANGED raised
        PROVE  ScopeInv'
    <3> DEFINE frame == [top EXCEPT !.at = "item", !.items = n]
    <3>1. n \in Nat
      BY FilterChainAssumption
    <3>2. /\ frame \in AnyFrame /\ frame.filter = top.filter /\ frame.todo = top.todo
          /\ frame.at # "record"
      BY <1>2, <3>1 DEF AnyFrame
    <3>3. SetTop(frame) /\ ~raised' /\ top.filter.alias \notin aliases
      BY <2>1, <2>4 DEF InScope
    <3> HIDE DEF frame
    <3> QED BY <1>1, <2>1, <2>4, <3>2, <3>3, RecordGoesOn
  <2> QED BY <1>4, <2>2, <2>3, <2>4 DEF LoopRecord
<1>5. CASE LoopItem
  <2>1. /\ ~raised /\ top.at = "item" /\ top.todo # <<>> /\ NameOf(top) = {top.filter.alias}
        /\ top.items > 0
    BY <1>2, <1>3, <1>5 DEF LoopItem, Within
  <2>2. CASE cancelled
    <3>1. LoopFails(NameOf(top))
      BY <1>5, <2>1, <2>2 DEF LoopItem
    <3> QED BY <1>1, <2>1, <3>1, LoopFailsPreserves
  <2>3. CASE ~cancelled
    <3> DEFINE frame == [top EXCEPT !.at = "nested", !.nested = <<Scope>>, !.ran = 0,
                                    !.items = @ - 1]
    <3>1. top.items - 1 \in Nat /\ <<Scope>> \in Seq(Nat)
      BY <1>2, <2>1 DEF AnyFrame, Scope
    <3>2. /\ frame \in AnyFrame /\ frame.filter = top.filter /\ frame.todo = top.todo
          /\ frame.at # "record"
      BY <1>2, <3>1 DEF AnyFrame
    <3>3. SetTop(frame) /\ ~raised' /\ UNCHANGED aliases
      BY <1>5, <2>1, <2>3 DEF LoopItem
    <3> HIDE DEF frame
    <3> QED BY <1>1, <2>1, <3>2, <3>3, RecordGoesOn
  <2> QED BY <2>2, <2>3
<1>6. CASE LoopItemDone
  <2>1. ~raised /\ top.at = "nested" /\ top.todo # <<>> /\ NameOf(top) = {top.filter.alias}
    BY <1>2, <1>3, <1>6 DEF LoopItemDone, Within
  <2>2. CASE LoopFails(NameOf(top))
    BY <1>1, <2>1, <2>2, LoopFailsPreserves
  <2>3. CASE /\ SetTop([top EXCEPT !.at = "item", !.nested = <<>>, !.ran = 0])
             /\ UNCHANGED <<raised, aliases>>
    <3> DEFINE frame == [top EXCEPT !.at = "item", !.nested = <<>>, !.ran = 0]
    <3>1. /\ frame \in AnyFrame /\ frame.filter = top.filter /\ frame.todo = top.todo
          /\ frame.at # "record"
      <4>1. <<>> \in Seq(Nat)
        OBVIOUS
      <4> QED BY <1>2, <4>1 DEF AnyFrame
    <3>2. SetTop(frame) /\ ~raised' /\ UNCHANGED aliases
      BY <2>1, <2>3
    <3> HIDE DEF frame
    <3> QED BY <1>1, <2>1, <3>1, <3>2, RecordGoesOn
  <2> QED BY <1>6, <2>1, <2>2, <2>3 DEF LoopItemDone, ScopeTouched, ItemBecameObject
<1>7. CASE LoopDone
  <2>1. ~raised /\ top.at = "item" /\ top.todo # <<>> /\ NameOf(top) = {top.filter.alias}
    BY <1>2, <1>3, <1>7 DEF LoopDone, Within
  <2>2. CASE Keep /\ aliases' = aliases \ {top.filter.alias}
    <3>1. Settled
      BY <1>1, <2>1, <2>2, OutcomesSettle
    <3> QED BY <1>1, <2>1, <2>2, <3>1, RecordSettled DEF Settled
  <2>3. CASE LoopFails({top.filter.alias})
    BY <1>1, <2>1, <2>3, LoopFailsPreserves
  <2> QED BY <1>7, <2>2, <2>3 DEF LoopDone
<1>8. CASE LoopCatches
  <2>1. /\ raised /\ top.at = "nested" /\ top.todo # <<>>
        /\ aliases' = aliases \ NameOf(top)
    BY <1>1, <1>2, <1>3, <1>8 DEF LoopCatches, ScopeInv
  <2>2. CASE Raise
    BY <1>1, <2>1, <2>2, RecordSettled
  <2>3. CASE raised' = FALSE /\ Result(IF top.filter.onError = "log" THEN <<record>> ELSE <<>>)
    <3>1. (IF top.filter.onError = "log" THEN <<record>> ELSE <<>>) \in Seq(Nat)
      <4>1. record \in Nat
        BY <1>2, <2>1 DEF record, AnyFrame
      <4> QED BY <4>1
    <3> QED BY <1>1, <2>1, <2>3, <3>1, RecordSettled
  <2> QED BY <1>8, <2>2, <2>3 DEF LoopCatches
<1> QED BY <1>4, <1>5, <1>6, <1>7, <1>8 DEF LoopStep

-----------------------------------------------------------------------------
(* The execution.                                                          *)

(* Initially no filter runs and no alias is in scope. *)
LEMMA InitScopeInv == Init => ScopeInv
<1> SUFFICES ASSUME Init PROVE ScopeInv
  OBVIOUS
<1>1. stack = <<>> /\ aliases = {} /\ raised = FALSE /\ phase = "connect"
  BY DEF Init, FilterInit
<1>2. Scoped(<<>>, {})
  <2>1. <<>> \in Seq(AnyFrame) /\ DOMAIN <<>> = {}
    OBVIOUS
  <2> QED BY <2>1 DEF Scoped, InScopeOf
<1> QED BY <1>1, <1>2 DEF ScopeInv

(* Every step of the execution keeps the invariant. *)
LEMMA NextScopeInv == ScopeInv /\ [Next]_vars => ScopeInv'
<1> SUFFICES ASSUME ScopeInv, [Next]_vars PROVE ScopeInv'
  OBVIOUS
<1>1. CASE ConnectOutput
  <2>1. /\ UNCHANGED <<stack, raised, records, aliases>>
        /\ phase = "connect" /\ phase' \in {"input", "done"}
    BY <1>1 DEF ConnectOutput, FailWith, chainVars
  <2> QED BY <2>1 DEF ScopeInv, top
<1>2. CASE ExecuteInput
  <2>1. phase = "input" /\ stack = <<>> /\ aliases = {} /\ UNCHANGED <<stack, raised>>
    <3>1. phase = "input" /\ stack = <<>> /\ UNCHANGED <<stack, raised>>
      BY <1>2 DEF ExecuteInput, ScopeInv
    <3> QED BY <3>1 DEF ScopeInv, Scoped, InScopeOf
  <2>2. CASE phase' = "done" /\ UNCHANGED aliases
    BY <2>1, <2>2 DEF ScopeInv, top
  <2>3. ASSUME NEW n \in 0 .. MaxRecords, records' = Fetched(n), phase' = "filter",
               aliases' = {}
        PROVE  ScopeInv'
    <3>1. records' \in Seq(Nat)
      BY <2>3, BatchAssumption DEF Fetched
    <3> QED BY <2>1, <2>3, <3>1 DEF ScopeInv
  <2> QED BY <1>2, <2>2, <2>3 DEF ExecuteInput, FailWith, ReserveMetadataField
<1>3. CASE ExecuteFilters
  <2>1. phase = "filter" /\ UNCHANGED phase /\ FilterStep
    BY <1>3 DEF ExecuteFilters
  <2>2. CASE \E f \in Filters : StartFilter(f) \/ StartNested(f)
    BY <2>1, <2>2, StartsPreserve
  <2>3. CASE Return
    BY <2>1, <2>3, ReturnPreserves
  <2>4. CASE PlainStep
    BY <2>1, <2>4, PlainStepPreserves
  <2>5. CASE ConditionStep
    BY <2>1, <2>5, ConditionStepPreserves
  <2>6. CASE LoopStep
    BY <2>1, <2>6, LoopStepPreserves
  <2> QED BY <2>1, <2>2, <2>3, <2>4, <2>5, <2>6
          DEF FilterStep, PlainStep, ConditionStep, LoopStep
<1>4. CASE FiltersFailed \/ FiltersDone
  <2>1. UNCHANGED <<stack, raised, aliases>> /\ phase' \in {"output", "done"}
    BY <1>4 DEF FiltersFailed, FiltersDone, FailWith, Forget
  <2> QED BY <2>1 DEF ScopeInv, top
<1>5. CASE BeginDryRun \/ ExecuteDryRunPreview \/ OutputDone
  <2>1. UNCHANGED <<stack, raised, aliases>> /\ phase' \in {"preview", "done"}
    BY <1>5 DEF BeginDryRun, ExecuteDryRunPreview, OutputDone, chainVars
  <2> QED BY <2>1 DEF ScopeInv, top
<1>6. CASE BeginSend \/ ExecuteSend \/ Close
  <2>1. UNCHANGED <<stack, raised, aliases, phase>> /\ phase = "output"
    BY <1>6 DEF BeginSend, ExecuteSend, Close, chainVars
  <2> QED BY <2>1 DEF ScopeInv, top
<1>7. CASE Cancel
  <2>1. UNCHANGED <<stack, raised, aliases, phase, records>>
    BY <1>7 DEF Cancel, chainVars
  <2> QED BY <2>1 DEF ScopeInv, top
<1>8. CASE UNCHANGED vars
  <2>1. UNCHANGED <<stack, raised, aliases, phase, records>>
    BY <1>8 DEF vars, chainVars
  <2> QED BY <2>1 DEF ScopeInv, top
<1> QED BY <1>1, <1>2, <1>3, <1>4, <1>5, <1>6, <1>7, <1>8 DEF Next, Step

(* However loops and conditions nest, whatever fails in them, and whenever *)
(* the context ends: _metadata.loop names exactly the loops in whose items *)
(* the chain is (injectLoopScope and the deferred clean-up of              *)
(* LoopModule.processRecord).                                              *)
THEOREM LoopScope == Spec => []LoopScopeIsExact
<1>1. ScopeInv => LoopScopeIsExact
  BY DEF ScopeInv, Scoped, InScopeOf, Inside, LoopScopeIsExact
<1> QED BY <1>1, InitScopeInv, NextScopeInv, PTL DEF Spec

-----------------------------------------------------------------------------
(* The order of the records in a chain of calls, u being what the filters  *)
(* met so far are free to do.                                              *)

Increasing(q) == \A i, j \in DOMAIN q : i < j => q[i] < q[j]

(* What a call of Process was given, as far as it has not dropped it.      *)
Whole(frame) == frame.out \o frame.todo

(* What a condition or a loop hands to its nested filters.                 *)
Hand(frame) == IF frame.filter.kind = "loop" THEN Scope ELSE Head(frame.todo)

(* A nested call works on what its callers have handed down, or on         *)
(* something a loop made.                                                  *)
Under(frame, callee) ==
    Len(Whole(callee)) <= 1 /\ ToSet(Whole(callee)) \subseteq {Scope, Hand(frame)}

(* What comes of that, or is on its way.                                   *)
Handed(frame, rs, u) ==
    /\ rs \in {<<>>, <<Hand(frame)>>}
    /\ "remove" \notin u /\ Hand(frame) # Scope => rs = <<Hand(frame)>>

FrameOK(frame, u) ==
    /\ frame \in Frame
    /\ ToSet(frame.todo) \subseteq {Scope} \/ Freedom(frame.filter) \subseteq u
    /\ frame.at # "record" => frame.todo # <<>> /\ frame.filter.kind \in {"condition", "loop"}
    /\ frame.at = "item" => frame.filter.kind = "loop"
    /\ frame.at = "nested" => Handed(frame, frame.nested, u)

Ordered(s, u, batch) ==
    /\ \A i \in DOMAIN s : FrameOK(s[i], u)
    /\ \A i, j \in DOMAIN s : i < j => s[i].at = "nested" /\ Under(s[i], s[j])
    /\ \A i \in DOMAIN s : i < Len(s) => Handed(s[i], Whole(s[i + 1]), u)
    /\ s # <<>> => /\ ToSet(Whole(s[1])) \subseteq Ids /\ Increasing(Whole(s[1]))
                   /\ "remove" \notin u => Whole(s[1]) = batch

(* The records of a call that may still come out of it.  What it handed    *)
(* down is with the callee, or, once that has failed, with nobody.         *)
LiveOf(frame, innermost) ==
    ToSet(frame.out) \cup
        (IF frame.at = "nested" /\ frame.filter.kind # "loop"
         THEN ToSet(Tail(frame.todo)) \cup (IF innermost THEN ToSet(frame.nested) ELSE {})
         ELSE ToSet(frame.todo))

Below(s) == UNION {LiveOf(s[i], FALSE) : i \in 1 .. Len(s) - 1}

Live(s, up, batch) ==
    IF s = <<>> THEN (IF up THEN {} ELSE ToSet(batch))
                ELSE Below(s) \cup LiveOf(s[Len(s)], ~up)

(* What becomes of a call when it is done with a record.                   *)
After(frame, rs) ==
    [frame EXCEPT !.todo = Tail(@), !.out = @ \o rs, !.at = "record",
                  !.nested = <<>>, !.ran = 0, !.items = 0]

Records == Ids \cup {Scope}

-----------------------------------------------------------------------------
(* Sequences of records.                                                   *)

(* Scope is no record. *)
LEMMA ScopeIsNone == Scope \notin Ids /\ Ids \subseteq Nat
BY BatchAssumption DEF Scope, Ids

(* The elements of a concatenation. *)
LEMMA ConcatSet ==
  ASSUME NEW p \in Seq(Records), NEW q \in Seq(Records)
  PROVE  /\ p \o q \in Seq(Records) /\ Len(p \o q) = Len(p) + Len(q)
         /\ ToSet(p \o q) = ToSet(p) \cup ToSet(q)
         /\ ToSet(p) \subseteq Records
<1>1. p \o q \in Seq(Records) /\ Len(p \o q) = Len(p) + Len(q)
  OBVIOUS
<1>2. /\ DOMAIN (p \o q) = 1 .. Len(p) + Len(q) /\ DOMAIN p = 1 .. Len(p) /\ DOMAIN q = 1 .. Len(q)
      /\ Len(p) \in Nat /\ Len(q) \in Nat
  BY <1>1
<1>3. \A i \in 1 .. Len(p) : i \in DOMAIN (p \o q) /\ (p \o q)[i] = p[i]
  BY <1>2
<1>4. \A i \in 1 .. Len(q) : Len(p) + i \in DOMAIN (p \o q) /\ (p \o q)[Len(p) + i] = q[i]
  BY <1>2
<1>5. ASSUME NEW i \in DOMAIN (p \o q) PROVE (p \o q)[i] \in ToSet(p) \cup ToSet(q)
  <2>1. CASE i <= Len(p)
    <3>1. i \in DOMAIN p
      BY <2>1, <1>2
    <3> QED BY <3>1, <1>2, <1>3 DEF ToSet
  <2>2. CASE i > Len(p)
    <3>1. i - Len(p) \in 1 .. Len(q) /\ Len(p) + (i - Len(p)) = i
      BY <2>2, <1>2
    <3>2. (p \o q)[i] = q[i - Len(p)] /\ i - Len(p) \in DOMAIN q
      BY <3>1, <1>2, <1>4
    <3> QED BY <3>2 DEF ToSet
  <2> QED BY <2>1, <2>2, <1>2
<1>6. ToSet(p \o q) = ToSet(p) \cup ToSet(q)
  <2> DEFINE w == p \o q
  <2>1. \A i \in DOMAIN w : w[i] \in ToSet(p) \cup ToSet(q)
    BY <1>5
  <2>2. /\ \A i \in DOMAIN p : i \in DOMAIN w /\ w[i] = p[i]
        /\ \A i \in DOMAIN q : Len(p) + i \in DOMAIN w /\ w[Len(p) + i] = q[i]
    BY <1>2, <1>3, <1>4
  <2> HIDE DEF w
  <2>3. ToSet(w) \subseteq ToSet(p) \cup ToSet(q)
    BY <2>1 DEF ToSet
  <2>4. ToSet(p) \subseteq ToSet(w) /\ ToSet(q) \subseteq ToSet(w)
    BY <2>2 DEF ToSet
  <2> QED BY <2>3, <2>4 DEF w
<1>7. ToSet(p) \subseteq Records
  BY <1>2 DEF ToSet
<1> QED BY <1>1, <1>6, <1>7

(* The first record and the others. *)
LEMMA HeadTail ==
  ASSUME NEW q \in Seq(Records), q # <<>>
  PROVE  /\ Head(q) \in Records /\ Head(q) \in ToSet(q)
         /\ Tail(q) \in Seq(Records) /\ Len(Tail(q)) = Len(q) - 1
         /\ ToSet(q) = {Head(q)} \cup ToSet(Tail(q))
<1>1. /\ Tail(q) \in Seq(Records) /\ Len(Tail(q)) = Len(q) - 1 /\ Len(q) \in Nat \ {0}
      /\ Head(q) = q[1] /\ DOMAIN q = 1 .. Len(q) /\ DOMAIN Tail(q) = 1 .. Len(q) - 1
      /\ \A i \in 1 .. Len(q) - 1 : Tail(q)[i] = q[i + 1]
  OBVIOUS
<1>2. ASSUME NEW i \in DOMAIN q PROVE q[i] \in {Head(q)} \cup ToSet(Tail(q))
  <2>1. CASE i # 1
    <3>1. i - 1 \in DOMAIN Tail(q) /\ Tail(q)[i - 1] = q[i]
      BY <2>1, <1>1
    <3> QED BY <3>1 DEF ToSet
  <2> QED BY <2>1, <1>1
<1>3. \A i \in DOMAIN Tail(q) : i + 1 \in DOMAIN q /\ Tail(q)[i] = q[i + 1]
  BY <1>1
<1>4. ToSet(q) \subseteq {Head(q)} \cup ToSet(Tail(q))
  BY <1>2 DEF ToSet
<1>5. ToSet(Tail(q)) \subseteq ToSet(q)
  BY <1>3 DEF ToSet
<1>6. Head(q) \in ToSet(q) /\ Head(q) \in Records
  BY <1>1 DEF ToSet
<1> QED BY <1>1, <1>4, <1>5, <1>6

(* One record is taken out of a sequence, or stays where it is.            *)
LEMMA HeadGoes ==
  ASSUME NEW p \in Seq(Records), NEW q \in Seq(Records), q # <<>>
  PROVE  /\ (p \o <<Head(q)>>) \o Tail(q) = p \o q
         /\ (p \o <<>>) \o Tail(q) = p \o Tail(q)
         /\ Increasing(p \o q) /\ ToSet(p \o q) \subseteq Ids =>
               /\ Increasing(p \o Tail(q))
               /\ Head(q) \notin ToSet(p) \cup ToSet(Tail(q))
<1> DEFINE n == Len(p)
           m == Len(q)
           w == p \o q
           v == p \o Tail(q)
<1>1. /\ n \in Nat /\ m \in Nat \ {0} /\ Tail(q) \in Seq(Records) /\ Len(Tail(q)) = m - 1
      /\ Head(q) = q[1] /\ \A i \in 1 .. m - 1 : Tail(q)[i] = q[i + 1]
  OBVIOUS
<1>2. /\ w \in Seq(Records) /\ Len(w) = n + m /\ DOMAIN w = 1 .. n + m
      /\ \A i \in 1 .. n + m : w[i] = IF i <= n THEN p[i] ELSE q[i - n]
  OBVIOUS
<1>3. /\ v \in Seq(Records) /\ Len(v) = n + (m - 1) /\ DOMAIN v = 1 .. n + (m - 1)
      /\ \A i \in 1 .. n + (m - 1) : v[i] = IF i <= n THEN p[i] ELSE Tail(q)[i - n]
  BY <1>1
<1>4. \A i \in 1 .. n + (m - 1) : v[i] = IF i <= n THEN w[i] ELSE w[i + 1]
  <2> SUFFICES ASSUME NEW i \in 1 .. n + (m - 1) PROVE v[i] = IF i <= n THEN w[i] ELSE w[i + 1]
    OBVIOUS
  <2>1. CASE i <= n
    BY <2>1, <1>1, <1>2, <1>3
  <2>2. CASE i > n
    <3>1. i - n \in 1 .. m - 1 /\ i + 1 \in 1 .. n + m /\ (i + 1) - n = (i - n) + 1
      BY <2>2, <1>1
    <3> QED BY <2>2, <3>1, <1>1, <1>2, <1>3
  <2> QED BY <2>1, <2>2, <1>1
<1>5. (p \o <<Head(q)>>) \o Tail(q) = w
  <2> DEFINE x == (p \o <<Head(q)>>) \o Tail(q)
  <2>1. /\ p \o <<Head(q)>> \in Seq(Records) /\ Len(p \o <<Head(q)>>) = n + 1
        /\ \A i \in 1 .. n + 1 : (p \o <<Head(q)>>)[i] = IF i <= n THEN p[i] ELSE Head(q)
    BY <1>1
  <2>2. /\ x \in Seq(Records) /\ Len(x) = n + m
        /\ \A i \in 1 .. n + m : x[i] = IF i <= n + 1 THEN (p \o <<Head(q)>>)[i]
                                                      ELSE Tail(q)[i - (n + 1)]
    BY <1>1, <2>1
  <2>3. ASSUME NEW i \in 1 .. n + m PROVE x[i] = w[i]
    <3>1. CASE i <= n + 1
      BY <3>1, <1>1, <1>2, <2>1, <2>2
    <3>2. CASE i > n + 1
      <4>1. i - (n + 1) \in 1 .. m - 1 /\ (i - (n + 1)) + 1 = i - n
        BY <3>2, <1>1
      <4> QED BY <3>2, <4>1, <1>1, <1>2, <2>2
    <3> QED BY <3>1, <3>2, <1>1
  <2> HIDE DEF x, w
  <2> QED BY <1>2, <2>2, <2>3, SeqEqual DEF x
<1>6. p \o <<>> = p
  OBVIOUS
<1>7. ASSUME Increasing(w), ToSet(w) \subseteq Ids
      PROVE  Increasing(v) /\ Head(q) \notin ToSet(p) \cup ToSet(Tail(q))
  <2>1. \A i, j \in 1 .. n + m : i < j => w[i] < w[j]
    BY <1>2, <1>7 DEF Increasing
  <2>2. \A i \in 1 .. n + m : w[i] \in Nat
    BY <1>2, <1>7, ScopeIsNone DEF ToSet
  <2> HIDE DEF w, v, n, m
  <2>3. Increasing(v)
    <3> SUFFICES ASSUME NEW i \in DOMAIN v, NEW j \in DOMAIN v, i < j PROVE v[i] < v[j]
      BY DEF Increasing
    <3> DEFINE a == IF i <= n THEN i ELSE i + 1
               b == IF j <= n THEN j ELSE j + 1
    <3>1. a \in 1 .. n + m /\ b \in 1 .. n + m /\ a < b
      BY <1>1, <1>3
    <3>2. v[i] = w[a] /\ v[j] = w[b]
      BY <1>3, <1>4
    <3> QED BY <2>1, <3>1, <3>2
  <2>4. Head(q) = w[n + 1] /\ n + 1 \in 1 .. n + m
    <3>1. n + 1 \in 1 .. n + m /\ ~(n + 1 <= n) /\ (n + 1) - n = 1
      BY <1>1
    <3>2. w[n + 1] = q[(n + 1) - n]
      BY <1>2, <3>1
    <3> QED BY <1>1, <3>1, <3>2
  <2>5. ASSUME NEW i \in DOMAIN v PROVE v[i] # Head(q)
    <3> DEFINE a == IF i <= n THEN i ELSE i + 1
    <3>1. a \in 1 .. n + m /\ (a < n + 1 \/ n + 1 < a)
      BY <1>1, <1>3
    <3>2. v[i] = w[a]
      BY <1>3, <1>4
    <3>3. w[a] < w[n + 1] \/ w[n + 1] < w[a]
      BY <2>1, <2>4, <3>1
    <3> HIDE DEF a
    <3> QED BY <2>2, <2>4, <3>1, <3>2, <3>3
  <2>6. Head(q) \notin ToSet(v)
    BY <2>5 DEF ToSet
  <2> QED BY <1>1, <2>3, <2>6, ConcatSet DEF v
<1> QED BY <1>5, <1>6, <1>7

-----------------------------------------------------------------------------
(* The order of the records in a call, and in the calls above it.          *)

(* The parts of a call. *)
LEMMA FrameParts ==
  ASSUME NEW frame \in Frame
  PROVE  /\ frame.todo \in Seq(Records) /\ frame.out \in Seq(Records)
         /\ frame.nested \in Seq(Records) /\ frame.filter \in Filters
         /\ frame.at \in {"record", "item", "nested"}
         /\ frame.ran \in 0 .. MaxNested /\ frame.items \in 0 .. MaxItems
         /\ Whole(frame) \in Seq(Records)
         /\ ToSet(Whole(frame)) = ToSet(frame.out) \cup ToSet(frame.todo)
         /\ Len(Whole(frame)) = Len(frame.out) + Len(frame.todo)
<1>1. /\ frame.todo \in Seq(Records) /\ frame.out \in Seq(Records)
      /\ frame.nested \in Seq(Records) /\ frame.filter \in Filters
      /\ frame.at \in {"record", "item", "nested"}
      /\ frame.ran \in 0 .. MaxNested /\ frame.items \in 0 .. MaxItems
  BY DEF Frame, Records
<1> QED BY <1>1, ConcatSet DEF Whole

(* A call that is done with a record has kept it in its place, or dropped  *)
(* it.                                                                     *)
LEMMA AfterFacts ==
  ASSUME NEW frame \in Frame, frame.todo # <<>>,
         NEW rs \in {<<>>, <<Head(frame.todo)>>}
  PROVE  /\ After(frame, rs) \in Frame
         /\ After(frame, rs).filter = frame.filter /\ After(frame, rs).at = "record"
         /\ After(frame, rs).todo = Tail(frame.todo) /\ After(frame, rs).out = frame.out \o rs
         /\ ToSet(Tail(frame.todo)) \subseteq ToSet(frame.todo)
         /\ rs # <<>> => Whole(After(frame, rs)) = Whole(frame)
         /\ rs = <<>> =>
               /\ ToSet(Whole(After(frame, rs))) \subseteq ToSet(Whole(frame))
               /\ Len(Whole(After(frame, rs))) <= Len(Whole(frame))
               /\ ToSet(Whole(frame)) \subseteq Ids /\ Increasing(Whole(frame))
                    => Increasing(Whole(After(frame, rs)))
<1> DEFINE new == After(frame, rs)
<1>1. /\ frame.todo \in Seq(Records) /\ frame.out \in Seq(Records) /\ frame.filter \in Filters
      /\ ToSet(Whole(frame)) = ToSet(frame.out) \cup ToSet(frame.todo)
      /\ Len(Whole(frame)) = Len(frame.out) + Len(frame.todo)
  BY FrameParts
<1>2. /\ Head(frame.todo) \in Records /\ Tail(frame.todo) \in Seq(Records)
      /\ ToSet(Tail(frame.todo)) \subseteq ToSet(frame.todo)
      /\ Len(Tail(frame.todo)) = Len(frame.todo) - 1
  BY <1>1, HeadTail
<1>3. rs \in Seq(Records)
  <2>1. <<>> \in Seq(Records) /\ <<Head(frame.todo)>> \in Seq(Records)
    BY <1>2
  <2> QED BY <2>1
<1>4. frame.out \o rs \in Seq(Records) /\ <<>> \in Seq(Records)
  BY <1>1, <1>3
<1>5. /\ new.filter = frame.filter /\ new.at = "record" /\ new.todo = Tail(frame.todo)
      /\ new.out = frame.out \o rs
  BY DEF After, Frame
<1>6. new \in Frame
  <2>1. 0 \in 0 .. MaxNested /\ 0 \in 0 .. MaxItems
    BY FilterChainAssumption
  <2> QED BY <1>2, <1>4, <2>1 DEF After, Frame, Records
<1>7. Whole(new) = (frame.out \o rs) \o Tail(frame.todo)
  BY <1>5 DEF Whole
<1> HIDE DEF new
<1>8. CASE rs # <<>>
  <2>1. rs = <<Head(frame.todo)>>
    BY <1>8
  <2>2. Whole(new) = Whole(frame)
    BY <1>1, <1>7, <2>1, HeadGoes DEF Whole
  <2> QED BY <1>2, <1>5, <1>6, <1>8, <2>2 DEF new
<1>9. CASE rs = <<>>
  <2>1. Whole(new) = frame.out \o Tail(frame.todo)
    BY <1>1, <1>7, <1>9, HeadGoes
  <2>2. /\ ToSet(Whole(new)) = ToSet(frame.out) \cup ToSet(Tail(frame.todo))
        /\ Len(Whole(new)) = Len(frame.out) + Len(Tail(frame.todo))
    BY <1>1, <1>2, <2>1, ConcatSet
  <2>3. Len(Whole(new)) <= Len(Whole(frame))
    BY <1>1, <1>2, <2>2
  <2>4. ToSet(Whole(frame)) \subseteq Ids /\ Increasing(Whole(frame)) => Increasing(Whole(new))
    BY <1>1, <2>1, HeadGoes DEF Whole
  <2>5. ToSet(Whole(new)) \subseteq ToSet(Whole(frame))
    BY <1>1, <1>2, <2>2
  <2> QED BY <1>2, <1>5, <1>6, <1>9, <2>1, <2>3, <2>4, <2>5 DEF new
<1> QED BY <1>8, <1>9

(* What a call may have made of the records it was given.                  *)
Shrinks(w, v, u) ==
    \/ v = w
    \/ /\ "remove" \in u \/ Scope \in ToSet(w)
       /\ ToSet(v) \subseteq ToSet(w) /\ Len(v) <= Len(w)
       /\ ToSet(w) \subseteq Ids /\ Increasing(w) => Increasing(v)

(* What a nested call makes of it is handed on all the same.               *)
LEMMA HandedShrinks ==
  ASSUME NEW frame, NEW w \in Seq(Records), NEW v \in Seq(Records), NEW u,
         Handed(frame, w, u), Shrinks(w, v, u)
  PROVE  Handed(frame, v, u)
<1>1. CASE v = w
  BY <1>1
<1>2. CASE v # w
  <2>1. /\ "remove" \in u \/ Scope \in ToSet(w)
        /\ ToSet(v) \subseteq ToSet(w) /\ Len(v) <= Len(w)
    BY <1>2 DEF Shrinks
  <2>2. CASE w = <<>>
    <3>1. Len(v) = 0
      BY <2>1, <2>2
    <3> QED BY <1>2, <2>2, <3>1
  <2>3. CASE w = <<Hand(frame)>>
    <3>1. ToSet(w) = {Hand(frame)} /\ Len(w) = 1
      BY <2>3 DEF ToSet
    <3>2. "remove" \in u \/ Hand(frame) = Scope
      BY <2>1, <3>1
    <3>3. v = <<>> \/ v = <<Hand(frame)>>
      <4>1. Len(v) \in {0, 1} /\ DOMAIN v = 1 .. Len(v)
        BY <2>1, <3>1
      <4>2. Len(v) = 1 => v[1] = Hand(frame)
        BY <2>1, <3>1, <4>1 DEF ToSet
      <4> QED BY <4>1, <4>2
    <3> QED BY <3>2, <3>3 DEF Handed
  <2> QED BY <2>2, <2>3 DEF Handed
<1> QED BY <1>1, <1>2

(* The innermost call changes, and loses records only as it may.           *)
LEMMA OrderedTop ==
  ASSUME NEW s \in Seq(Frame), s # <<>>, NEW u, NEW batch, Ordered(s, u, batch),
         NEW frame \in Frame, FrameOK(frame, u), Shrinks(Whole(s[Len(s)]), Whole(frame), u)
  PROVE  /\ Ordered([s EXCEPT ![Len(s)] = frame], u, batch)
         /\ [s EXCEPT ![Len(s)] = frame] \in Seq(Frame)
<1> DEFINE t == [s EXCEPT ![Len(s)] = frame]
           n == Len(s)
           w == Whole(s[n])
           v == Whole(frame)
<1>1. /\ n \in Nat \ {0} /\ DOMAIN s = 1 .. n /\ t \in Seq(Frame) /\ Len(t) = n
      /\ DOMAIN t = 1 .. n /\ t[n] = frame /\ \A i \in 1 .. n : i # n => t[i] = s[i]
      /\ s[n] \in Frame
  OBVIOUS
<1>2. /\ w \in Seq(Records) /\ v \in Seq(Records) /\ Len(w) \in Nat /\ Len(v) \in Nat
  <2>1. w \in Seq(Records) /\ v \in Seq(Records)
    BY <1>1, FrameParts
  <2> QED BY <2>1
<1> HIDE DEF t, w, v, n
<1>3. ToSet(v) \subseteq ToSet(w) /\ Len(v) <= Len(w)
  BY <1>2 DEF Shrinks, w, v, n
<1>4. \A i \in DOMAIN t : FrameOK(t[i], u)
  BY <1>1 DEF Ordered
<1>5. ASSUME NEW i \in DOMAIN t, NEW j \in DOMAIN t, i < j
      PROVE  t[i].at = "nested" /\ Under(t[i], t[j])
  <2>1. t[i] = s[i] /\ s[i].at = "nested" /\ Under(s[i], s[j])
    BY <1>1, <1>5 DEF Ordered
  <2>2. CASE j = n
    <3>1. Len(w) <= 1 /\ ToSet(w) \subseteq {Scope, Hand(s[i])}
      BY <2>1, <2>2 DEF Under, w
    <3>2. Len(v) <= 1 /\ ToSet(v) \subseteq {Scope, Hand(s[i])}
      BY <1>2, <1>3, <3>1
    <3> QED BY <1>1, <2>1, <2>2, <3>2 DEF Under, v
  <2>3. CASE j # n
    BY <1>1, <2>1, <2>3
  <2> QED BY <2>2, <2>3
<1>6. ASSUME NEW i \in DOMAIN t, i < Len(t)
      PROVE  Handed(t[i], Whole(t[i + 1]), u)
  <2>1. /\ t[i] = s[i] /\ i \in DOMAIN s /\ i < Len(s) /\ i + 1 \in 1 .. n
        /\ Handed(s[i], Whole(s[i + 1]), u)
    <3>1. t[i] = s[i] /\ i \in DOMAIN s /\ i < Len(s) /\ i + 1 \in 1 .. n
      <4>1. i \in 1 .. n /\ i < n
        BY <1>1, <1>6
      <4>2. t[i] = s[i] /\ i \in DOMAIN s /\ i + 1 \in 1 .. n
        BY <1>1, <4>1
      <4> QED BY <4>1, <4>2 DEF n
    <3> QED BY <3>1 DEF Ordered
  <2>2. CASE i + 1 = n
    <3>1. Handed(s[i], w, u) /\ t[i + 1] = frame
      BY <1>1, <2>1, <2>2 DEF w
    <3>2. Handed(s[i], v, u)
      BY <1>2, <3>1, HandedShrinks DEF Shrinks, w, v, n
    <3> QED BY <2>1, <3>1, <3>2 DEF v
  <2>3. CASE i + 1 # n
    BY <1>1, <2>1, <2>3
  <2> QED BY <2>2, <2>3
<1>7. /\ ToSet(Whole(t[1])) \subseteq Ids /\ Increasing(Whole(t[1]))
      /\ "remove" \notin u => Whole(t[1]) = batch
  <2>1. /\ ToSet(Whole(s[1])) \subseteq Ids /\ Increasing(Whole(s[1]))
        /\ "remove" \notin u => Whole(s[1]) = batch
    BY DEF Ordered
  <2>2. CASE n = 1
    <3>1. t[1] = frame /\ Whole(s[1]) = w /\ Scope \notin Ids
      BY <1>1, <2>2, ScopeIsNone DEF w
    <3> QED BY <1>3, <2>1, <3>1 DEF Shrinks, w, v, n
  <2>3. CASE n # 1
    <3>1. t[1] = s[1]
      BY <1>1, <2>3
    <3> QED BY <2>1, <3>1
  <2> QED BY <2>2, <2>3
<1>8. Ordered(t, u, batch)
  BY <1>4, <1>5, <1>6, <1>7 DEF Ordered
<1> QED BY <1>1, <1>8 DEF t

(* The innermost call returns. *)
LEMMA OrderedFront ==
  ASSUME NEW s \in Seq(Frame), s # <<>>, NEW u, NEW batch, Ordered(s, u, batch)
  PROVE  Ordered(Front(s), u, batch) /\ Front(s) \in Seq(Frame) /\ Len(Front(s)) = Len(s) - 1
<1> DEFINE t == Front(s)
           n == Len(s)
<1>1. /\ n \in Nat \ {0} /\ DOMAIN s = 1 .. n /\ t \in Seq(Frame) /\ Len(t) = n - 1
      /\ DOMAIN t = 1 .. n - 1
      /\ \A i \in DOMAIN t : i \in DOMAIN s /\ i < n /\ t[i] = s[i]
  <2>1. n \in Nat \ {0} /\ DOMAIN s = 1 .. n
    OBVIOUS
  <2> QED BY <2>1 DEF Front
<1>2. t # <<>> => 1 \in DOMAIN t /\ t[1] = s[1]
  BY <1>1
<1>3. \A i \in DOMAIN t : i < Len(t) => i + 1 \in DOMAIN t /\ t[i + 1] = s[i + 1] /\ i < Len(s)
  BY <1>1
<1> HIDE DEF t, n
<1>4. \A i, j \in DOMAIN t : i < j => t[i].at = "nested" /\ Under(t[i], t[j])
  BY <1>1 DEF Ordered
<1>5. \A i \in DOMAIN t : FrameOK(t[i], u)
  BY <1>1 DEF Ordered
<1>6. \A i \in DOMAIN t : i < Len(t) => Handed(t[i], Whole(t[i + 1]), u)
  BY <1>1, <1>3 DEF Ordered
<1>7. Ordered(t, u, batch)
  BY <1>2, <1>4, <1>5, <1>6 DEF Ordered
<1> QED BY <1>1, <1>7 DEF t, n

(* More freedom leaves an order as it is.                                  *)
LEMMA OrderedGrows ==
  ASSUME NEW s \in Seq(Frame), NEW u, NEW v, u \subseteq v, NEW batch, Ordered(s, u, batch)
  PROVE  Ordered(s, v, batch)
<1>1. /\ \A i \in DOMAIN s : FrameOK(s[i], v)
      /\ \A i \in DOMAIN s : i < Len(s) => Handed(s[i], Whole(s[i + 1]), v)
  BY DEF Ordered, FrameOK, Handed
<1> QED BY <1>1 DEF Ordered

(* A call of Process begins, with what the call above it hands down, or    *)
(* with the batch.                                                         *)
LEMMA OrderedPush ==
  ASSUME NEW s \in Seq(Frame), NEW u, NEW batch, Ordered(s, u, batch),
         batch \in Seq(Ids), Increasing(batch),
         NEW f \in Filters, NEW given,
         IF s = <<>> THEN given = batch
                     ELSE s[Len(s)].at = "nested" /\ given = s[Len(s)].nested,
         NEW v, v = IF ToSet(given) \subseteq {Scope} THEN u ELSE u \cup Freedom(f)
  PROVE  /\ Ordered(Append(s, NewFrame(f, given)), v, batch)
         /\ Append(s, NewFrame(f, given)) \in Seq(Frame)
<1> DEFINE new == NewFrame(f, given)
           t == Append(s, new)
           n == Len(s)
<1>1. n \in Nat /\ DOMAIN s = 1 .. n /\ (s # <<>> => n \in 1 .. n /\ s[n] \in Frame /\ n # 0)
  OBVIOUS
<1>2. given \in Seq(Records) /\ <<>> \in Seq(Records)
  <2>1. CASE s = <<>>
    BY <2>1 DEF Records
  <2>2. CASE s # <<>>
    <3>1. s[n] \in Frame /\ given = s[n].nested
      BY <1>1, <2>2
    <3>2. s[n].nested \in Seq(Records)
      BY <3>1, FrameParts
    <3> QED BY <3>1, <3>2
  <2> QED BY <2>1, <2>2
<1>3. /\ new \in Frame /\ new.filter = f /\ new.at = "record" /\ new.out = <<>>
      /\ new.todo = IF f.kind = "drop" THEN <<>> ELSE given
  <2>1. 0 \in 0 .. MaxNested /\ 0 \in 0 .. MaxItems
    BY FilterChainAssumption
  <2> QED BY <1>2, <2>1 DEF NewFrame, Frame, Records
<1>4. Whole(new) = IF f.kind = "drop" THEN <<>> ELSE given
  <2>1. <<>> \o new.todo = new.todo
    BY <1>2, <1>3
  <2> QED BY <1>3, <2>1 DEF Whole
<1>5. /\ t \in Seq(Frame) /\ Len(t) = n + 1 /\ DOMAIN t = 1 .. n + 1 /\ t[n + 1] = new
      /\ \A i \in 1 .. n : t[i] = s[i]
  BY <1>1, <1>3
<1> HIDE DEF new, t, n
<1>6. u \subseteq v /\ Ordered(s, v, batch)
  BY OrderedGrows
<1>7. f.kind = "drop" /\ ~(ToSet(given) \subseteq {Scope}) => "remove" \in v
  BY DEF Freedom, MayRemove
<1>8. FrameOK(new, v)
  <2>1. ToSet(<<>>) = {}
    BY DEF ToSet
  <2>2. ToSet(new.todo) \subseteq {Scope} \/ Freedom(f) \subseteq v
    BY <1>3, <2>1
  <2> QED BY <1>3, <2>2 DEF FrameOK
<1>9. ASSUME s # <<>>
      PROVE  /\ Handed(s[n], given, v) /\ Hand(s[n]) \in Records
             /\ s[n].filter.kind # "loop" => Hand(s[n]) \in ToSet(Whole(s[n]))
  <2>1. FrameOK(s[n], v) /\ s[n].at = "nested" /\ given = s[n].nested /\ s[n] \in Frame
    BY <1>1, <1>6, <1>9 DEF Ordered, n
  <2>2. s[n].todo # <<>> /\ s[n].todo \in Seq(Records)
    BY <2>1, FrameParts DEF FrameOK
  <2>3. Head(s[n].todo) \in Records /\ Head(s[n].todo) \in ToSet(Whole(s[n]))
    BY <2>1, <2>2, HeadTail, FrameParts
  <2>4. Hand(s[n]) \in Records /\ (s[n].filter.kind # "loop" => Hand(s[n]) \in ToSet(Whole(s[n])))
    BY <2>3 DEF Hand, Records
  <2> QED BY <2>1, <2>4 DEF FrameOK
<1>10. s # <<>> => Under(s[n], new)
  <2> SUFFICES ASSUME s # <<>> PROVE Under(s[n], new)
    OBVIOUS
  <2>1. Whole(new) \in {<<>>, <<Hand(s[n])>>}
    BY <1>4, <1>9 DEF Handed
  <2>2. CASE Whole(new) = <<Hand(s[n])>>
    <3>1. Len(Whole(new)) = 1 /\ ToSet(Whole(new)) = {Hand(s[n])}
      BY <2>2 DEF ToSet
    <3> QED BY <3>1 DEF Under
  <2>3. CASE Whole(new) = <<>>
    <3>1. Len(Whole(new)) = 0 /\ ToSet(Whole(new)) = {}
      BY <2>3 DEF ToSet
    <3> QED BY <3>1 DEF Under
  <2> QED BY <2>1, <2>2, <2>3
<1>11. ASSUME NEW i \in 1 .. n, i < n PROVE Under(s[i], new)
  <2>1. s # <<>> /\ Under(s[n], new) /\ Under(s[i], s[n])
    <3>1. n \in DOMAIN s /\ i \in DOMAIN s /\ s # <<>>
      BY <1>1, <1>11
    <3> QED BY <1>6, <1>10, <1>11, <3>1 DEF Ordered
  <2>2. s[n].filter.kind # "loop" => Hand(s[n]) \in {Scope, Hand(s[i])}
    BY <1>9, <2>1 DEF Under
  <2>3. Hand(s[n]) \in {Scope, Hand(s[i])}
    BY <2>2 DEF Hand
  <2> QED BY <2>1, <2>3 DEF Under
<1>12. ASSUME NEW i \in DOMAIN t PROVE FrameOK(t[i], v)
  <2>1. CASE i \in 1 .. n
    <3>1. i \in DOMAIN s /\ t[i] = s[i]
      BY <1>1, <1>5, <2>1
    <3> QED BY <1>6, <3>1 DEF Ordered
  <2>2. CASE i = n + 1
    BY <1>5, <1>8, <2>2
  <2> QED BY <1>1, <1>5, <2>1, <2>2
<1>13. ASSUME NEW i \in DOMAIN t, NEW j \in DOMAIN t, i < j
       PROVE  t[i].at = "nested" /\ Under(t[i], t[j])
  <2>1. i \in 1 .. n /\ t[i] = s[i]
    BY <1>1, <1>5, <1>13
  <2>2. CASE j = n + 1
    <3>1. i = n => s # <<>> /\ s[n].at = "nested"
      BY <2>1 DEF n
    <3>2. i < n => s[i].at = "nested"
      BY <1>1, <1>6, <2>1 DEF Ordered
    <3> QED BY <1>1, <1>5, <1>10, <1>11, <2>1, <2>2, <3>1, <3>2
  <2>3. CASE j # n + 1
    <3>1. j \in 1 .. n /\ t[j] = s[j]
      BY <1>1, <1>5, <2>3
    <3> QED BY <1>1, <1>6, <1>13, <2>1, <3>1 DEF Ordered
  <2> QED BY <2>2, <2>3
<1>14. ASSUME NEW i \in DOMAIN t, i < Len(t)
       PROVE  Handed(t[i], Whole(t[i + 1]), v)
  <2>1. i \in 1 .. n /\ t[i] = s[i]
    BY <1>1, <1>5, <1>14
  <2>2. CASE i = n
    <3>1. s # <<>> /\ t[i + 1] = new /\ Handed(s[n], given, v)
      BY <1>5, <1>9, <1>14, <2>1, <2>2 DEF n
    <3>2. CASE f.kind = "drop" /\ given # <<>>
      <4>1. given = <<Hand(s[n])>>
        BY <3>1, <3>2 DEF Handed
      <4>2. ToSet(given) = {Hand(s[n])}
        BY <4>1 DEF ToSet
      <4>3. "remove" \in v \/ Hand(s[n]) = Scope
        BY <1>7, <3>2, <4>2
      <4> QED BY <1>4, <2>1, <2>2, <3>1, <3>2, <4>3 DEF Handed
    <3>3. CASE ~(f.kind = "drop" /\ given # <<>>)
      BY <1>4, <2>1, <2>2, <3>1, <3>3
    <3> QED BY <3>2, <3>3
  <2>3. CASE i # n
    <3>1. i + 1 \in 1 .. n /\ t[i + 1] = s[i + 1] /\ i < n
      BY <1>1, <1>5, <2>1, <2>3
    <3> QED BY <1>1, <1>6, <2>1, <3>1 DEF Ordered, n
  <2> QED BY <2>2, <2>3
<1>15. /\ ToSet(Whole(t[1])) \subseteq Ids /\ Increasing(Whole(t[1]))
       /\ "remove" \notin v => Whole(t[1]) = batch
  <2>1. CASE s = <<>>
    <3>1. t[1] = new /\ given = batch
      BY <1>5, <2>1 DEF n
    <3>2. ToSet(batch) \subseteq Ids /\ ToSet(<<>>) = {} /\ Increasing(<<>>)
      BY DEF ToSet, Increasing
    <3>3. f.kind = "drop" /\ "remove" \notin v => batch = <<>>
      <4> SUFFICES ASSUME f.kind = "drop", "remove" \notin v PROVE batch = <<>>
        OBVIOUS
      <4>1. ToSet(batch) \subseteq {Scope}
        BY <1>7, <3>1
      <4>2. ToSet(batch) = {}
        BY <3>2, <4>1, ScopeIsNone
      <4>3. DOMAIN batch = {}
        BY <4>2 DEF ToSet
      <4> QED BY <4>3
    <3> QED BY <1>4, <3>1, <3>2, <3>3
  <2>2. CASE s # <<>>
    <3>1. t[1] = s[1]
      BY <1>1, <1>5, <2>2
    <3> QED BY <1>6, <2>2, <3>1 DEF Ordered
  <2> QED BY <2>1, <2>2
<1>16. Ordered(t, v, batch)
  BY <1>12, <1>13, <1>14, <1>15 DEF Ordered
<1> QED BY <1>5, <1>16 DEF t, new

(* The innermost call returns, and the call above takes what comes of it.  *)
LEMMA OrderedReturn ==
  ASSUME NEW s \in Seq(Frame), Len(s) > 1, NEW u, NEW batch, Ordered(s, u, batch),
         s[Len(s)].todo = <<>>
  PROVE  /\ Ordered([Front(s) EXCEPT ![Len(Front(s))].nested = s[Len(s)].out], u, batch)
         /\ [Front(s) EXCEPT ![Len(Front(s))].nested = s[Len(s)].out] \in Seq(Frame)
         /\ s[Len(s)].out \in {<<>>, <<Hand(s[Len(s) - 1])>>}
<1> DEFINE n == Len(s)
           c == Front(s)
           caller == s[n - 1]
           new == [caller EXCEPT !.nested = s[n].out]
<1>1. /\ n \in Nat /\ n > 1 /\ DOMAIN s = 1 .. n /\ s # <<>>
      /\ s[n] \in Frame /\ n - 1 \in DOMAIN s /\ n \in DOMAIN s /\ caller \in Frame
      /\ n - 1 < n /\ (n - 1) + 1 = n
  OBVIOUS
<1>2. /\ c \in Seq(Frame) /\ Len(c) = n - 1 /\ Ordered(c, u, batch)
      /\ c # <<>> /\ c[Len(c)] = caller
  <2>1. c \in Seq(Frame) /\ Len(c) = n - 1 /\ Ordered(c, u, batch)
    BY <1>1, OrderedFront
  <2>2. c[n - 1] = caller
    BY <1>1 DEF Front
  <2> QED BY <1>1, <2>1, <2>2
<1>3. FrameOK(caller, u) /\ caller.at = "nested" /\ Handed(caller, Whole(s[n]), u)
  BY <1>1 DEF Ordered
<1>4. Whole(s[n]) = s[n].out /\ s[n].out \in Seq(Records)
  BY <1>1, FrameParts DEF Whole
<1>5. /\ new \in Frame /\ new.at = caller.at /\ new.filter = caller.filter
      /\ new.todo = caller.todo /\ new.out = caller.out /\ new.nested = s[n].out
  BY <1>1, <1>4 DEF Frame, Records
<1>6. [c EXCEPT ![Len(c)].nested = s[n].out] = [c EXCEPT ![Len(c)] = new]
  BY <1>2
<1> HIDE DEF n, c, caller, new
<1>7. Whole(new) = Whole(caller) /\ Hand(new) = Hand(caller)
  BY <1>5 DEF Whole, Hand
<1>8. Handed(new, new.nested, u)
  BY <1>3, <1>4, <1>5, <1>7 DEF Handed
<1>9. FrameOK(new, u)
  BY <1>3, <1>5, <1>8 DEF FrameOK
<1>10. Shrinks(Whole(c[Len(c)]), Whole(new), u)
  BY <1>2, <1>7 DEF Shrinks
<1>11. /\ Ordered([c EXCEPT ![Len(c)] = new], u, batch)
       /\ [c EXCEPT ![Len(c)] = new] \in Seq(Frame)
  BY <1>2, <1>5, <1>9, <1>10, OrderedTop
<1>12. s[n].out \in {<<>>, <<Hand(caller)>>}
  BY <1>3, <1>4 DEF Handed
<1> QED BY <1>6, <1>11, <1>12 DEF n, c, caller

-----------------------------------------------------------------------------
(* The records that may still come out of the calls under way.             *)

(* What is with a call, before and after the call under it has failed.     *)
LEMMA LiveParts ==
  ASSUME NEW frame \in Frame
  PROVE  /\ LiveOf(frame, FALSE) \subseteq LiveOf(frame, TRUE)
         /\ frame.at = "nested" /\ frame.filter.kind # "loop" =>
               /\ LiveOf(frame, FALSE) = ToSet(frame.out) \cup ToSet(Tail(frame.todo))
               /\ LiveOf(frame, TRUE) = ToSet(frame.out) \cup ToSet(Tail(frame.todo))
                                          \cup ToSet(frame.nested)
         /\ ~(frame.at = "nested" /\ frame.filter.kind # "loop") =>
               /\ LiveOf(frame, FALSE) = ToSet(frame.out) \cup ToSet(frame.todo)
               /\ LiveOf(frame, TRUE) = ToSet(frame.out) \cup ToSet(frame.todo)
BY Zenon DEF LiveOf

(* What is with the calls above the innermost one, and with all of them.   *)
LEMMA LiveAll ==
  ASSUME NEW s \in Seq(Frame), s # <<>>, NEW batch
  PROVE  /\ Live(s, TRUE, batch) = Below(s) \cup LiveOf(s[Len(s)], FALSE)
         /\ Live(s, FALSE, batch) = Below(s) \cup LiveOf(s[Len(s)], TRUE)
<1>1. (~TRUE) = FALSE /\ (~FALSE) = TRUE
  OBVIOUS
<1> QED BY <1>1, Zenon DEF Live

(* The innermost call changes. *)
LEMMA BelowTop ==
  ASSUME NEW s \in Seq(Frame), s # <<>>, NEW frame \in Frame
  PROVE  Below([s EXCEPT ![Len(s)] = frame]) = Below(s)
<1> DEFINE t == [s EXCEPT ![Len(s)] = frame]
<1>1. Len(t) = Len(s) /\ \A i \in 1 .. Len(s) - 1 : t[i] = s[i]
  OBVIOUS
<1> HIDE DEF t
<1>2. Below(t) = Below(s)
  BY <1>1 DEF Below
<1> QED BY <1>2 DEF t

(* The innermost call fails. *)
LEMMA BelowFront ==
  ASSUME NEW s \in Seq(Frame), s # <<>>, NEW batch
  PROVE  Live(Front(s), TRUE, batch) = Below(s)
<1> DEFINE t == Front(s)
           n == Len(s)
<1>1. n \in Nat \ {0} /\ t \in Seq(Frame) /\ Len(t) = n - 1 /\ \A i \in 1 .. n - 1 : t[i] = s[i]
  <2>1. n \in Nat \ {0} /\ DOMAIN s = 1 .. n
    OBVIOUS
  <2> QED BY <2>1 DEF Front
<1> HIDE DEF t, n
<1>2. CASE t = <<>>
  <2>1. n - 1 = 0
    BY <1>1, <1>2
  <2>2. 1 .. n - 1 = {}
    BY <2>1, <1>1
  <2>3. Below(s) = {}
    BY <2>2 DEF Below, n
  <2> QED BY <1>2, <2>3 DEF Live, t
<1>3. CASE t # <<>>
  <2>1. n - 1 \in Nat \ {0} /\ t[Len(t)] = s[n - 1] /\ 1 .. n - 1 = (1 .. (n - 1) - 1) \cup {n - 1}
    BY <1>1, <1>3
  <2>2. Live(t, TRUE, batch) = Below(t) \cup LiveOf(s[n - 1], FALSE)
    BY <1>1, <1>3, <2>1, LiveAll
  <2>3. Below(t) = UNION {LiveOf(s[i], FALSE) : i \in 1 .. (n - 1) - 1}
    BY <1>1, <2>1 DEF Below
  <2>4. Below(s) = UNION {LiveOf(s[i], FALSE) : i \in 1 .. n - 1}
    BY DEF Below, n
  <2>5. Below(s) = Below(t) \cup LiveOf(s[n - 1], FALSE)
    BY <2>1, <2>3, <2>4, Zenon
  <2> QED BY <2>2, <2>5 DEF t
<1> QED BY <1>2, <1>3

(* A call begins. *)
LEMMA BelowPush ==
  ASSUME NEW s \in Seq(Frame), NEW frame \in Frame, NEW batch
  PROVE  Below(Append(s, frame)) = Live(s, TRUE, batch)
<1> DEFINE t == Append(s, frame)
<1>1. t \in Seq(Frame) /\ t # <<>> /\ Front(t) = s
  <2>1. t \in Seq(Frame) /\ t # <<>> /\ Len(s) \in Nat /\ Len(t) = Len(s) + 1
        /\ DOMAIN s = 1 .. Len(s) /\ \A i \in 1 .. Len(s) : t[i] = s[i]
    OBVIOUS
  <2>2. Front(t) = [i \in 1 .. Len(s) |-> t[i]]
    BY <2>1 DEF Front
  <2>3. Front(t) = [i \in 1 .. Len(s) |-> s[i]]
    BY <2>1, <2>2
  <2>4. s = [i \in 1 .. Len(s) |-> s[i]]
    BY <2>1
  <2> QED BY <2>1, <2>3, <2>4
<1> HIDE DEF t
<1>2. Live(Front(t), TRUE, batch) = Below(t)
  BY <1>1, BelowFront
<1> QED BY <1>1, <1>2 DEF t

(* A call that was given one record has it, and nothing else.              *)
LEMMA OnlyHead ==
  ASSUME NEW p \in Seq(Records), NEW q \in Seq(Records), q # <<>>, Len(p) + Len(q) <= 1
  PROVE  p = <<>> /\ Tail(q) = <<>>
<1>1. Len(p) \in Nat /\ Len(q) \in Nat /\ (Len(q) = 0 => q = <<>>)
  OBVIOUS
<1>2. Len(p) = 0 /\ Len(q) = 1
  BY SMTT(30), <1>1
<1>3. Len(Tail(q)) = 0 /\ Tail(q) \in Seq(Records)
  BY <1>2
<1>4. \A z \in Seq(Records) : Len(z) = 0 => z = <<>>
  OBVIOUS
<1> QED BY <1>2, <1>3, <1>4, Zenon

(* A record that a call is at is nowhere else.                             *)
LEMMA Gone ==
  ASSUME NEW s \in Seq(Frame), s # <<>>, NEW u, NEW batch, Ordered(s, u, batch),
         s[Len(s)].todo # <<>>, Head(s[Len(s)].todo) \in Ids
  PROVE  Head(s[Len(s)].todo) \notin Below(s) \cup ToSet(s[Len(s)].out)
                                       \cup ToSet(Tail(s[Len(s)].todo))
<1> DEFINE n == Len(s)
           r == Head(s[n].todo)
<1>1. n \in Nat \ {0} /\ DOMAIN s = 1 .. n /\ n \in DOMAIN s
  OBVIOUS
<1> HIDE DEF n
<1>2. ASSUME NEW i \in DOMAIN s, s[i].todo # <<>>, Head(s[i].todo) \in Ids
      PROVE  Head(s[i].todo) \notin ToSet(s[i].out) \cup ToSet(Tail(s[i].todo))
  <2>1. /\ s[i] \in Frame /\ s[i].todo \in Seq(Records) /\ s[i].out \in Seq(Records)
        /\ Len(Whole(s[i])) = Len(s[i].out) + Len(s[i].todo)
    <3>1. s[i] \in Frame
      OBVIOUS
    <3> QED BY <3>1, FrameParts
  <2>2. CASE i = 1
    <3>1. ToSet(Whole(s[i])) \subseteq Ids /\ Increasing(Whole(s[i]))
      BY <2>2 DEF Ordered
    <3> QED BY <1>2, <2>1, <3>1, HeadGoes DEF Whole
  <2>3. CASE i # 1
    <3>1. 1 \in DOMAIN s /\ 1 < i
      BY <1>1, <2>3
    <3>2. Under(s[1], s[i])
      BY <3>1 DEF Ordered
    <3>3. Len(s[i].out) + Len(s[i].todo) <= 1
      BY <2>1, <3>2 DEF Under
    <3>6. s[i].out = <<>> /\ Tail(s[i].todo) = <<>>
      BY <1>2, <2>1, <3>3, OnlyHead
    <3>7. ToSet(<<>>) = {}
      BY DEF ToSet
    <3> QED BY <3>6, <3>7
  <2> QED BY <2>2, <2>3
<1>3. r \notin ToSet(s[n].out) \cup ToSet(Tail(s[n].todo))
  BY <1>1, <1>2 DEF n
<1>4. ASSUME NEW i \in 1 .. n - 1 PROVE r \notin LiveOf(s[i], FALSE)
  <2>1. i \in DOMAIN s /\ i < n /\ s[i] \in Frame /\ s[n] \in Frame
    BY <1>1
  <2>2. s[i].at = "nested" /\ Under(s[i], s[n]) /\ FrameOK(s[i], u)
    BY <1>1, <2>1 DEF Ordered
  <2>3. r \in ToSet(Whole(s[n]))
    <3>1. s[n].todo \in Seq(Records) /\ ToSet(s[n].todo) \subseteq ToSet(Whole(s[n]))
      BY <2>1, FrameParts
    <3> QED BY <3>1, HeadTail DEF n
  <2>4. r # Scope
    BY ScopeIsNone DEF n
  <2>5. r = Hand(s[i])
    BY <2>2, <2>3, <2>4 DEF Under
  <2>6. s[i].filter.kind # "loop" /\ r = Head(s[i].todo) /\ s[i].todo # <<>>
    BY <2>2, <2>4, <2>5 DEF Hand, FrameOK
  <2>7. r \notin ToSet(s[i].out) \cup ToSet(Tail(s[i].todo))
    <3>1. Head(s[i].todo) \in Ids
      BY <2>6 DEF n
    <3> QED BY <1>2, <2>1, <2>6, <3>1
  <2> QED BY <2>1, <2>2, <2>6, <2>7, LiveParts
<1>5. r \notin Below(s)
  BY <1>4 DEF Below, n
<1> QED BY <1>3, <1>5 DEF n

(* What t is then, the innermost call of s having made rs of a record.     *)
SettledAs(s, u, batch, rs, t) ==
    /\ Ordered(t, u, batch) /\ t \in Seq(Frame) /\ Len(t) = Len(s)
    /\ Live(t, FALSE, batch) = Below(s) \cup ToSet(s[Len(s)].out) \cup ToSet(rs)
                                       \cup ToSet(Tail(s[Len(s)].todo))
    /\ rs = <<>> /\ Head(s[Len(s)].todo) \in Ids
         => Head(s[Len(s)].todo) \notin Live(t, FALSE, batch)

(* A call is done with a record: it keeps it, or drops it where it may.    *)
LEMMA Settling ==
  ASSUME NEW s \in Seq(Frame), s # <<>>, NEW u, NEW batch, Ordered(s, u, batch),
         s[Len(s)].todo # <<>>,
         NEW rs \in {<<>>, <<Head(s[Len(s)].todo)>>},
         rs = <<>> => "remove" \in u \/ Head(s[Len(s)].todo) = Scope,
         NEW t, t = [s EXCEPT ![Len(s)] = After(s[Len(s)], rs)]
  PROVE  SettledAs(s, u, batch, rs, t)
<1> DEFINE n == Len(s)
           was == s[n]
           new == After(was, rs)
<1>1. n \in Nat \ {0} /\ n \in DOMAIN s /\ was \in Frame /\ t # <<>> /\ Len(t) = n
  OBVIOUS
<1>2. t[n] = new
  BY <1>1
<1> HIDE DEF n, was, new
<1>3. FrameOK(was, u) /\ was.todo # <<>>
  BY <1>1 DEF Ordered, was, n
<1>4. /\ was.todo \in Seq(Records) /\ was.out \in Seq(Records)
      /\ Head(was.todo) \in ToSet(was.todo) /\ ToSet(was.todo) \subseteq ToSet(Whole(was))
  BY <1>1, <1>3, FrameParts, HeadTail
<1>5. /\ new \in Frame /\ new.filter = was.filter /\ new.at = "record"
      /\ new.todo = Tail(was.todo) /\ new.out = was.out \o rs
      /\ ToSet(Tail(was.todo)) \subseteq ToSet(was.todo)
      /\ rs # <<>> => Whole(new) = Whole(was)
      /\ rs = <<>> =>
            /\ ToSet(Whole(new)) \subseteq ToSet(Whole(was))
            /\ Len(Whole(new)) <= Len(Whole(was))
            /\ ToSet(Whole(was)) \subseteq Ids /\ Increasing(Whole(was))
                 => Increasing(Whole(new))
  BY <1>1, <1>3, AfterFacts DEF was, n, new
<1>6. FrameOK(new, u)
  BY <1>3, <1>5 DEF FrameOK
<1>7. Shrinks(Whole(was), Whole(new), u)
  BY <1>4, <1>5 DEF Shrinks, was, n
<1>8. Ordered(t, u, batch) /\ t \in Seq(Frame)
  BY <1>5, <1>6, <1>7, OrderedTop DEF was, n, new
<1>9. rs \in Seq(Records) /\ ToSet(was.out \o rs) = ToSet(was.out) \cup ToSet(rs)
  <2>1. Head(was.todo) \in Records
    BY <1>3, <1>4, HeadTail
  <2>2. <<>> \in Seq(Records) /\ <<Head(was.todo)>> \in Seq(Records)
    BY <2>1
  <2>3. rs \in Seq(Records)
    BY <2>2 DEF was, n
  <2> QED BY <1>4, <2>3, ConcatSet
<1>10. LiveOf(new, TRUE) = ToSet(was.out) \cup ToSet(rs) \cup ToSet(Tail(was.todo))
  BY <1>5, <1>9, LiveParts
<1>11. Below(t) = Below(s)
  BY <1>5, BelowTop DEF was, n, new
<1>12. Live(t, FALSE, batch) = Below(s) \cup ToSet(was.out) \cup ToSet(rs) \cup ToSet(Tail(was.todo))
  BY ZenonT(60), <1>1, <1>2, <1>8, <1>10, <1>11, LiveAll
<1>13. rs = <<>> => ToSet(rs) = {}
  BY DEF ToSet
<1>14. rs = <<>> /\ Head(was.todo) \in Ids => Head(was.todo) \notin Live(t, FALSE, batch)
  BY <1>3, <1>12, <1>13, Gone DEF was, n
<1> QED BY <1>1, <1>8, <1>12, <1>14 DEF was, n, SettledAs

(* What t is then, frame being what the innermost call of s has become.    *)
Moved(s, u, batch, frame, t) ==
    /\ Ordered(t, u, batch) /\ t \in Seq(Frame) /\ Len(t) = Len(s)
    /\ t # <<>> /\ t[Len(t)] = frame
    /\ Live(t, FALSE, batch) = Below(s) \cup LiveOf(frame, TRUE)
    /\ Live(t, TRUE, batch) = Below(s) \cup LiveOf(frame, FALSE)

(* A call goes on with the record it is at.                                *)
LEMMA Moving ==
  ASSUME NEW s \in Seq(Frame), s # <<>>, NEW u, NEW batch, Ordered(s, u, batch),
         NEW frame \in Frame, FrameOK(frame, u),
         frame.todo = s[Len(s)].todo, frame.out = s[Len(s)].out,
         NEW t, t = [s EXCEPT ![Len(s)] = frame]
  PROVE  Moved(s, u, batch, frame, t)
<1>1. Len(t) = Len(s) /\ t # <<>> /\ t[Len(t)] = frame
  OBVIOUS
<1>2. Shrinks(Whole(s[Len(s)]), Whole(frame), u)
  BY DEF Shrinks, Whole
<1>3. Ordered(t, u, batch) /\ t \in Seq(Frame)
  BY <1>2, OrderedTop
<1>4. Below(t) = Below(s)
  BY BelowTop
<1> QED BY <1>1, <1>3, <1>4, LiveAll DEF Moved

(* What t is when a call has begun under those of s.                       *)
Begun(s, v, batch, t) ==
    /\ Ordered(t, v, batch) /\ t \in Seq(Frame) /\ Len(t) = Len(s) + 1
    /\ Live(t, FALSE, batch) \cap Ids \subseteq Live(s, FALSE, batch)

(* A call begins with what the call above it hands down, or with the       *)
(* batch: nothing comes back that was gone.                                *)
LEMMA Beginning ==
  ASSUME NEW s \in Seq(Frame), NEW u, NEW batch, Ordered(s, u, batch),
         batch \in Seq(Ids), Increasing(batch),
         NEW f \in Filters, NEW given,
         IF s = <<>> THEN given = batch
                     ELSE s[Len(s)].at = "nested" /\ given = s[Len(s)].nested,
         NEW v, v = IF ToSet(given) \subseteq {Scope} THEN u ELSE u \cup Freedom(f),
         NEW t, t = Append(s, NewFrame(f, given))
  PROVE  Begun(s, v, batch, t)
<1> DEFINE new == NewFrame(f, given)
           n == Len(s)
<1>1. /\ Ordered(t, v, batch) /\ t \in Seq(Frame)
  BY OrderedPush
<1>2. n \in Nat /\ (s # <<>> => s[n] \in Frame /\ n \in DOMAIN s)
  OBVIOUS
<1>3. t # <<>> /\ Len(t) = n + 1 /\ t[n + 1] = new
  OBVIOUS
<1>4. new \in Frame
  BY <1>1, <1>2, <1>3
<1>5. new.out = <<>> /\ new.at = "record" /\ (new.todo = <<>> \/ new.todo = given)
  BY DEF NewFrame
<1> HIDE DEF new, n
<1>6. ToSet(<<>>) = {}
  BY DEF ToSet
<1>7. LiveOf(new, TRUE) \subseteq ToSet(given)
  BY <1>4, <1>5, <1>6, LiveParts
<1>8. Below(t) = Live(s, TRUE, batch)
  BY <1>4, BelowPush DEF new
<1>9. Live(t, FALSE, batch) = Live(s, TRUE, batch) \cup LiveOf(new, TRUE)
  BY <1>1, <1>3, <1>8, LiveAll
<1>10. ASSUME s = <<>> PROVE Live(t, FALSE, batch) \cap Ids \subseteq Live(s, FALSE, batch)
  <2>1. Live(s, TRUE, batch) = {} /\ Live(s, FALSE, batch) = ToSet(batch)
    BY <1>10, Zenon DEF Live
  <2> QED BY <1>7, <1>9, <1>10, <2>1
<1>11. ASSUME s # <<>> PROVE Live(t, FALSE, batch) \cap Ids \subseteq Live(s, FALSE, batch)
  <2>1. /\ Live(s, TRUE, batch) = Below(s) \cup LiveOf(s[n], FALSE)
        /\ Live(s, FALSE, batch) = Below(s) \cup LiveOf(s[n], TRUE)
        /\ LiveOf(s[n], FALSE) \subseteq LiveOf(s[n], TRUE)
    BY <1>2, <1>11, LiveAll, LiveParts DEF n
  <2>2. s[n].at = "nested" /\ given = s[n].nested
    BY <1>11 DEF n
  <2>3. ToSet(given) \cap Ids \subseteq LiveOf(s[n], TRUE)
    <3>1. CASE s[n].filter.kind # "loop"
      BY <1>2, <1>11, <2>2, <3>1, LiveParts
    <3>2. CASE s[n].filter.kind = "loop"
      <4>1. given \in {<<>>, <<Scope>>}
        <5>1. FrameOK(s[n], u)
          BY <1>2, <1>11 DEF Ordered
        <5> QED BY <2>2, <3>2, <5>1 DEF FrameOK, Handed, Hand
      <4>2. ToSet(<<Scope>>) = {Scope}
        BY DEF ToSet
      <4> QED BY <1>6, <4>1, <4>2, ScopeIsNone
    <3> QED BY <3>1, <3>2
  <2> QED BY <1>7, <1>9, <2>1, <2>3
<1> QED BY <1>1, <1>3, <1>10, <1>11 DEF n, Begun

(* A call returns to the call above it.                                    *)
LEMMA Returning ==
  ASSUME NEW s \in Seq(Frame), Len(s) > 1, NEW u, NEW batch, Ordered(s, u, batch),
         s[Len(s)].todo = <<>>, s[Len(s)].at = "record",
         NEW t, t = [Front(s) EXCEPT ![Len(Front(s))].nested = s[Len(s)].out]
  PROVE  /\ Ordered(t, u, batch) /\ t \in Seq(Frame) /\ Len(t) = Len(s) - 1
         /\ Live(t, FALSE, batch) \subseteq Live(s, FALSE, batch)
<1> DEFINE n == Len(s)
           c == Front(s)
           caller == s[n - 1]
           new == [caller EXCEPT !.nested = s[n].out]
<1>1. /\ n \in Nat /\ n > 1 /\ DOMAIN s = 1 .. n /\ s # <<>>
      /\ s[n] \in Frame /\ n - 1 \in DOMAIN s /\ n \in DOMAIN s /\ caller \in Frame
      /\ n - 1 < n
  OBVIOUS
<1>2. /\ c \in Seq(Frame) /\ Len(c) = n - 1 /\ c # <<>> /\ c[Len(c)] = caller
  <2>1. c \in Seq(Frame) /\ Len(c) = n - 1
    BY <1>1, OrderedFront
  <2>2. c[n - 1] = caller
    BY <1>1 DEF Front
  <2> QED BY <1>1, <2>1, <2>2
<1>3. Ordered(t, u, batch) /\ t \in Seq(Frame)
  BY <1>1, OrderedReturn
<1>4. t = [c EXCEPT ![Len(c)] = new] /\ Len(t) = Len(c) /\ t # <<>> /\ t[Len(t)] = new
  BY <1>2
<1>5. caller.at = "nested"
  BY <1>1 DEF Ordered
<1> HIDE DEF n, c, caller, new
<1>6. new \in Frame
  <2>1. Len(t) \in DOMAIN t
    BY <1>3, <1>4
  <2> QED BY <1>3, <1>4, <2>1
<1>7. /\ new.at = caller.at /\ new.filter = caller.filter /\ new.todo = caller.todo
      /\ new.out = caller.out /\ new.nested = s[n].out
  BY <1>1 DEF new, Frame
<1>8. LiveOf(new, TRUE) \subseteq LiveOf(caller, FALSE) \cup ToSet(s[n].out)
  BY <1>1, <1>6, <1>7, LiveParts
<1>9. LiveOf(s[n], TRUE) = ToSet(s[n].out) \cup ToSet(s[n].todo)
  <2>1. s[n].at # "nested"
    BY DEF n
  <2> QED BY <1>1, <2>1, LiveParts
<1>10. Live(s, FALSE, batch) = Below(s) \cup LiveOf(s[n], TRUE)
  BY <1>1, LiveAll DEF n
<1>11. Below(s) = Below(c) \cup LiveOf(caller, FALSE)
  <2>1. Live(c, TRUE, batch) = Below(s)
    BY <1>1, BelowFront DEF c
  <2>2. Live(c, TRUE, batch) = Below(c) \cup LiveOf(caller, FALSE)
    BY <1>2, LiveAll
  <2> QED BY <2>1, <2>2
<1>12. Below(t) = Below(c)
  BY <1>2, <1>4, <1>6, BelowTop
<1>13. Live(t, FALSE, batch) = Below(t) \cup LiveOf(new, TRUE)
  BY <1>3, <1>4, LiveAll
<1>14. Live(t, FALSE, batch) \subseteq Live(s, FALSE, batch)
  BY <1>8, <1>9, <1>10, <1>11, <1>12, <1>13
<1> QED BY <1>2, <1>3, <1>4, <1>14 DEF n

-----------------------------------------------------------------------------
(* Markers.  live: the records that may still come out of the stage.       *)

MarkedBy(m) == {r \in Ids : m[r] > 0}

MarksHold(m, st, ca, ta, live, u) ==
    /\ m \in [Ids -> Nat] /\ st \subseteq Ids /\ ca \subseteq Ids /\ ta \in Nat
    /\ MarkedBy(m) \subseteq st \cup ca
    /\ ta >= Cardinality(MarkedBy(m) \ ca)
    /\ "hide" \notin u => st \cap live \subseteq MarkedBy(m)

(* The batch is finite. *)
LEMMA FewRecords ==
  ASSUME NEW S \in SUBSET Ids
  PROVE  IsFiniteSet(S) /\ Cardinality(S) \in Nat
<1>1. IsFiniteSet(Ids)
  BY BatchAssumption, FS_Interval DEF Ids
<1> QED BY <1>1, FS_Subset, FS_CardinalityType

(* Records leave, and a record that is gone, or that may be hidden, fails. *)
LEMMA MarksStay ==
  ASSUME NEW m, NEW st, NEW ca, NEW ta, NEW live, NEW u, MarksHold(m, st, ca, ta, live, u),
         NEW v, u \subseteq v, NEW new, NEW failed \in SUBSET Ids,
         "hide" \notin v => new \cap Ids \subseteq live /\ failed \cap new = {}
  PROVE  MarksHold(m, st \cup failed, ca, ta, new, v)
BY DEF MarksHold, MarkedBy

(* A record fails, is marked, and the marker is counted.                   *)
LEMMA MarkGiven ==
  ASSUME NEW m, NEW st, NEW ca, NEW ta, NEW live, NEW u, MarksHold(m, st, ca, ta, live, u),
         NEW r \in Ids
  PROVE  MarksHold([m EXCEPT ![r] = @ + 1], st \cup {r}, ca, ta + 1, live, u)
<1> DEFINE k == [m EXCEPT ![r] = @ + 1]
<1>1. k \in [Ids -> Nat] /\ MarkedBy(k) = MarkedBy(m) \cup {r}
  BY DEF MarksHold, MarkedBy
<1> HIDE DEF k
<1>2. Cardinality(MarkedBy(k) \ ca) <= Cardinality(MarkedBy(m) \ ca) + 1
  <2> DEFINE before == MarkedBy(m) \ ca
  <2>1. before \in SUBSET Ids
    BY DEF MarkedBy
  <2>2. IsFiniteSet(before) /\ Cardinality(before) \in Nat
    BY <2>1, FewRecords
  <2>3. MarkedBy(k) \ ca = before \/ MarkedBy(k) \ ca = before \cup {r}
    BY <1>1
  <2> HIDE DEF before
  <2>4. Cardinality(before \cup {r}) <= Cardinality(before) + 1
    BY <2>2, FS_AddElement
  <2> QED BY <2>2, <2>3, <2>4 DEF before
<1>3. Cardinality(MarkedBy(m) \ ca) \in Nat /\ Cardinality(MarkedBy(k) \ ca) \in Nat
  <2>1. MarkedBy(m) \ ca \in SUBSET Ids /\ MarkedBy(k) \ ca \in SUBSET Ids
    BY DEF MarkedBy
  <2> QED BY <2>1, FewRecords
<1>4. /\ ta + 1 \in Nat /\ st \cup {r} \subseteq Ids /\ ca \subseteq Ids
      /\ ta + 1 >= Cardinality(MarkedBy(k) \ ca)
  BY <1>2, <1>3 DEF MarksHold
<1>5. MarkedBy(k) \subseteq (st \cup {r}) \cup ca
  BY <1>1 DEF MarksHold
<1>6. "hide" \notin u => (st \cup {r}) \cap live \subseteq MarkedBy(k)
  BY <1>1 DEF MarksHold
<1>7. MarksHold(k, st \cup {r}, ca, ta + 1, live, u)
  BY <1>1, <1>4, <1>5, <1>6 DEF MarksHold
<1> QED BY <1>7 DEF k

(* A filter that may clear markers clears those of a record.               *)
LEMMA MarkTaken ==
  ASSUME NEW m, NEW st, NEW ca, NEW ta, NEW live, NEW u, MarksHold(m, st, ca, ta, live, u),
         NEW r \in Ids, "hide" \in u
  PROVE  MarksHold([m EXCEPT ![r] = 0], st, ca, ta, live, u)
<1> DEFINE k == [m EXCEPT ![r] = 0]
<1>1. k \in [Ids -> Nat] /\ MarkedBy(k) \subseteq MarkedBy(m)
  BY DEF MarksHold, MarkedBy
<1> HIDE DEF k
<1>2. Cardinality(MarkedBy(k) \ ca) <= Cardinality(MarkedBy(m) \ ca)
  <2>1. /\ MarkedBy(m) \ ca \in SUBSET Ids
        /\ MarkedBy(k) \ ca \subseteq MarkedBy(m) \ ca
    BY <1>1 DEF MarkedBy
  <2> QED BY <2>1, FewRecords, FS_Subset
<1>3. Cardinality(MarkedBy(m) \ ca) \in Nat /\ Cardinality(MarkedBy(k) \ ca) \in Nat
  <2>1. MarkedBy(m) \ ca \in SUBSET Ids /\ MarkedBy(k) \ ca \in SUBSET Ids
    BY DEF MarkedBy
  <2> QED BY <2>1, FewRecords
<1>4. ta \in Nat /\ ta >= Cardinality(MarkedBy(k) \ ca)
  BY <1>2, <1>3 DEF MarksHold
<1>5. MarksHold(k, st, ca, ta, live, u)
  BY <1>1, <1>4 DEF MarksHold
<1> QED BY <1>5 DEF k

-----------------------------------------------------------------------------
(* The filter stage, from step to step.                                    *)

LiveNow == Live(stack, raised, records)

(* What holds of the calls, the batch and the markers.                     *)
Core ==
    /\ stack \in Seq(Frame) /\ Len(stack) <= MaxDepth
    /\ raised \in BOOLEAN
    /\ raised /\ stack # <<>> => stack[Len(stack)].at = "nested"
    /\ records \in Seq(Ids) /\ Increasing(records)
    /\ Ordered(stack, used, records)
    /\ MarksHold(marks, stale, carried, tally, LiveNow, used)

(* The innermost call, and the record it is at. *)
LEMMA TopFacts ==
  ASSUME Core, stack # <<>>
  PROVE  /\ Len(stack) \in DOMAIN stack /\ top = stack[Len(stack)]
         /\ top \in Frame /\ FrameOK(top, used)
         /\ top.todo # <<>> => /\ record = Head(top.todo) /\ record \in Records
                               /\ record # Scope => Freedom(top.filter) \subseteq used
<1>1. Len(stack) \in DOMAIN stack /\ stack[Len(stack)] \in Frame
  BY DEF Core
<1>2. top = stack[Len(stack)]
  BY DEF top, Last
<1>3. FrameOK(top, used)
  BY <1>1, <1>2 DEF Core, Ordered
<1>4. ASSUME top.todo # <<>>
      PROVE  /\ record = Head(top.todo) /\ record \in Records
             /\ record # Scope => Freedom(top.filter) \subseteq used
  <2>1. top.todo \in Seq(Records)
    BY <1>1, <1>2, FrameParts
  <2>2. record \in Records /\ record \in ToSet(top.todo)
    BY <1>4, <2>1, HeadTail DEF record
  <2> QED BY <1>3, <2>2 DEF FrameOK, record
<1> QED BY <1>1, <1>2, <1>3, <1>4

(* What becomes of the markers when a step loses records, and marks, fails *)
(* or clears one.                                                          *)
LEMMA MarksMove ==
  ASSUME MarksHold(marks, stale, carried, tally, LiveNow, used),
         carried' = carried, used \subseteq used', NEW live,
         "hide" \notin used' => live \cap Ids \subseteq LiveNow,
         NEW r \in Records,
         \/ UNCHANGED <<marks, stale, tally>>
         \/ /\ UNCHANGED <<marks, tally>> /\ Stale(r)
            /\ r = Scope \/ r \notin live \/ "hide" \in used'
         \/ AnnotateRecord(r) /\ TallyMarker /\ Stale(r)
         \/ UNCHANGED <<stale, tally>> /\ r \in Ids /\ "hide" \in used'
               /\ marks' = [marks EXCEPT ![r] = 0]
  PROVE  MarksHold(marks', stale', carried', tally', live, used')
<1>1. \A S \in SUBSET Ids : ("hide" \notin used' => S \cap live = {})
         => MarksHold(marks, stale \cup S, carried, tally, live, used')
  BY MarksStay
<1>2. {} \in SUBSET Ids /\ stale \cup {} = stale
  OBVIOUS
<1>3. MarksHold(marks, stale, carried, tally, live, used')
  BY <1>1, <1>2
<1>4. CASE UNCHANGED <<marks, stale, tally>>
  BY <1>3, <1>4
<1>5. CASE /\ UNCHANGED <<marks, tally>> /\ Stale(r)
           /\ r = Scope \/ r \notin live \/ "hide" \in used'
  <2>1. {r} \ {Scope} \in SUBSET Ids
    BY DEF Records
  <2>2. "hide" \notin used' => ({r} \ {Scope}) \cap live = {}
    BY <1>5
  <2>3. MarksHold(marks, stale \cup ({r} \ {Scope}), carried, tally, live, used')
    BY <1>1, <2>1, <2>2
  <2> QED BY <1>5, <2>3 DEF Stale
<1>6. CASE AnnotateRecord(r) /\ TallyMarker /\ Stale(r)
  <2>1. CASE r = Scope
    <3>1. marks' = marks /\ stale' = stale /\ tally' = tally + 1
      BY <1>6, <2>1 DEF AnnotateRecord, TallyMarker, Stale
    <3>2. tally \in Nat /\ Cardinality(MarkedBy(marks) \ carried) \in Nat
      <4>1. MarkedBy(marks) \ carried \in SUBSET Ids
        BY DEF MarkedBy
      <4> QED BY <1>3, <4>1, FewRecords DEF MarksHold
    <3> QED BY <1>3, <3>1, <3>2 DEF MarksHold
  <2>2. CASE r # Scope
    <3>1. r \in Ids /\ {r} \ {Scope} = {r}
      BY <2>2 DEF Records
    <3>2. marks' = [marks EXCEPT ![r] = @ + 1] /\ stale' = stale \cup {r} /\ tally' = tally + 1
      BY <1>6, <2>2, <3>1 DEF AnnotateRecord, TallyMarker, Stale
    <3>3. MarksHold([marks EXCEPT ![r] = @ + 1], stale \cup {r}, carried, tally + 1, live, used')
      BY <1>3, <3>1, MarkGiven
    <3> QED BY <3>2, <3>3
  <2> QED BY <2>1, <2>2
<1>7. CASE /\ UNCHANGED <<stale, tally>> /\ r \in Ids /\ "hide" \in used'
           /\ marks' = [marks EXCEPT ![r] = 0]
  <2>1. MarksHold([marks EXCEPT ![r] = 0], stale, carried, tally, live, used')
    BY <1>3, <1>7, MarkTaken
  <2> QED BY <1>7, <2>1
<1> QED BY <1>4, <1>5, <1>6, <1>7

(* What a call may do to the markers when it is done with a record.        *)
MarksOnKeep ==
    \/ UNCHANGED <<marks, stale, tally>>
    \/ UNCHANGED <<marks, tally>> /\ Stale(record) /\ (record = Scope \/ "hide" \in used)
    \/ AnnotateRecord(record) /\ TallyMarker /\ Stale(record)
    \/ UNCHANGED <<stale, tally>> /\ record \in Ids /\ "hide" \in used
          /\ marks' = [marks EXCEPT ![record] = 0]

MarksOnLoss == UNCHANGED <<marks, tally>> /\ (UNCHANGED stale \/ Stale(record))

(* A call is done with a record.                                           *)
LEMMA ResultStep ==
  ASSUME Core, stack # <<>>, top.todo # <<>>,
         NEW rs \in {<<>>, <<record>>}, Result(rs), raised' = FALSE,
         UNCHANGED <<records, carried, used>>,
         top.at = "nested" /\ top.filter.kind # "loop" => raised = FALSE /\ rs = top.nested,
         rs = <<>> => ("remove" \in used \/ record = Scope) /\ MarksOnLoss,
         rs # <<>> => MarksOnKeep
  PROVE  Core'
<1> DEFINE t == [stack EXCEPT ![Len(stack)] = After(stack[Len(stack)], rs)]
           live == Live(t, FALSE, records)
           n == Len(stack)
<1>1. /\ n \in DOMAIN stack /\ top = stack[n] /\ top \in Frame /\ record = Head(top.todo)
      /\ record \in Records /\ stack \in Seq(Frame)
  BY TopFacts DEF Core
<1>2. stack' = t
  BY <1>1 DEF Result, SetTop, After
<1> HIDE DEF n
<1>3. /\ Ordered(t, used, records) /\ t \in Seq(Frame) /\ Len(t) = n
      /\ live = Below(stack) \cup ToSet(top.out) \cup ToSet(rs) \cup ToSet(Tail(top.todo))
      /\ rs = <<>> /\ record \in Ids => record \notin live
  <2>1. Ordered(stack, used, records) /\ stack \in Seq(Frame)
    BY DEF Core
  <2>2. stack[Len(stack)] = top
    BY <1>1 DEF n
  <2>3. /\ stack[Len(stack)].todo # <<>> /\ rs \in {<<>>, <<Head(stack[Len(stack)].todo)>>}
        /\ rs = <<>> => "remove" \in used \/ Head(stack[Len(stack)].todo) = Scope
    BY <1>1, <2>2
  <2>4. t = [stack EXCEPT ![Len(stack)] = After(stack[Len(stack)], rs)]
    OBVIOUS
  <2> HIDE DEF t
  <2>5. SettledAs(stack, used, records, rs, t)
    BY <2>1, <2>3, <2>4, Settling
  <2> QED BY <1>1, <2>2, <2>5 DEF n, SettledAs
<1> HIDE DEF t, live
<1>4. live \subseteq LiveNow
  <2>1. ToSet(<<>>) = {} /\ ToSet(<<record>>) = {record}
    BY DEF ToSet
  <2>2. record \in ToSet(top.todo) /\ ToSet(Tail(top.todo)) \subseteq ToSet(top.todo)
    <3>1. top.todo \in Seq(Records)
      BY <1>1, FrameParts
    <3> QED BY <1>1, <3>1, HeadTail
  <2>3. raised \in BOOLEAN
    BY DEF Core
  <2>4. /\ Live(stack, TRUE, records) = Below(stack) \cup LiveOf(top, FALSE)
        /\ Live(stack, FALSE, records) = Below(stack) \cup LiveOf(top, TRUE)
    BY <1>1, LiveAll DEF n
  <2>5. CASE top.at = "nested" /\ top.filter.kind # "loop"
    <3>1. LiveOf(top, TRUE) = ToSet(top.out) \cup ToSet(Tail(top.todo)) \cup ToSet(top.nested)
      BY <1>1, <2>5, LiveParts
    <3>2. rs = top.nested /\ LiveNow = Below(stack) \cup LiveOf(top, TRUE)
      BY <2>4, <2>5 DEF LiveNow
    <3> QED BY <1>3, <3>1, <3>2
  <2>6. CASE ~(top.at = "nested" /\ top.filter.kind # "loop")
    <3>1. /\ LiveOf(top, TRUE) = ToSet(top.out) \cup ToSet(top.todo)
          /\ LiveOf(top, FALSE) = ToSet(top.out) \cup ToSet(top.todo)
      BY <1>1, <2>6, LiveParts
    <3>2. LiveNow = Below(stack) \cup ToSet(top.out) \cup ToSet(top.todo)
      BY <2>3, <2>4, <3>1 DEF LiveNow
    <3> QED BY <1>3, <2>1, <2>2, <3>2
  <2> QED BY <2>5, <2>6
<1>5. LiveNow' = live
  BY <1>2 DEF LiveNow, live
<1>6. MarksHold(marks', stale', carried', tally', live, used')
  <2>1. MarksHold(marks, stale, carried, tally, LiveNow, used)
    BY DEF Core
  <2>2. CASE rs = <<>>
    <3>1. record = Scope \/ record \notin live
      BY <1>1, <1>3, <2>2 DEF Records
    <3> QED BY <1>1, <1>4, <2>1, <2>2, <3>1, MarksMove DEF MarksOnLoss
  <2>3. CASE rs # <<>>
    BY <1>1, <1>4, <2>1, <2>3, MarksMove DEF MarksOnKeep
  <2> QED BY <2>2, <2>3
<1>7. /\ stack' \in Seq(Frame) /\ Len(stack') <= MaxDepth /\ raised' \in BOOLEAN
      /\ records' \in Seq(Ids) /\ Increasing(records)'
  BY <1>2, <1>3 DEF Core, n, Increasing
<1>8. Ordered(stack, used, records)'
  BY <1>2, <1>3
<1>9. MarksHold(marks, stale, carried, tally, LiveNow, used)'
  BY <1>5, <1>6
<1> QED BY <1>7, <1>8, <1>9 DEF Core

(* A call returns an error.                                                *)
LEMMA RaiseStep ==
  ASSUME Core, stack # <<>>, Raise, UNCHANGED <<records, carried, used>>,
         MarksOnLoss, stale' # stale => top.todo # <<>>
  PROVE  Core'
<1> DEFINE t == Front(stack)
           n == Len(stack)
           live == Live(t, TRUE, records)
<1>1. /\ n \in DOMAIN stack /\ top = stack[n] /\ top \in Frame
      /\ top.todo # <<>> => record = Head(top.todo) /\ record \in Records
      /\ stack \in Seq(Frame) /\ DOMAIN stack = 1 .. n /\ n \in Nat \ {0} /\ n <= MaxDepth
  BY TopFacts DEF Core
<1>2. stack' = t /\ raised' = TRUE
  BY DEF Raise
<1>3. /\ Ordered(t, used, records) /\ t \in Seq(Frame) /\ Len(t) = n - 1 /\ live = Below(stack)
  <2>1. Ordered(stack, used, records)
    BY DEF Core
  <2> QED BY <1>1, <2>1, OrderedFront, BelowFront
<1>4. t # <<>> => t[Len(t)].at = "nested"
  <2> SUFFICES ASSUME t # <<>> PROVE t[n - 1].at = "nested"
    BY <1>3
  <2>1. n - 1 \in DOMAIN stack /\ n - 1 < n /\ n - 1 \in 1 .. n - 1
    BY <1>1, <1>3
  <2>2. t[n - 1] = stack[n - 1]
    BY <1>1, <2>1 DEF Front
  <2> QED BY <1>1, <2>1, <2>2 DEF Core, Ordered
<1> HIDE DEF t, n, live
<1>5. live \subseteq LiveNow
  <2>1. /\ Live(stack, TRUE, records) = Below(stack) \cup LiveOf(top, FALSE)
        /\ Live(stack, FALSE, records) = Below(stack) \cup LiveOf(top, TRUE)
    BY <1>1, LiveAll DEF n
  <2>2. raised \in BOOLEAN
    BY DEF Core
  <2> QED BY <1>3, <2>1, <2>2 DEF LiveNow
<1>6. LiveNow' = live
  BY <1>2 DEF LiveNow, live
<1>7. MarksHold(marks', stale', carried', tally', live, used')
  <2>1. MarksHold(marks, stale, carried, tally, LiveNow, used)
    BY DEF Core
  <2>2. CASE stale' = stale
    <3>1. Scope \in Records
      BY DEF Records
    <3> QED BY <1>5, <2>1, <2>2, <3>1, MarksMove DEF MarksOnLoss
  <2>3. CASE stale' # stale
    <3>1. record \in Records /\ record = Head(stack[n].todo) /\ stack[n].todo # <<>>
      BY <1>1, <2>3
    <3>2. record = Scope \/ record \notin live
      <4>1. record \in Ids => record \notin Below(stack)
        BY <1>1, <3>1, Gone DEF Core, n
      <4> QED BY <1>3, <3>1, <4>1 DEF Records
    <3> QED BY <1>5, <2>1, <2>3, <3>1, <3>2, MarksMove DEF MarksOnLoss
  <2> QED BY <2>2, <2>3
<1>8. /\ stack' \in Seq(Frame) /\ Len(stack') <= MaxDepth /\ raised' \in BOOLEAN
      /\ (raised /\ stack # <<>> => stack[Len(stack)].at = "nested")'
      /\ records' \in Seq(Ids) /\ Increasing(records)'
  <2>1. MaxDepth \in Nat
    BY FilterChainAssumption
  <2> QED BY <1>1, <1>2, <1>3, <1>4, <2>1 DEF Core, Increasing
<1>9. Ordered(stack, used, records)'
  BY <1>2, <1>3
<1>10. MarksHold(marks, stale, carried, tally, LiveNow, used)'
  BY <1>6, <1>7
<1> QED BY <1>8, <1>9, <1>10 DEF Core

(* A call of Process begins, or fails before it has begun.                 *)
LEMMA EnterStep ==
  ASSUME Core, raised = FALSE, NEW f \in Filters,
         NEW callers \in Seq(Frame), Len(callers) < MaxDepth,
         Ordered(callers, used, records), Live(callers, FALSE, records) \subseteq LiveNow,
         NEW given,
         IF callers = <<>> THEN given = records
            ELSE callers[Len(callers)].at = "nested" /\ given = callers[Len(callers)].nested,
         Enter(f, given, callers)
  PROVE  Core'
<1> DEFINE t == Append(callers, NewFrame(f, given))
<1>1. /\ MarksHold(marks, stale, carried, tally, LiveNow, used)
      /\ records \in Seq(Ids) /\ Increasing(records) /\ Scope \in Records
  BY DEF Core, Records
<1>2. /\ used' = IF ToSet(given) \subseteq {Scope} THEN used ELSE used \cup Freedom(f)
      /\ UNCHANGED <<records, marks, stale, carried, tally>>
  BY DEF Enter
<1>3. used \subseteq used'
  BY <1>2
<1>4. /\ Ordered(t, used', records) /\ t \in Seq(Frame) /\ Len(t) = Len(callers) + 1
      /\ Live(t, FALSE, records) \cap Ids \subseteq Live(callers, FALSE, records)
  <2>1. t = Append(callers, NewFrame(f, given))
    OBVIOUS
  <2> HIDE DEF t
  <2>2. Begun(callers, used', records, t)
    BY <1>1, <1>2, <2>1, Beginning
  <2> QED BY <2>2 DEF Begun
<1>5. Len(callers) \in Nat /\ MaxDepth \in Nat
  BY FilterChainAssumption
<1>6. Increasing(records)'
  BY <1>1, <1>2 DEF Increasing
<1>7. CASE stack' = t /\ raised' = raised
  <2> HIDE DEF t
  <2>1. LiveNow' = Live(t, FALSE, records)
    BY <1>2, <1>7 DEF LiveNow
  <2>2. Live(t, FALSE, records) \cap Ids \subseteq LiveNow
    BY <1>4
  <2>3. MarksHold(marks', stale', carried', tally', Live(t, FALSE, records), used')
    BY <1>1, <1>2, <1>3, <2>2, MarksMove
  <2>4. MarksHold(marks, stale, carried, tally, LiveNow, used)'
    BY <2>1, <2>3
  <2>5. Ordered(stack, used, records)'
    BY <1>2, <1>4, <1>7
  <2>6. /\ stack' \in Seq(Frame) /\ Len(stack') <= MaxDepth /\ raised' = FALSE
        /\ records' \in Seq(Ids)
    BY <1>1, <1>2, <1>4, <1>5, <1>7
  <2> QED BY <1>6, <2>4, <2>5, <2>6 DEF Core
<1>8. CASE stack' = callers /\ raised' = TRUE
  <2>1. LiveNow' = Live(callers, TRUE, records)
    BY <1>2, <1>8 DEF LiveNow
  <2>2. Live(callers, TRUE, records) \subseteq LiveNow
    <3>1. CASE callers = <<>>
      <4>1. Live(callers, TRUE, records) = {}
        BY <3>1, Zenon DEF Live
      <4> QED BY <4>1
    <3>2. CASE callers # <<>>
      <4>1. callers[Len(callers)] \in Frame
        BY <3>2
      <4>2. LiveOf(callers[Len(callers)], FALSE) \subseteq LiveOf(callers[Len(callers)], TRUE)
        BY <4>1, LiveParts
      <4> QED BY <3>2, <4>2, LiveAll
    <3> QED BY <3>1, <3>2
  <2>3. MarksHold(marks', stale', carried', tally', Live(callers, TRUE, records), used')
    BY <1>1, <1>2, <1>3, <2>2, MarksMove
  <2>4. MarksHold(marks, stale, carried, tally, LiveNow, used)'
    BY <2>1, <2>3
  <2>5. Ordered(stack, used, records)'
    <3>1. Ordered(callers, used', records)
      BY <1>3, OrderedGrows
    <3> QED BY <1>2, <1>8, <3>1
  <2>6. /\ stack' \in Seq(Frame) /\ Len(stack') <= MaxDepth /\ raised' \in BOOLEAN
        /\ records' \in Seq(Ids)
        /\ (raised /\ stack # <<>> => stack[Len(stack)].at = "nested")'
    BY <1>1, <1>2, <1>5, <1>8
  <2> QED BY <1>6, <2>4, <2>5, <2>6 DEF Core
<1>9. (stack' = t /\ raised' = raised) \/ (stack' = callers /\ raised' = TRUE)
  BY DEF Enter
<1> QED BY <1>7, <1>8, <1>9

(* The next filter of the pipeline, of a branch or of a loop. *)
LEMMA StartStep ==
  ASSUME Core, NEW f \in Filters, StartFilter(f) \/ StartNested(f)
  PROVE  Core'
<1>1. CASE StartFilter(f)
  <2>1. raised = FALSE /\ stack = <<>> /\ Enter(f, records, stack)
    BY <1>1 DEF StartFilter, Core
  <2>2. /\ stack \in Seq(Frame) /\ Len(stack) < MaxDepth /\ Ordered(stack, used, records)
        /\ Live(stack, FALSE, records) \subseteq LiveNow
    <3>1. MaxDepth \in Nat \ {0}
      BY FilterChainAssumption
    <3>2. Len(<<>>) = 0 /\ stack \in Seq(Frame) /\ Ordered(stack, used, records)
      BY DEF Core
    <3>3. Live(stack, FALSE, records) = LiveNow
      BY <2>1 DEF LiveNow
    <3>4. Len(stack) = 0 /\ 0 < MaxDepth
      BY <2>1, <3>1
    <3> QED BY <3>2, <3>3, <3>4
  <2> QED BY <2>1, <2>2, EnterStep
<1>2. CASE StartNested(f)
  <2> DEFINE n == Len(stack)
             frame == [top EXCEPT !.ran = @ + 1]
             callers == [stack EXCEPT ![n] = frame]
  <2>1. /\ raised = FALSE /\ stack # <<>> /\ top.at = "nested" /\ top.nested # <<>>
        /\ top.ran < MaxNested /\ n < MaxDepth
        /\ Enter(f, top.nested, [stack EXCEPT ![n].ran = @ + 1])
    BY <1>2 DEF StartNested, Within, Core
  <2>2. n \in DOMAIN stack /\ top = stack[n] /\ top \in Frame /\ FrameOK(top, used)
    BY <2>1, TopFacts
  <2>3. [stack EXCEPT ![n].ran = @ + 1] = callers
    BY <2>2
  <2>4. /\ frame.at = top.at /\ frame.filter = top.filter /\ frame.todo = top.todo
        /\ frame.out = top.out /\ frame.nested = top.nested /\ frame \in Frame
    <3>1. top.ran \in 0 .. MaxNested /\ MaxNested \in Nat
      BY <2>2, FrameParts, FilterChainAssumption
    <3>2. top.ran + 1 \in 0 .. MaxNested
      BY <2>1, <3>1
    <3> QED BY <2>2, <3>2 DEF Frame
  <2>5. /\ stack \in Seq(Frame) /\ Ordered(stack, used, records)
        /\ LiveNow = Below(stack) \cup LiveOf(top, TRUE)
    <3>1. stack \in Seq(Frame) /\ Ordered(stack, used, records)
      BY DEF Core
    <3> QED BY <2>1, <2>2, <3>1, LiveAll DEF LiveNow
  <2>6. callers # <<>> /\ Len(callers) = n /\ callers[n] = frame
    BY <2>1, <2>5
  <2> HIDE DEF frame
  <2>7. FrameOK(frame, used)
    BY <2>2, <2>4 DEF FrameOK, Handed, Hand
  <2>8. LiveOf(frame, TRUE) = LiveOf(top, TRUE)
    BY <2>4 DEF LiveOf
  <2>9. /\ Ordered(callers, used, records) /\ callers \in Seq(Frame)
        /\ Live(callers, FALSE, records) \subseteq LiveNow
    <3>1. frame.todo = stack[Len(stack)].todo /\ frame.out = stack[Len(stack)].out
      BY <2>2, <2>4
    <3>2. callers = [stack EXCEPT ![Len(stack)] = frame]
      OBVIOUS
    <3> HIDE DEF callers
    <3>3. Moved(stack, used, records, frame, callers)
      BY <2>1, <2>4, <2>5, <2>7, <3>1, <3>2, Moving
    <3> QED BY <2>5, <2>8, <3>3 DEF Moved
  <2>10. Enter(f, top.nested, callers)
    BY <2>1, <2>3
  <2>11. /\ Len(callers) < MaxDepth
         /\ IF callers = <<>> THEN top.nested = records
            ELSE callers[Len(callers)].at = "nested" /\ top.nested = callers[Len(callers)].nested
    BY <2>1, <2>4, <2>6
  <2> HIDE DEF callers
  <2> QED BY <2>1, <2>9, <2>10, <2>11, EnterStep
<1> QED BY <1>1, <1>2

(* A call of Process returns its result.                                   *)
LEMMA ReturnStep ==
  ASSUME Core, Return
  PROVE  Core' /\ ("remove" \notin used => records' = records)
<1> DEFINE n == Len(stack)
<1>1. /\ raised = FALSE /\ stack # <<>> /\ top.at = "record" /\ top.todo = <<>>
      /\ UNCHANGED <<raised, marks, stale, carried, tally, used>>
  BY DEF Return, Core
<1>2. /\ n \in DOMAIN stack /\ top = stack[n] /\ top \in Frame
      /\ stack \in Seq(Frame) /\ n \in Nat \ {0} /\ n <= MaxDepth /\ MaxDepth \in Nat
  <2>1. stack \in Seq(Frame) /\ n <= MaxDepth
    BY DEF Core
  <2> QED BY <1>1, <2>1, TopFacts, FilterChainAssumption
<1>3. /\ MarksHold(marks, stale, carried, tally, LiveNow, used)
      /\ Ordered(stack, used, records) /\ Scope \in Records
  BY DEF Core, Records
<1>4. Len(Front(stack)) = n - 1 /\ Front(stack) \in Seq(Frame)
  BY <1>1, <1>2, <1>3, OrderedFront
<1>5. CASE n = 1
  <2>1. Front(stack) = <<>>
    BY <1>4, <1>5
  <2>2. stack' = <<>> /\ records' = top.out
    BY <2>1 DEF Return
  <2>3. Whole(top) = top.out /\ LiveOf(top, TRUE) = ToSet(top.out)
    <3>1. top.out \in Seq(Records) /\ top.at # "nested"
      BY <1>1, <1>2, FrameParts
    <3>2. Whole(top) = top.out
      BY <1>1, <3>1 DEF Whole
    <3>3. ToSet(<<>>) = {}
      BY DEF ToSet
    <3> QED BY <1>1, <1>2, <3>1, <3>2, <3>3, LiveParts
  <2>4. /\ ToSet(top.out) \subseteq Ids /\ Increasing(top.out)
        /\ "remove" \notin used => top.out = records
    <3>1. /\ ToSet(Whole(stack[1])) \subseteq Ids /\ Increasing(Whole(stack[1]))
          /\ "remove" \notin used => Whole(stack[1]) = records
      BY <1>1, <1>3 DEF Ordered
    <3>2. stack[1] = top
      BY <1>2, <1>5
    <3> QED BY <2>3, <3>1, <3>2
  <2>5. top.out \in Seq(Ids)
    <3>1. top.out \in Seq(Records)
      BY <1>2, FrameParts
    <3>2. \A i \in DOMAIN top.out : top.out[i] \in Ids
      BY <2>4 DEF ToSet
    <3> QED BY <3>1, <3>2
  <2>6. LiveNow' = ToSet(top.out)
    <3>1. Live(<<>>, FALSE, top.out) = ToSet(top.out)
      BY Zenon DEF Live
    <3> QED BY <1>1, <2>2, <3>1 DEF LiveNow
  <2>7. ToSet(top.out) \subseteq LiveNow
    BY <1>1, <1>2, <2>3, LiveAll DEF LiveNow
  <2>8. MarksHold(marks', stale', carried', tally', ToSet(top.out), used')
    BY <1>1, <1>3, <2>7, MarksMove
  <2>9. MarksHold(marks, stale, carried, tally, LiveNow, used)'
    BY <2>6, <2>8
  <2>10. Increasing(records)' /\ Ordered(stack, used, records)'
    BY <2>2, <2>4 DEF Increasing, Ordered
  <2>11. /\ stack' \in Seq(Frame) /\ Len(stack') <= MaxDepth /\ raised' = FALSE
         /\ records' \in Seq(Ids)
    BY <1>1, <1>2, <2>2, <2>5
  <2> QED BY <2>2, <2>4, <2>9, <2>10, <2>11 DEF Core
<1>6. CASE n # 1
  <2>1. n > 1 /\ Front(stack) # <<>>
    BY <1>2, <1>4, <1>6
  <2>2. /\ stack' = [Front(stack) EXCEPT ![Len(Front(stack))].nested = stack[Len(stack)].out]
        /\ records' = records
    BY <1>2, <2>1 DEF Return
  <2>3. /\ Ordered(stack', used, records) /\ stack' \in Seq(Frame) /\ Len(stack') = n - 1
        /\ Live(stack', FALSE, records) \subseteq Live(stack, FALSE, records)
    BY ZenonT(60), <1>1, <1>2, <1>3, <2>1, <2>2, Returning
  <2>4. LiveNow' = Live(stack', FALSE, records) /\ LiveNow = Live(stack, FALSE, records)
    BY <1>1, <2>2 DEF LiveNow
  <2>5. MarksHold(marks', stale', carried', tally', Live(stack', FALSE, records), used')
    BY <1>1, <1>3, <2>3, <2>4, MarksMove
  <2>6. MarksHold(marks, stale, carried, tally, LiveNow, used)'
    BY <2>4, <2>5
  <2>7. Increasing(records)' /\ Ordered(stack, used, records)'
    BY <1>1, <2>2, <2>3 DEF Core, Increasing
  <2>8. /\ stack' \in Seq(Frame) /\ Len(stack') <= MaxDepth /\ raised' = FALSE
        /\ records' \in Seq(Ids)
    BY <1>1, <1>2, <2>2, <2>3 DEF Core
  <2> QED BY <2>2, <2>6, <2>7, <2>8 DEF Core
<1> QED BY <1>5, <1>6

(* What onError may be. *)
LEMMA OnErrorIs ==
  ASSUME NEW f \in Filters
  PROVE  f.onError \in OnErrors
<1>1. \/ f \in Mappings \/ f \in Calls \/ f \in Scripts \/ f \in Conditions
      \/ f \in Loops \/ f \in Removes \/ f \in Others
  BY FilterChainAssumption
<1>2. \A kinds, errors : errors \subseteq OnErrors
         /\ f \in [kind : kinds, onError : errors, alias : Aliases] => f.onError \in OnErrors
  OBVIOUS
<1>3. OnErrors \subseteq OnErrors /\ {"fail"} \subseteq OnErrors
  BY DEF OnErrors
<1> QED BY <1>1, <1>2, <1>3
      DEF Mappings, Calls, Scripts, Conditions, Loops, Removes, Others

(* What a filter met so far is free to do, unless it works for a loop only. *)
LEMMA Freely ==
  ASSUME Core, stack # <<>>, top.todo # <<>>
  PROVE  /\ record \in Records
         /\ MayRemove(top.filter) => "remove" \in used \/ record = Scope
         /\ Silent(top.filter) => "hide" \in used \/ record = Scope
         /\ top.at = "nested" => top.filter.kind \in {"condition", "loop"}
BY TopFacts DEF Freedom, FrameOK

(* The call goes on with the record it is at.                              *)
LEMMA MoveStep ==
  ASSUME Core, stack # <<>>, raised = FALSE, NEW frame \in Frame, SetTop(frame),
         FrameOK(frame, used), frame.todo = top.todo, frame.out = top.out,
         LiveOf(frame, TRUE) \cap Ids \subseteq LiveOf(top, TRUE), raised' = FALSE,
         UNCHANGED <<records, marks, stale, carried, tally, used>>
  PROVE  Core'
<1>1. /\ Len(stack) \in DOMAIN stack /\ top = stack[Len(stack)] /\ top \in Frame
      /\ stack \in Seq(Frame) /\ Len(stack) <= MaxDepth /\ Ordered(stack, used, records)
      /\ MarksHold(marks, stale, carried, tally, LiveNow, used) /\ Scope \in Records
      /\ records \in Seq(Ids) /\ Increasing(records)
  BY TopFacts DEF Core, Records
<1>2. stack' = [stack EXCEPT ![Len(stack)] = frame]
  BY DEF SetTop
<1>3. Moved(stack, used, records, frame, stack')
  BY <1>1, <1>2, Moving
<1>4. LiveNow = Below(stack) \cup LiveOf(top, TRUE)
  BY <1>1, LiveAll DEF LiveNow
<1>5. LiveNow' = Below(stack) \cup LiveOf(frame, TRUE)
  <2>1. LiveNow' = Live(stack', FALSE, records)
    BY DEF LiveNow
  <2> QED BY <1>3, <2>1 DEF Moved
<1>6. LiveNow' \cap Ids \subseteq LiveNow
  <2>1. (Below(stack) \cup LiveOf(frame, TRUE)) \cap Ids \subseteq Below(stack) \cup LiveOf(top, TRUE)
    OBVIOUS
  <2> QED BY <1>4, <1>5, <2>1
<1>7. MarksHold(marks', stale', carried', tally', LiveNow', used')
  BY <1>1, <1>6, MarksMove
<1>8. Ordered(stack, used, records)' /\ Increasing(records)'
  BY <1>1, <1>3 DEF Moved, Increasing
<1>9. stack' \in Seq(Frame) /\ Len(stack') <= MaxDepth
  BY <1>1, <1>3 DEF Moved
<1> QED BY <1>1, <1>7, <1>8, <1>9 DEF Core

(* HandleRecordError, and what it does to the markers.                     *)
LEMMA HandleStep ==
  ASSUME Core, AtRecord({"mapping"}) \/ AtRecord({"call"}), HandleRecordError, Stale(record),
         UNCHANGED <<records, carried, used>>
  PROVE  Core'
<1>1. /\ raised = FALSE /\ stack # <<>> /\ top.at = "record" /\ top.todo # <<>>
      /\ top.filter.kind \in {"mapping", "call"}
  BY DEF AtRecord, Within, Core
<1>2. CASE top.filter.onError = "fail"
  <2>1. Raise /\ UNCHANGED <<marks, tally>>
    BY <1>2 DEF HandleRecordError
  <2> QED BY <1>1, <2>1, RaiseStep DEF MarksOnLoss
<1>3. CASE top.filter.onError = "skip"
  <2>1. Result(<<>>) /\ UNCHANGED <<raised, marks, tally>>
    BY <1>3 DEF HandleRecordError, Drop
  <2>2. "remove" \in used \/ record = Scope
    BY <1>1, <1>3, Freely DEF MayRemove
  <2> QED BY <1>1, <2>1, <2>2, ResultStep DEF MarksOnLoss
<1>4. CASE top.filter.onError \notin {"fail", "skip"}
  <2>1. Result(<<record>>) /\ UNCHANGED raised /\ AnnotateRecord(record) /\ TallyMarker
    BY <1>4 DEF HandleRecordError, Keep
  <2>2. <<record>> # <<>>
    OBVIOUS
  <2> QED BY <1>1, <2>1, <2>2, ResultStep DEF MarksOnKeep
<1> QED BY <1>2, <1>3, <1>4

(* The switch of script and of loop.                                       *)
LEMMA UnmarkedStep ==
  ASSUME Core, raised = FALSE, stack # <<>>, top.todo # <<>>,
         top.filter.kind \in {"script", "loop"}, KeepUnmarked, Stale(record),
         UNCHANGED <<records, marks, carried, tally, used>>
  PROVE  Core'
<1>1. top.at = "nested" => top.filter.kind = "loop"
  BY Freely
<1>2. CASE top.filter.onError = "fail"
  <2>1. Raise
    BY <1>2 DEF KeepUnmarked
  <2> QED BY <2>1, RaiseStep DEF MarksOnLoss
<1>3. CASE top.filter.onError = "skip"
  <2>1. Result(<<>>) /\ raised' = FALSE
    BY <1>3 DEF KeepUnmarked, Drop
  <2>2. "remove" \in used \/ record = Scope
    BY <1>3, Freely DEF MayRemove
  <2> QED BY <1>1, <2>1, <2>2, ResultStep DEF MarksOnLoss
<1>4. CASE top.filter.onError \notin {"fail", "skip"}
  <2>1. Result(<<record>>) /\ raised' = FALSE
    BY <1>4 DEF KeepUnmarked, Keep
  <2>2. "hide" \in used \/ record = Scope
    BY <1>4, Freely DEF Silent, MayClear
  <2>3. <<record>> # <<>>
    OBVIOUS
  <2> QED BY <1>1, <2>1, <2>2, <2>3, ResultStep DEF MarksOnKeep
<1> QED BY <1>2, <1>3, <1>4

(* A record goes on as it came.                                            *)
LEMMA KeepStep ==
  ASSUME Core, raised = FALSE, stack # <<>>, top.todo # <<>>, Keep,
         top.at = "nested" => top.filter.kind = "loop", MarksOnKeep,
         UNCHANGED <<records, carried, used>>
  PROVE  Core'
<1>1. Result(<<record>>) /\ raised' = FALSE /\ <<record>> # <<>>
  BY DEF Keep
<1> QED BY <1>1, ResultStep

(* The filters that hold no others.                                        *)
LEMMA PlainCore ==
  ASSUME Core,
         \/ MapRecord \/ CallRecord \/ SetRecord \/ RemoveRecord \/ ScriptRecord
         \/ FilterStopsAtContext
  PROVE  Core'
<1>1. CASE MapRecord
  <2>1. /\ raised = FALSE /\ stack # <<>> /\ top.at = "record" /\ top.todo # <<>>
        /\ UNCHANGED <<records, carried, used>>
    BY <1>1 DEF MapRecord, AtRecord, Within, Core
  <2>2. CASE Keep /\ UNCHANGED <<marks, stale, tally, troubles>>
    BY <2>1, <2>2, KeepStep DEF MarksOnKeep
  <2>3. CASE MappingFails /\ HandleRecordError
    <3>1. AtRecord({"mapping"}) /\ Stale(record)
      BY <1>1, <2>3 DEF MapRecord, MappingFails
    <3> QED BY <2>1, <2>3, <3>1, HandleStep
  <2> QED BY <1>1, <2>2, <2>3 DEF MapRecord
<1>2. CASE CallRecord
  <2>1. /\ raised = FALSE /\ stack # <<>> /\ top.at = "record" /\ top.todo # <<>>
        /\ UNCHANGED <<records, carried, used>>
    BY <1>2 DEF CallRecord, AtRecord, Within, Core
  <2>2. CASE Keep /\ UNCHANGED <<marks, stale, tally, troubles>>
    BY <2>1, <2>2, KeepStep DEF MarksOnKeep
  <2>3. CASE HandleRecordError /\ Stale(record)
    <3>1. AtRecord({"call"})
      BY <1>2 DEF CallRecord
    <3> QED BY <2>1, <2>3, <3>1, HandleStep
  <2> QED BY <1>2, <2>2, <2>3 DEF CallRecord
<1>3. CASE SetRecord
  <2>1. /\ raised = FALSE /\ stack # <<>> /\ top.at = "record" /\ top.todo # <<>>
        /\ UNCHANGED <<records, marks, carried, tally, used>>
    BY <1>3 DEF SetRecord, AtRecord, Within, Core
  <2>2. CASE Keep /\ UNCHANGED <<stale, troubles>>
    BY <2>1, <2>2, KeepStep DEF MarksOnKeep
  <2>3. CASE Raise /\ Stale(record)
    BY <2>1, <2>3, RaiseStep DEF MarksOnLoss
  <2> QED BY <1>3, <2>2, <2>3 DEF SetRecord
<1>4. CASE RemoveRecord
  <2>1. /\ raised = FALSE /\ stack # <<>> /\ top.at = "record" /\ top.todo # <<>>
        /\ UNCHANGED <<records, stale, carried, tally, used>> /\ Keep
        /\ top.filter.kind = "remove"
    BY <1>4 DEF RemoveRecord, AtRecord, Within, Core
  <2>2. MarksOnKeep
    <3>1. CASE UNCHANGED marks
      BY <2>1, <3>1 DEF MarksOnKeep
    <3>2. CASE ClearMarkers(record)
      <4>1. "hide" \in used \/ record = Scope
        BY <2>1, Freely DEF Silent, MayClear
      <4> QED BY <2>1, <3>2, <4>1, ScopeIsNone DEF MarksOnKeep, ClearMarkers
    <3> QED BY <1>4, <3>1, <3>2 DEF RemoveRecord
  <2> QED BY <2>1, <2>2, KeepStep
<1>5. CASE ScriptRecord
  <2>1. /\ raised = FALSE /\ stack # <<>> /\ top.at = "record" /\ top.todo # <<>>
        /\ UNCHANGED <<records, carried, tally, used>> /\ top.filter.kind = "script"
    BY <1>5 DEF ScriptRecord, AtRecord, Within, Core
  <2>2. CASE Transforms
    <3>1. Keep /\ UNCHANGED stale
      BY <2>2 DEF Transforms
    <3>2. MarksOnKeep
      <4>1. CASE UNCHANGED marks
        BY <2>1, <3>1, <4>1 DEF MarksOnKeep
      <4>2. CASE ClearMarkers(record)
        <5>1. "hide" \in used \/ record = Scope
          BY <2>1, Freely DEF Silent, MayClear
        <5> QED BY <2>1, <3>1, <4>2, <5>1, ScopeIsNone DEF MarksOnKeep, ClearMarkers
      <4> QED BY <2>2, <4>1, <4>2 DEF Transforms
    <3> QED BY <2>1, <3>1, <3>2, KeepStep
  <2>3. CASE TransformFails
    <3>1. KeepUnmarked /\ Stale(record) /\ UNCHANGED marks
      BY <2>3 DEF TransformFails
    <3> QED BY <2>1, <3>1, UnmarkedStep
  <2> QED BY <1>5, <2>2, <2>3 DEF ScriptRecord
<1>6. CASE FilterStopsAtContext
  <2>1. /\ stack # <<>> /\ Raise /\ UNCHANGED <<records, marks, stale, carried, tally, used>>
    BY <1>6 DEF FilterStopsAtContext, AtRecord, Within
  <2> QED BY <2>1, RaiseStep DEF MarksOnLoss
<1> QED BY <1>1, <1>2, <1>3, <1>4, <1>5, <1>6

(* The steps of condition.                                                 *)
LEMMA ConditionCore ==
  ASSUME Core, ConditionRecord \/ ConditionDone \/ ConditionCatches
  PROVE  Core'
<1>1. CASE ConditionRecord
  <2>1. /\ raised = FALSE /\ stack # <<>> /\ top.at = "record" /\ top.todo # <<>>
        /\ UNCHANGED <<records, marks, stale, carried, tally, used>>
        /\ top.filter.kind = "condition"
    BY <1>1 DEF ConditionRecord, AtRecord, Within, Core
  <2>2. CASE EnterBranch
    <3> DEFINE frame == [top EXCEPT !.at = "nested", !.nested = <<record>>]
    <3>1. SetTop(frame) /\ raised' = FALSE
      BY <2>1, <2>2 DEF EnterBranch
    <3>2. /\ top \in Frame /\ FrameOK(top, used) /\ record = Head(top.todo) /\ record \in Records
      BY <2>1, TopFacts
    <3>3. /\ frame \in Frame /\ frame.filter = top.filter /\ frame.todo = top.todo
          /\ frame.out = top.out /\ frame.at = "nested" /\ frame.nested = <<record>>
      <4>1. <<record>> \in Seq(Records)
        BY <3>2
      <4> QED BY <3>2, <4>1 DEF Frame, Records
    <3> HIDE DEF frame
    <3>4. FrameOK(frame, used)
      <4>1. Handed(frame, frame.nested, used)
        BY <2>1, <3>2, <3>3 DEF Handed, Hand
      <4> QED BY <2>1, <3>2, <3>3, <4>1 DEF FrameOK
    <3>5. LiveOf(frame, TRUE) \subseteq LiveOf(top, TRUE)
      <4>1. ToSet(<<record>>) = {record}
        BY DEF ToSet
      <4>2. top.todo \in Seq(Records)
        BY <3>2, FrameParts
      <4>3. ToSet(top.todo) = {record} \cup ToSet(Tail(top.todo))
        BY <2>1, <3>2, <4>2, HeadTail
      <4> QED BY <2>1, <3>2, <3>3, <4>1, <4>3, LiveParts
    <3> QED BY <2>1, <3>1, <3>3, <3>4, <3>5, MoveStep
  <2>3. CASE EvaluationFails
    <3>1. CASE top.filter.onError = "fail"
      <4>1. Raise
        BY <2>3, <3>1 DEF EvaluationFails
      <4> QED BY <2>1, <4>1, RaiseStep DEF MarksOnLoss
    <3>2. CASE top.filter.onError # "fail"
      <4>1. Result(<<>>) /\ raised' = FALSE
        BY <2>1, <2>3, <3>2 DEF EvaluationFails, Drop
      <4>2. "remove" \in used \/ record = Scope
        <5>1. top.filter.onError \in OnErrors
          BY <2>1, TopFacts, FrameParts, OnErrorIs
        <5>2. MayRemove(top.filter)
          BY <2>1, <3>2, <5>1 DEF MayRemove, OnErrors
        <5> QED BY <2>1, <5>2, Freely
      <4> QED BY <2>1, <4>1, <4>2, ResultStep DEF MarksOnLoss
    <3> QED BY <3>1, <3>2
  <2> QED BY <1>1, <2>2, <2>3 DEF ConditionRecord
<1>2. CASE ConditionDone
  <2>1. /\ raised = FALSE /\ raised' = FALSE /\ stack # <<>> /\ top.at = "nested"
        /\ UNCHANGED <<records, marks, stale, carried, tally, used>>
        /\ top.filter.kind = "condition" /\ Result(top.nested)
    BY <1>2 DEF ConditionDone, Within, Core
  <2>2. top.todo # <<>> /\ Handed(top, top.nested, used)
    BY <2>1, TopFacts DEF FrameOK
  <2>3. Hand(top) = record
    BY <2>1 DEF Hand, record
  <2>4. /\ top.nested \in {<<>>, <<record>>}
        /\ top.nested = <<>> => "remove" \in used \/ record = Scope
    BY <2>2, <2>3 DEF Handed
  <2>5. MarksOnLoss /\ MarksOnKeep
    BY <2>1 DEF MarksOnLoss, MarksOnKeep
  <2> QED BY <2>1, <2>2, <2>4, <2>5, ResultStep
<1>3. CASE ConditionCatches
  <2>1. /\ raised = TRUE /\ stack # <<>> /\ top.filter.kind = "condition"
        /\ UNCHANGED <<records, marks, stale, carried, tally, used>>
    BY <1>3 DEF ConditionCatches, Core
  <2>2. CASE Raise
    BY <2>1, <2>2, RaiseStep DEF MarksOnLoss
  <2>3. CASE top.filter.onError # "fail" /\ raised' = FALSE /\ UNCHANGED stack
    <3>1. /\ Core /\ top \in Frame /\ top = stack[Len(stack)] /\ FrameOK(top, used)
      BY <2>1, TopFacts
    <3>2. top.at = "nested" /\ top.todo # <<>> /\ Handed(top, top.nested, used)
      BY <2>1, <3>1 DEF Core, FrameOK
    <3>3. "hide" \in used \/ record = Scope
      BY <2>1, <2>3, <3>2, Freely DEF Silent
    <3>4. LiveNow = Below(stack) \cup LiveOf(top, FALSE)
      BY <2>1, <3>1, LiveAll DEF LiveNow, Core
    <3>5. LiveNow' = Below(stack) \cup LiveOf(top, TRUE)
      <4>1. LiveNow' = Live(stack, FALSE, records)
        BY <2>1, <2>3 DEF LiveNow
      <4> QED BY <2>1, <3>1, <4>1, LiveAll DEF Core
    <3>6. LiveOf(top, TRUE) = LiveOf(top, FALSE) \cup ToSet(top.nested)
      BY <2>1, <3>1, <3>2, LiveParts
    <3>7. record = Scope => ToSet(top.nested) \cap Ids = {}
      <4> SUFFICES ASSUME record = Scope PROVE ToSet(top.nested) \cap Ids = {}
        OBVIOUS
      <4>1. top.nested \in {<<>>, <<Scope>>}
        BY <2>1, <3>2 DEF Handed, Hand, record
      <4>2. ToSet(<<>>) = {} /\ ToSet(<<Scope>>) = {Scope}
        BY DEF ToSet
      <4> QED BY <4>1, <4>2, ScopeIsNone
    <3>8. "hide" \notin used => LiveNow' \cap Ids \subseteq LiveNow
      BY <3>3, <3>4, <3>5, <3>6, <3>7
    <3>9. MarksHold(marks, stale, carried, tally, LiveNow, used) /\ Scope \in Records
      BY DEF Core, Records
    <3>10. MarksHold(marks', stale', carried', tally', LiveNow', used')
      BY <2>1, <3>8, <3>9, MarksMove
    <3>11. Ordered(stack, used, records)' /\ Increasing(records)'
      BY <2>1, <2>3 DEF Core, Increasing
    <3> QED BY <2>1, <2>3, <3>10, <3>11 DEF Core
  <2> QED BY <1>3, <2>2, <2>3 DEF ConditionCatches
<1> QED BY <1>1, <1>2, <1>3

(* A loop goes on with the record it is at: to an item, or into its        *)
(* filters.                                                                *)
LEMMA LoopMove ==
  ASSUME Core, stack # <<>>, raised = FALSE, top.filter.kind = "loop", top.todo # <<>>,
         NEW frame \in Frame, SetTop(frame), frame.filter = top.filter,
         frame.todo = top.todo, frame.out = top.out,
         \/ frame.at = "item"
         \/ frame.at = "nested" /\ frame.nested = <<Scope>>,
         raised' = FALSE,
         UNCHANGED <<records, marks, stale, carried, tally, used>>
  PROVE  Core'
<1>1. top \in Frame /\ FrameOK(top, used)
  BY TopFacts
<1>2. frame.at = "nested" => Handed(frame, frame.nested, used)
  BY DEF Handed, Hand
<1>3. FrameOK(frame, used)
  BY <1>1, <1>2 DEF FrameOK
<1>4. LiveOf(frame, TRUE) = LiveOf(top, TRUE)
  BY <1>1, LiveParts
<1> QED BY <1>3, <1>4, MoveStep

(* The steps of loop.                                                      *)
LEMMA LoopCore ==
  ASSUME Core, LoopRecord \/ LoopItem \/ LoopItemDone \/ LoopDone \/ LoopCatches
  PROVE  Core'
<1>1. ASSUME stack # <<>>, raised = FALSE, top.todo # <<>>, top.filter.kind = "loop",
             NEW registered, LoopFails(registered),
             UNCHANGED <<records, marks, carried, tally, used>>
      PROVE  Core'
  <2>1. KeepUnmarked /\ Stale(record)
    BY <1>1 DEF LoopFails
  <2> QED BY <1>1, <2>1, UnmarkedStep
<1>2. CASE LoopRecord
  <2>1. /\ raised = FALSE /\ stack # <<>> /\ top.at = "record" /\ top.todo # <<>>
        /\ UNCHANGED <<records, marks, carried, tally, used>>
        /\ top.filter.kind = "loop" /\ top \in Frame
    BY <1>2, TopFacts DEF LoopRecord, AtRecord, Within, Core
  <2>2. CASE Keep /\ UNCHANGED <<stale, aliases, troubles>>
    BY <2>1, <2>2, KeepStep DEF MarksOnKeep
  <2>3. CASE LoopFails({})
    BY <2>1, <2>3, <1>1
  <2>4. CASE /\ \E n \in 0 .. MaxItems : SetTop([top EXCEPT !.at = "item", !.items = n])
             /\ UNCHANGED <<raised, stale, troubles>>
    <3>1. PICK n \in 0 .. MaxItems : SetTop([top EXCEPT !.at = "item", !.items = n])
      BY <2>4
    <3> DEFINE frame == [top EXCEPT !.at = "item", !.items = n]
    <3>2. /\ frame \in Frame /\ frame.filter = top.filter /\ frame.todo = top.todo
          /\ frame.out = top.out /\ frame.at = "item"
      BY <2>1 DEF Frame
    <3>3. SetTop(frame)
      BY <3>1
    <3> HIDE DEF frame
    <3> QED BY <2>1, <2>4, <3>2, <3>3, LoopMove
  <2> QED BY <1>2, <2>2, <2>3, <2>4 DEF LoopRecord
<1>3. CASE LoopItem
  <2>1. /\ raised = FALSE /\ stack # <<>> /\ top.at = "item" /\ top.items > 0
        /\ UNCHANGED <<records, marks, carried, tally, used>>
        /\ top.filter.kind = "loop" /\ top \in Frame /\ FrameOK(top, used)
    BY <1>3, TopFacts DEF LoopItem, Within, Core
  <2>2. top.todo # <<>>
    BY <2>1 DEF FrameOK
  <2>3. CASE cancelled
    <3>1. LoopFails({top.filter.alias})
      BY <1>3, <2>3 DEF LoopItem
    <3> QED BY <2>1, <2>2, <3>1, <1>1
  <2>4. CASE ~cancelled
    <3> DEFINE frame == [top EXCEPT !.at = "nested", !.nested = <<Scope>>, !.ran = 0,
                                    !.items = @ - 1]
    <3>1. SetTop(frame) /\ UNCHANGED <<raised, stale>>
      BY <1>3, <2>4 DEF LoopItem
    <3>2. top.items - 1 \in 0 .. MaxItems /\ 0 \in 0 .. MaxNested
      <4>1. top.items \in 0 .. MaxItems /\ MaxItems \in Nat /\ MaxNested \in Nat
        BY <2>1, FrameParts, FilterChainAssumption
      <4> QED BY <2>1, <4>1
    <3>3. <<Scope>> \in Seq(Ids \cup {Scope})
      OBVIOUS
    <3>4. /\ frame \in Frame /\ frame.filter = top.filter /\ frame.todo = top.todo
          /\ frame.out = top.out /\ frame.at = "nested" /\ frame.nested = <<Scope>>
      BY <2>1, <3>2, <3>3 DEF Frame
    <3> HIDE DEF frame
    <3> QED BY <2>1, <2>2, <3>1, <3>4, LoopMove
  <2> QED BY <2>3, <2>4
<1>4. CASE LoopItemDone
  <2>1. /\ raised = FALSE /\ stack # <<>> /\ top.at = "nested"
        /\ UNCHANGED <<records, marks, carried, tally, used>>
        /\ top.filter.kind = "loop" /\ top \in Frame /\ FrameOK(top, used)
    BY <1>4, TopFacts DEF LoopItemDone, Within, Core
  <2>2. top.todo # <<>>
    BY <2>1 DEF FrameOK
  <2>3. CASE ScopeTouched \/ ItemBecameObject
    <3>1. LoopFails({top.filter.alias})
      BY <2>3 DEF ScopeTouched, ItemBecameObject
    <3> QED BY <2>1, <2>2, <3>1, <1>1
  <2>4. CASE /\ SetTop([top EXCEPT !.at = "item", !.nested = <<>>, !.ran = 0])
             /\ UNCHANGED <<raised, stale, aliases, troubles>>
    <3> DEFINE frame == [top EXCEPT !.at = "item", !.nested = <<>>, !.ran = 0]
    <3>1. 0 \in 0 .. MaxNested
      BY FilterChainAssumption
    <3>2. <<>> \in Seq(Ids \cup {Scope})
      OBVIOUS
    <3>3. /\ frame \in Frame /\ frame.filter = top.filter /\ frame.todo = top.todo
          /\ frame.out = top.out /\ frame.at = "item"
      BY <2>1, <3>1, <3>2 DEF Frame
    <3>4. SetTop(frame)
      BY <2>4
    <3> HIDE DEF frame
    <3> QED BY <2>1, <2>2, <2>4, <3>3, <3>4, LoopMove
  <2> QED BY <1>4, <2>3, <2>4 DEF LoopItemDone
<1>5. CASE LoopDone
  <2>1. /\ raised = FALSE /\ stack # <<>> /\ top.at = "item"
        /\ UNCHANGED <<records, marks, carried, tally, used>>
        /\ top.filter.kind = "loop" /\ top \in Frame /\ FrameOK(top, used)
    BY <1>5, TopFacts DEF LoopDone, Within, Core
  <2>2. top.todo # <<>>
    BY <2>1 DEF FrameOK
  <2>3. CASE Keep /\ UNCHANGED stale
    BY <2>1, <2>2, <2>3, KeepStep DEF MarksOnKeep
  <2>4. CASE LoopFails({top.filter.alias})
    BY <2>1, <2>2, <2>4, <1>1
  <2> QED BY <1>5, <2>3, <2>4 DEF LoopDone
<1>6. CASE LoopCatches
  <2>1. /\ raised = TRUE /\ stack # <<>> /\ top.filter.kind = "loop"
        /\ UNCHANGED <<records, marks, carried, tally, used>> /\ Stale(record)
        /\ top \in Frame /\ FrameOK(top, used) /\ top = stack[Len(stack)]
    BY <1>6, TopFacts DEF LoopCatches, Core
  <2>2. top.at = "nested" /\ top.todo # <<>>
    BY <2>1 DEF Core, FrameOK
  <2>3. CASE Raise
    BY <2>1, <2>2, <2>3, RaiseStep DEF MarksOnLoss
  <2>4. CASE /\ top.filter.onError # "fail" /\ raised' = FALSE
             /\ Result(IF top.filter.onError = "log" THEN <<record>> ELSE <<>>)
    <3>1. CASE top.filter.onError = "log"
      <4>1. Result(<<record>>) /\ raised' = FALSE /\ <<record>> # <<>>
        BY <2>4, <3>1
      <4>2. "hide" \in used \/ record = Scope
        BY <2>1, <2>2, <2>4, Freely DEF Silent
      <4> QED BY <2>1, <2>2, <4>1, <4>2, ResultStep DEF MarksOnKeep
    <3>2. CASE top.filter.onError # "log"
      <4>1. Result(<<>>) /\ raised' = FALSE
        BY <2>4, <3>2
      <4>2. "remove" \in used \/ record = Scope
        <5>1. top.filter \in Filters
          BY <2>1, FrameParts
        <5>3. top.filter.onError \in OnErrors
          BY <5>1, OnErrorIs
        <5>4. MayRemove(top.filter)
          BY <2>1, <2>4, <3>2, <5>3 DEF MayRemove, OnErrors
        <5> QED BY <2>1, <2>2, <5>4, Freely
      <4> QED BY <2>1, <2>2, <4>1, <4>2, ResultStep DEF MarksOnLoss
    <3> QED BY <3>1, <3>2
  <2> QED BY <1>6, <2>3, <2>4 DEF LoopCatches
<1> QED BY <1>2, <1>3, <1>4, <1>5, <1>6

(* Every step of the filter stage keeps the order and the markers.         *)
LEMMA FilterStepKeepsCore ==
  ASSUME Core, FilterStep
  PROVE  Core'
<1>1. (\E f \in Filters : StartFilter(f) \/ StartNested(f)) => Core'
  BY StartStep
<1> QED BY <1>1, ReturnStep, PlainCore, ConditionCore, LoopCore DEF FilterStep

(* The batch that comes out of the input, or is left when the stage is     *)
(* over: no call is under way, and only what the source marked is marked.  *)
LEMMA CoreAnew ==
  ASSUME stack' = <<>>, raised' \in BOOLEAN, records' \in Seq(Ids), Increasing(records'),
         marks' \in [Ids -> Nat], carried' \subseteq Ids, MarkedBy(marks') \subseteq carried',
         stale' = {}, tally' \in Nat
  PROVE  Core'
<1>1. Ordered(stack, used, records)' /\ Increasing(records)'
  BY DEF Ordered, Increasing
<1>2. Cardinality(MarkedBy(marks') \ carried') = 0
  <2>1. MarkedBy(marks') \ carried' = {}
    OBVIOUS
  <2> QED BY <2>1, FS_EmptySet, Zenon
<1>3. MarksHold(marks, stale, carried, tally, LiveNow, used)'
  <2>1. tally' >= Cardinality(MarkedBy(marks') \ carried')
    BY <1>2
  <2>2. MarksHold(marks', stale', carried', tally', LiveNow', used')
    BY <2>1 DEF MarksHold
  <2> QED BY <2>2
<1>4. stack' \in Seq(Frame) /\ Len(stack') <= MaxDepth
  BY FilterChainAssumption
<1> QED BY <1>1, <1>3, <1>4 DEF Core

(* Outside the stage nothing of it changes.                                *)
LEMMA CoreStands ==
  ASSUME Core, UNCHANGED <<records, chainVars>>
  PROVE  Core'
BY DEF Core, chainVars, Increasing, LiveNow

(* When no filter runs, what holds of the markers is what the stage        *)
(* promises.                                                               *)
LEMMA MarkersFollow ==
  ASSUME Core
  PROVE  FailuresAreMarked
<1> SUFFICES ASSUME stack = <<>>, ~raised
             PROVE  /\ \A r \in ToSet(records) :
                          /\ r \in stale /\ "hide" \notin used => marks[r] > 0
                          /\ marks[r] > 0 => r \in stale \cup carried
                    /\ tally >= Cardinality({r \in Ids \ carried : marks[r] > 0})
  BY DEF FailuresAreMarked, BetweenFilters
<1>1. LiveNow = ToSet(records)
  BY DEF LiveNow, Live
<1>2. ToSet(records) \subseteq Ids
  BY DEF Core, ToSet
<1>3. MarkedBy(marks) \ carried = {r \in Ids \ carried : marks[r] > 0}
  BY DEF MarkedBy
<1> QED BY <1>1, <1>2, <1>3 DEF Core, MarksHold, MarkedBy

-----------------------------------------------------------------------------
(* What the filter stage counts.                                           *)

(* The item name of a filter. *)
LEMMA AliasIs ==
  ASSUME NEW f \in Filters
  PROVE  f.alias \in Aliases
<1>1. \/ f \in Mappings \/ f \in Calls \/ f \in Scripts \/ f \in Conditions
      \/ f \in Loops \/ f \in Removes \/ f \in Others
  BY FilterChainAssumption
<1>2. \A kinds, errors :
         f \in [kind : kinds, onError : errors, alias : Aliases] => f.alias \in Aliases
  OBVIOUS
<1> QED BY <1>1, <1>2 DEF Mappings, Calls, Scripts, Conditions, Loops, Removes, Others

(* A marker is counted only when something went wrong.                     *)
Counted ==
    \/ UNCHANGED <<troubles, tally>>
    \/ Trouble /\ (UNCHANGED tally \/ TallyMarker)

ChainTyped ==
    /\ troubles \in 0 .. MaxTroubles /\ tally \in Nat /\ tally <= troubles
    /\ stage \in 0 .. MaxFilters
    /\ aliases \subseteq Aliases
    /\ used \subseteq {"remove", "hide"}

(* HandleRecordError writes at most one marker. *)
LEMMA HandleCounts == HandleRecordError => UNCHANGED tally \/ TallyMarker
BY DEF HandleRecordError

(* A filter begins.                                                        *)
LEMMA StartCounts ==
  ASSUME ChainTyped, \E f \in Filters : StartFilter(f) \/ StartNested(f)
  PROVE  Counted /\ ChainTyped' /\ used \subseteq used' /\ UNCHANGED records
<1>1. PICK f \in Filters : StartFilter(f) \/ StartNested(f)
  OBVIOUS
<1>2. ASSUME NEW batch, NEW callers, Enter(f, batch, callers)
      PROVE  /\ Counted /\ UNCHANGED <<records, aliases>>
             /\ used \subseteq used' /\ used' \subseteq {"remove", "hide"}
  BY <1>2 DEF Enter, ScriptDoesNotLoad, Counted, ChainTyped, Freedom
<1>3. Counted /\ UNCHANGED <<records, aliases>> /\ used \subseteq used'
        /\ used' \subseteq {"remove", "hide"}
  BY <1>1, <1>2 DEF StartFilter, StartNested
<1>4. stage' \in 0 .. MaxFilters
  BY <1>1, FilterChainAssumption DEF StartFilter, StartNested, ChainTyped
<1> QED BY <1>3, <1>4, BatchAssumption DEF Counted, Trouble, TallyMarker, ChainTyped

(* The other steps of the stage.                                           *)
LEMMA StepCounts ==
  ASSUME Core, ChainTyped,
         \/ FilterStopsAtContext
         \/ MapRecord \/ CallRecord \/ SetRecord \/ RemoveRecord \/ ScriptRecord
         \/ ConditionRecord \/ ConditionDone \/ ConditionCatches
         \/ LoopRecord \/ LoopItem \/ LoopItemDone \/ LoopDone \/ LoopCatches
  PROVE  Counted /\ UNCHANGED <<records, stage, used>> /\ aliases' \subseteq Aliases
<1>1. CASE FilterStopsAtContext
  BY <1>1 DEF FilterStopsAtContext, Counted, ChainTyped
<1>2. CASE MapRecord \/ CallRecord
  <2>1. UNCHANGED <<records, stage, used, aliases>>
    BY <1>2 DEF MapRecord, CallRecord
  <2>2. UNCHANGED <<tally, troubles>> \/ (Trouble /\ HandleRecordError)
    BY <1>2 DEF MapRecord, CallRecord, MappingFails
  <2> QED BY <2>1, <2>2, HandleCounts DEF Counted, ChainTyped
<1>3. CASE SetRecord \/ RemoveRecord \/ ScriptRecord
  <2>1. UNCHANGED <<records, stage, used, aliases, tally>>
    BY <1>3 DEF SetRecord, RemoveRecord, ScriptRecord
  <2>2. UNCHANGED troubles \/ Trouble
    BY <1>3 DEF SetRecord, RemoveRecord, ScriptRecord, Transforms, TransformFails
  <2> QED BY <2>1, <2>2 DEF Counted, ChainTyped
<1>4. CASE ConditionRecord \/ ConditionDone \/ ConditionCatches
  <2>1. UNCHANGED <<records, stage, used, aliases, tally>>
    BY <1>4 DEF ConditionRecord, ConditionDone, ConditionCatches
  <2>2. UNCHANGED troubles \/ Trouble
    BY <1>4 DEF ConditionRecord, ConditionDone, ConditionCatches, EnterBranch, EvaluationFails
  <2> QED BY <2>1, <2>2 DEF Counted, ChainTyped
<1>5. CASE LoopRecord \/ LoopItem \/ LoopItemDone \/ LoopDone \/ LoopCatches
  <2>1. UNCHANGED <<records, stage, used, tally>>
    BY <1>5 DEF LoopRecord, LoopItem, LoopItemDone, LoopDone, LoopCatches
  <2>2. UNCHANGED troubles \/ Trouble
    BY <1>5 DEF LoopRecord, LoopItem, LoopItemDone, LoopDone, LoopCatches, ScopeTouched,
                ItemBecameObject
  <2>3. aliases' \subseteq aliases \cup {top.filter.alias}
    BY <1>5 DEF LoopRecord, LoopItem, LoopItemDone, LoopDone, LoopCatches, ScopeTouched,
                ItemBecameObject, LoopFails
  <2>4. top.filter.alias \in Aliases
    <3>1. stack # <<>>
      BY <1>5 DEF LoopRecord, LoopItem, LoopItemDone, LoopDone, LoopCatches, AtRecord, Within
    <3>2. top.filter \in Filters
      BY <3>1, TopFacts, FrameParts
    <3> QED BY <3>2, AliasIs
  <2> QED BY <2>1, <2>2, <2>3, <2>4 DEF Counted, ChainTyped
<1> QED BY <1>1, <1>2, <1>3, <1>4, <1>5

(* Every step of the stage: no count leaves its bounds, and as long as no  *)
(* filter was met that may remove records, the batch is as it was.         *)
LEMMA FilterStepCounts ==
  ASSUME Core, ChainTyped, FilterStep
  PROVE  /\ ChainTyped' /\ used \subseteq used' /\ UNCHANGED cancelled
         /\ "remove" \notin used' => records' = records
<1>1. CASE \E f \in Filters : StartFilter(f) \/ StartNested(f)
  BY <1>1, StartCounts DEF FilterStep
<1>2. CASE Return
  <2>1. UNCHANGED <<stage, tally, aliases, used, troubles>>
    BY <1>2 DEF Return
  <2> QED BY <1>2, <2>1, ReturnStep DEF FilterStep, ChainTyped
<1>3. CASE \/ FilterStopsAtContext
           \/ MapRecord \/ CallRecord \/ SetRecord \/ RemoveRecord \/ ScriptRecord
           \/ ConditionRecord \/ ConditionDone \/ ConditionCatches
           \/ LoopRecord \/ LoopItem \/ LoopItemDone \/ LoopDone \/ LoopCatches
  <2>1. Counted /\ UNCHANGED <<records, stage, used>> /\ aliases' \subseteq Aliases
    BY <1>3, StepCounts
  <2>2. ChainTyped'
    BY <2>1, BatchAssumption DEF Counted, Trouble, TallyMarker, ChainTyped
  <2> QED BY <2>1, <2>2 DEF FilterStep
<1> QED BY <1>1, <1>2, <1>3 DEF FilterStep

-----------------------------------------------------------------------------
(* The execution, from its input to its result.                            *)

(* What the variables outside the two stages may be.                       *)
RestTyped ==
    /\ cancelled \in BOOLEAN
    /\ output \in OutputConfigs \cup {NoOutput}
    /\ badBody \subseteq Ids /\ badUrl \subseteq Ids
    /\ db \in {"none", "open", "closed"}
    /\ dryRun \in BOOLEAN
    /\ fetched \in Seq(Ids)
    /\ phase \in {"connect", "input", "filter", "preview", "output", "done"}
    /\ result \in [status : {"success", "error"}, processed : Nat, failed : Nat,
                   error : {"nil", "connect", "input", "filter", "output"},
                   errorCounts : Nat, preview : Seq(Nat)]

(* How far the stages have come: the filters have lost nothing they might  *)
(* not, Send is called in the output stage only, and the result says       *)
(* nothing before the end.                                                 *)
Progress ==
    /\ phase = "filter" /\ "remove" \notin used => records = fetched
    /\ phase # "filter" => stack = <<>>
    /\ phase \in {"connect", "input"} => stale = {}
    /\ phase \in {"connect", "input", "filter", "preview"} => send.pc = "idle"
    /\ dryRun => phase \in {"preview", "done"} /\ send.pc = "idle"
    /\ phase = "preview" => dryRun
    /\ phase # "done" => result.processed = 0 /\ result.failed = 0 /\ result.error = "nil"
    /\ phase = "done" => IF EndedEarly THEN send.pc = "idle"
                         ELSE result.processed + result.failed = Len(records)

DeliveryInv == Core /\ ChainTyped /\ SendInv /\ RestTyped /\ Progress

(* The batch the input returns.                                            *)
LEMMA FetchedInOrder ==
  ASSUME NEW n \in 0 .. MaxRecords
  PROVE  Fetched(n) \in Seq(Ids) /\ Increasing(Fetched(n))
BY BatchAssumption DEF Fetched, Ids, Increasing

(* Records in order are distinct.                                          *)
LEMMA OrderIsDistinct ==
  ASSUME NEW q \in Seq(Ids), Increasing(q)
  PROVE  Distinct(q)
<1> SUFFICES ASSUME NEW i \in DOMAIN q, NEW j \in DOMAIN q, q[i] = q[j] PROVE i = j
  BY DEF Distinct
<1>1. i \in Nat /\ j \in Nat /\ q[i] \in Nat /\ q[j] \in Nat
  <2>1. i \in Nat /\ j \in Nat /\ q[i] \in Ids /\ q[j] \in Ids
    OBVIOUS
  <2> QED BY <2>1, ScopeIsNone
<1>2. (i < j => q[i] < q[j]) /\ (j < i => q[j] < q[i])
  BY DEF Increasing
<1> QED BY <1>1, <1>2

(* Initially nothing has happened.                                         *)
LEMMA InitDelivery == Init => DeliveryInv
<1> SUFFICES ASSUME Init PROVE DeliveryInv
  OBVIOUS
<1>1. /\ stack = <<>> /\ raised = FALSE /\ records = <<>> /\ stale = {} /\ carried = {}
      /\ tally = 0 /\ marks = [r \in Ids |-> 0] /\ used = {} /\ aliases = {} /\ stage = 0
      /\ cancelled = FALSE /\ troubles = 0
  BY DEF Init, FilterInit, BatchInit
<1>2. Core
  <2>1. Increasing(records) /\ Ordered(stack, used, records)
    BY <1>1 DEF Increasing, Ordered
  <2>2. marks \in [Ids -> Nat] /\ MarkedBy(marks) = {}
    BY <1>1 DEF MarkedBy
  <2>3. Cardinality(MarkedBy(marks) \ carried) = 0
    <3>1. MarkedBy(marks) \ carried = {}
      BY <2>2
    <3> QED BY <3>1, FS_EmptySet, Zenon
  <2>4. MarksHold(marks, stale, carried, tally, LiveNow, used)
    BY <1>1, <2>2, <2>3 DEF MarksHold
  <2>5. /\ <<>> \in Seq(Frame) /\ <<>> \in Seq(Ids) /\ Len(<<>>) <= MaxDepth
        /\ FALSE \in BOOLEAN
    BY FilterChainAssumption
  <2> QED BY <1>1, <2>1, <2>4, <2>5, Zenon DEF Core
<1>3. ChainTyped
  BY <1>1, BatchAssumption, FilterChainAssumption DEF ChainTyped
<1>4. /\ send = Idle /\ received = [r \in Ids |-> 0] /\ lost = 0 /\ output = NoOutput
      /\ badBody = {} /\ badUrl = {} /\ db = "none"
  BY DEF Init, OutputInit
<1>5. SendInv
  <2>1. Taken = {} /\ received \in [Ids -> Nat]
    BY <1>4 DEF Taken
  <2>2. send \in Send /\ send.pc = "idle"
    <3>1. {} \in SUBSET Ids /\ 1 \in Nat \ {0} /\ 0 \in Nat
      OBVIOUS
    <3> QED BY <1>4, <3>1 DEF Idle, Send
  <2> QED BY <1>4, <2>1, <2>2 DEF SendInv, Untouched, Busy, Returned
<1>6. /\ phase = "connect" /\ result = NoResult /\ dryRun = FALSE /\ fetched = <<>>
  BY DEF Init
<1>7. RestTyped
  <2>1. result \in [status : {"success", "error"}, processed : Nat, failed : Nat,
                    error : {"nil", "connect", "input", "filter", "output"},
                    errorCounts : Nat, preview : Seq(Nat)]
    BY <1>6 DEF NoResult
  <2>2. <<>> \in Seq(Ids)
    OBVIOUS
  <2> QED BY <1>1, <1>4, <1>6, <2>1, <2>2, Zenon DEF RestTyped
<1>8. Progress
  BY <1>1, <1>4, <1>6 DEF Progress, NoResult, Idle
<1> QED BY <1>2, <1>3, <1>5, <1>7, <1>8 DEF DeliveryInv

(* The stages before the filters.                                          *)
LEMMA EarlyStepPreserves ==
  ASSUME DeliveryInv, ConnectOutput \/ ExecuteInput
  PROVE  DeliveryInv'
<1>1. ASSUME NEW error \in {"connect", "input", "filter"}, FailWith(error)
      PROVE  /\ phase' = "done" /\ EndedEarly'
             /\ result' \in [status : {"success", "error"}, processed : Nat, failed : Nat,
                             error : {"nil", "connect", "input", "filter", "output"},
                             errorCounts : Nat, preview : Seq(Nat)]
  BY <1>1 DEF FailWith, EndedEarly, DeliveryInv, RestTyped
<1>2. TroubleOrCancel => troubles' \in 0 .. MaxTroubles /\ troubles' >= troubles
  BY BatchAssumption DEF TroubleOrCancel, Trouble, DeliveryInv, ChainTyped
<1>3. CASE ConnectOutput
  <2>1. /\ phase = "connect" /\ UNCHANGED <<records, chainVars, cancelled, output, badBody,
                                            badUrl, send, received, lost, dryRun, fetched>>
        /\ db' \in {"none", "open", "closed"}
        /\ troubles' \in 0 .. MaxTroubles /\ troubles' >= troubles
        /\ \/ phase' = "input" /\ UNCHANGED result
           \/ FailWith("connect")
    BY <1>2, <1>3 DEF ConnectOutput, ConnectDatabase, DeliveryInv, ChainTyped, RestTyped
  <2>2. Core'
    BY <2>1, CoreStands DEF DeliveryInv
  <2>3. SendInv'
    BY <2>1, SendStands DEF DeliveryInv
  <2>4. ChainTyped'
    BY <2>1 DEF DeliveryInv, ChainTyped, chainVars
  <2>5. RestTyped'
    BY <1>1, <2>1 DEF DeliveryInv, RestTyped
  <2>6. Progress'
    BY <1>1, <2>1 DEF DeliveryInv, Progress, chainVars
  <2> QED BY <2>2, <2>3, <2>4, <2>5, <2>6 DEF DeliveryInv
<1>4. CASE ExecuteInput
  <2>1. /\ phase = "input" /\ stack = <<>> /\ send.pc = "idle" /\ dryRun = FALSE
        /\ UNCHANGED <<cancelled, stage, stack, raised, stale, tally, used, outputVars, dryRun>>
    BY <1>4 DEF ExecuteInput, DeliveryInv, Progress, RestTyped
  <2>2. SendInv'
    BY <2>1, SendStands DEF DeliveryInv, outputVars
  <2>3. CASE TroubleOrCancel /\ FailWith("input") /\ UNCHANGED <<fetched, records, carried, marks, aliases>>
    <3>1. Core'
      BY <2>1, <2>3, CoreStands DEF DeliveryInv, chainVars
    <3>2. ChainTyped'
      BY <1>2, <2>1, <2>3 DEF DeliveryInv, ChainTyped
    <3>3. RestTyped'
      BY <1>1, <2>1, <2>3 DEF DeliveryInv, RestTyped, outputVars
    <3>4. Progress'
      BY <1>1, <2>1, <2>3 DEF Progress, outputVars
    <3> QED BY <2>2, <3>1, <3>2, <3>3, <3>4 DEF DeliveryInv
  <2>4. ASSUME NEW n \in 0 .. MaxRecords, fetched' = Fetched(n), records' = Fetched(n),
               NEW errors \in {{}, 1 .. n}, carried' = errors,
               marks' = [r \in Ids |-> IF r \in errors THEN 1 ELSE 0],
               aliases' = {}, phase' = "filter", UNCHANGED <<result, troubles>>
        PROVE  DeliveryInv'
    <3>1. records' \in Seq(Ids) /\ Increasing(records')
      BY <2>4, FetchedInOrder
    <3>2. /\ carried' \subseteq Ids /\ marks' \in [Ids -> Nat]
          /\ MarkedBy(marks') \subseteq carried'
      <4>1. errors \subseteq Ids
        BY <2>4, BatchAssumption DEF Ids
      <4> QED BY <2>4, <4>1 DEF MarkedBy
    <3>3. Core'
      <4>1. stale = {}
        BY <2>1 DEF DeliveryInv, Progress
      <4> QED BY <2>1, <3>1, <3>2, <4>1, CoreAnew DEF DeliveryInv, Core, MarksHold
    <3>4. ChainTyped'
      BY <2>1, <2>4 DEF DeliveryInv, ChainTyped
    <3>5. RestTyped'
      BY <2>1, <2>4, <3>1 DEF DeliveryInv, RestTyped, outputVars
    <3>6. Progress'
      BY <2>1, <2>4 DEF DeliveryInv, Progress, outputVars
    <3> QED BY <2>2, <3>3, <3>4, <3>5, <3>6 DEF DeliveryInv
  <2> QED BY <1>4, <2>3, <2>4 DEF ExecuteInput, ReserveMetadataField
<1> QED BY <1>3, <1>4

(* The stage of the filters, and its end.                                  *)
LEMMA FilterStagePreserves ==
  ASSUME DeliveryInv, ExecuteFilters \/ FiltersFailed \/ FiltersDone
  PROVE  DeliveryInv'
<1>1. /\ phase = "filter" /\ send.pc = "idle" /\ UNCHANGED outputVars /\ dryRun = FALSE
      /\ result.processed = 0 /\ result.failed = 0 /\ result.error = "nil" /\ UNCHANGED dryRun
  BY DEF ExecuteFilters, FiltersFailed, FiltersDone, DeliveryInv, Progress, RestTyped
<1>2. SendInv'
  BY <1>1, SendStands DEF DeliveryInv, outputVars
<1>3. CASE ExecuteFilters
  <2>1. FilterStep /\ UNCHANGED <<phase, fetched, result>>
    BY <1>3 DEF ExecuteFilters
  <2>2. Core'
    BY <2>1, FilterStepKeepsCore DEF DeliveryInv
  <2>3. /\ ChainTyped' /\ used \subseteq used' /\ UNCHANGED cancelled
        /\ "remove" \notin used' => records' = records
    BY <2>1, FilterStepCounts DEF DeliveryInv
  <2>4. RestTyped'
    BY <1>1, <2>1, <2>3 DEF DeliveryInv, RestTyped, outputVars
  <2>5. Progress'
    BY <1>1, <2>1, <2>3 DEF DeliveryInv, Progress, outputVars
  <2> QED BY <1>2, <2>2, <2>3, <2>4, <2>5 DEF DeliveryInv
<1>4. CASE FiltersFailed \/ FiltersDone
  <2>1. /\ stack = <<>> /\ Forget /\ fetched' = <<>> /\ UNCHANGED <<records, cancelled, troubles>>
        /\ \/ FailWith("filter")
           \/ phase' = "output" /\ result' = [result EXCEPT !.errorCounts = tally]
    BY <1>4 DEF FiltersFailed, FiltersDone, BetweenFilters
  <2>2. Core'
    <3>1. /\ stack' = <<>> /\ stale' = {} /\ tally' = 0 /\ carried' = {}
          /\ marks' = [r \in Ids |-> 0] /\ UNCHANGED raised
      BY <2>1 DEF Forget
    <3>2. marks' \in [Ids -> Nat] /\ MarkedBy(marks') \subseteq carried'
      BY <3>1 DEF MarkedBy
    <3>3. raised' \in BOOLEAN /\ records' \in Seq(Ids) /\ Increasing(records')
      BY <2>1, <3>1 DEF DeliveryInv, Core, Increasing
    <3> QED BY <3>1, <3>2, <3>3, CoreAnew
  <2>3. ChainTyped'
    BY <2>1, FilterChainAssumption DEF Forget, DeliveryInv, ChainTyped
  <2>4. /\ phase' \in {"output", "done"} /\ (phase' = "done" <=> EndedEarly')
        /\ phase' = "output" => result'.processed = 0 /\ result'.failed = 0
                                /\ result'.error = "nil"
        /\ result' \in [status : {"success", "error"}, processed : Nat, failed : Nat,
                        error : {"nil", "connect", "input", "filter", "output"},
                        errorCounts : Nat, preview : Seq(Nat)]
    <3>1. tally \in Nat
      BY DEF DeliveryInv, ChainTyped
    <3>2. CASE FailWith("filter")
      BY <3>2 DEF FailWith, EndedEarly, DeliveryInv, RestTyped
    <3>3. CASE phase' = "output" /\ result' = [result EXCEPT !.errorCounts = tally]
      BY <1>1, <3>1, <3>3 DEF EndedEarly, DeliveryInv, RestTyped
    <3> QED BY <2>1, <3>2, <3>3
  <2>5. RestTyped'
    <3>1. <<>> \in Seq(Ids)
      OBVIOUS
    <3> QED BY <1>1, <2>1, <2>4, <3>1 DEF DeliveryInv, RestTyped, outputVars
  <2>6. Progress'
    BY <1>1, <2>1, <2>4 DEF Progress, outputVars, Forget
  <2> QED BY <1>2, <2>2, <2>3, <2>5, <2>6 DEF DeliveryInv
<1> QED BY <1>3, <1>4

(* What a preview shows: how many records each operation carries.          *)
LEMMA PreviewTyped ==
  ASSUME records \in Seq(Ids), NEW preview \in Previews
  PROVE  preview \in Seq(Nat)
<1>1. ASSUME preview \in StatementCounts
      PROVE  preview \in Seq(Nat)
  <2>1. PICK n \in 0 .. Len(records) : preview \in [1 .. n -> 1 .. Len(records)]
    BY <1>1 DEF StatementCounts
  <2>2. n \in Nat /\ Len(records) \in Nat
    OBVIOUS
  <2> QED BY <2>1, <2>2
<1>2. UnitLengths \in Seq(Nat)
  <2>1. Units \in SUBSET (1 .. Len(records)) /\ Len(records) \in Nat
    BY DEF Units
  <2>2. Cardinality(Units) \in Nat
    <3>1. IsFiniteSet(1 .. Len(records))
      BY <2>1, FS_Interval
    <3> QED BY <2>1, <3>1, FS_Subset, FS_CardinalityType
  <2>3. \A u : Cardinality(Unit(u)) \in Nat
    <3>1. \A u : Unit(u) \in SUBSET Ids
      BY DEF Unit
    <3> QED BY <3>1, FewRecords
  <2> QED BY <2>2, <2>3 DEF UnitLengths
<1> QED BY <1>1, <1>2 DEF Previews

(* The module and the batch meet.                                          *)
LEMMA ConfigureTyped ==
  ASSUME records \in Seq(Ids), NEW o \in OutputConfigs, Configure(o)
  PROVE  output' = o /\ badBody' \subseteq Ids /\ badUrl' \subseteq Ids
<1>1. ToSet(records) \subseteq Ids
  BY DEF ToSet
<1> QED BY <1>1 DEF Configure

(* A dry run.                                                              *)
LEMMA DryRunPreserves ==
  ASSUME DeliveryInv, BeginDryRun \/ ExecuteDryRunPreview
  PROVE  DeliveryInv'
<1>1. /\ UNCHANGED <<records, cancelled, troubles, chainVars, db, send, received, lost, fetched>>
      /\ send.pc = "idle" /\ phase \in {"output", "preview"}
  BY DEF BeginDryRun, ExecuteDryRunPreview, outputVars, DeliveryInv, Progress
<1>2. Core' /\ SendInv' /\ ChainTyped' /\ records \in Seq(Ids) /\ stack = <<>>
  <2>1. Core'
    BY <1>1, CoreStands DEF DeliveryInv
  <2>2. SendInv'
    BY <1>1, SendStands DEF DeliveryInv
  <2>3. ChainTyped' /\ records \in Seq(Ids) /\ stack = <<>>
    BY <1>1 DEF DeliveryInv, ChainTyped, chainVars, Core, Progress
  <2> QED BY <2>1, <2>2, <2>3
<1>3. CASE BeginDryRun
  <2>1. /\ output' \in OutputConfigs /\ badBody' \subseteq Ids /\ badUrl' \subseteq Ids
        /\ dryRun' = TRUE /\ phase' = "preview" /\ UNCHANGED result /\ phase = "output"
    BY <1>2, <1>3, ConfigureTyped DEF BeginDryRun
  <2>2. RestTyped'
    BY <1>1, <2>1 DEF DeliveryInv, RestTyped
  <2>3. Progress'
    BY <1>1, <1>2, <2>1 DEF DeliveryInv, Progress, chainVars
  <2> QED BY <1>2, <2>2, <2>3 DEF DeliveryInv
<1>4. CASE ExecuteDryRunPreview
  <2>1. /\ UNCHANGED <<output, badBody, badUrl, dryRun>> /\ phase' = "done"
        /\ phase = "preview"
    BY <1>4 DEF ExecuteDryRunPreview, outputVars
  <2>2. PICK preview \in Seq(Nat) :
          result' = [result EXCEPT !.status = "success", !.preview = preview,
                                   !.processed = Len(records)]
    <3>1. <<>> \in Seq(Nat)
      OBVIOUS
    <3>2. (IF PreviewRenders THEN Previews ELSE {<<>>}) \subseteq Seq(Nat)
      BY <1>2, <3>1, PreviewTyped
    <3> QED BY <1>4, <3>2 DEF ExecuteDryRunPreview
  <2>3. /\ result' \in [status : {"success", "error"}, processed : Nat, failed : Nat,
                        error : {"nil", "connect", "input", "filter", "output"},
                        errorCounts : Nat, preview : Seq(Nat)]
        /\ result'.processed = Len(records) /\ result'.failed = 0 /\ result'.error = "nil"
    <3>1. Len(records) \in Nat
      BY <1>2
    <3>2. /\ result \in [status : {"success", "error"}, processed : Nat, failed : Nat,
                         error : {"nil", "connect", "input", "filter", "output"},
                         errorCounts : Nat, preview : Seq(Nat)]
          /\ result.failed = 0 /\ result.error = "nil"
      BY <2>1 DEF DeliveryInv, RestTyped, Progress
    <3> QED BY <2>2, <3>1, <3>2
  <2>4. RestTyped'
    BY <1>1, <2>1, <2>3 DEF DeliveryInv, RestTyped
  <2>5. Progress'
    <3>1. Len(records) + 0 = Len(records) /\ dryRun
      BY <1>2, <2>1 DEF DeliveryInv, Progress
    <3> QED BY <1>1, <1>2, <2>1, <2>3, <3>1 DEF Progress, chainVars
  <2> QED BY <1>2, <2>4, <2>5 DEF DeliveryInv
<1> QED BY <1>3, <1>4

(* What no step of Send changes, and what it may count.                    *)
LEMMA SendCounts ==
  ASSUME SendStep
  PROVE  UNCHANGED fixed /\ (UNCHANGED troubles \/ Trouble)
<1>1. CASE NextBatch \/ NextRecord \/ NextEnvelope \/ NextStatement
  BY <1>1 DEF NextBatch, NextRecord, NextEnvelope, NextStatement, StopAtContext, StartUnit
<1>2. CASE LastUnitDone
  BY <1>2 DEF LastUnitDone
<1>3. CASE RequestSucceeds \/ RequestRefused \/ AnswerLost \/ RequestNotBuilt
  BY <1>3 DEF RequestSucceeds, RequestRefused, AnswerLost, RequestNotBuilt
<1>4. CASE CallNotBuilt \/ AnswerNotSuccess \/ EnvelopeNotSuccess \/ RequestInterrupted
  BY <1>4 DEF CallNotBuilt, AnswerNotSuccess, EnvelopeNotSuccess, RequestInterrupted
<1>5. CASE StatementWithoutPool \/ StatementRefused
  BY <1>5 DEF StatementWithoutPool, StatementRefused
<1>6. CASE ExecuteAlone
  BY <1>6 DEF ExecuteAlone
<1>7. CASE ExecuteInTransaction
  BY <1>7 DEF ExecuteInTransaction
<1>8. CASE TransactionLost
  BY <1>8 DEF TransactionLost
<1>9. CASE ExecuteAfterRollback
  BY <1>9 DEF ExecuteAfterRollback
<1>10. CASE Commit
  BY <1>10 DEF Commit
<1> QED BY <1>1, <1>2, <1>3, <1>4, <1>5, <1>6, <1>7, <1>8, <1>9, <1>10 DEF SendStep

(* The output stage.                                                       *)
LEMMA OutputStagePreserves ==
  ASSUME DeliveryInv, BeginSend \/ ExecuteSend \/ OutputDone
  PROVE  DeliveryInv'
<1>1. /\ phase = "output" /\ UNCHANGED <<records, cancelled, chainVars, dryRun, fetched>>
  BY SendCounts DEF BeginSend, ExecuteSend, OutputDone, fixed
<1>2. /\ Core /\ Core' /\ stack = <<>> /\ dryRun = FALSE
      /\ records \in Seq(Ids) /\ Distinct(records)
  <2>1. Core'
    BY <1>1, CoreStands DEF DeliveryInv
  <2>2. records \in Seq(Ids) /\ Distinct(records)
    BY OrderIsDistinct DEF DeliveryInv, Core
  <2> QED BY <1>1, <2>1, <2>2 DEF DeliveryInv, RestTyped, Progress
<1>3. ASSUME UNCHANGED troubles \/ Trouble
      PROVE  ChainTyped'
  BY <1>1, <1>3, BatchAssumption DEF DeliveryInv, ChainTyped, chainVars, Trouble
<1>4. CASE BeginSend
  <2>1. PICK o \in OutputConfigs : SendNothing(o) \/ SendRequests(o) \/ SendStatements(o)
    BY <1>4 DEF BeginSend
  <2>2. /\ Configure(o) /\ (UNCHANGED troubles \/ Trouble)
        /\ db' = db \/ db' = "open"
    BY <2>1 DEF SendNothing, SendRequests, SendStatements
  <2>3. output' = o /\ badBody' \subseteq Ids /\ badUrl' \subseteq Ids
    BY <1>2, <2>2, ConfigureTyped
  <2>4. SendInv'
    <3>1. send.pc = "idle"
      BY <1>4 DEF BeginSend
    <3> QED BY <1>1, <1>2, <2>1, <3>1, BeginSendPreserves DEF DeliveryInv
  <2>5. UNCHANGED <<phase, result>>
    BY <1>4 DEF BeginSend
  <2>6. RestTyped'
    BY <1>1, <2>2, <2>3, <2>5 DEF DeliveryInv, RestTyped
  <2>7. Progress'
    BY <1>1, <1>2, <2>5 DEF DeliveryInv, Progress, chainVars
  <2> QED BY <1>2, <1>3, <2>2, <2>4, <2>6, <2>7 DEF DeliveryInv
<1>5. CASE ExecuteSend
  <2>1. SendStep /\ UNCHANGED <<phase, result>>
    BY <1>5 DEF ExecuteSend
  <2>2. SendInv'
    BY <2>1, SendStepPreserves DEF DeliveryInv
  <2>3. UNCHANGED <<output, badBody, badUrl, db>> /\ (UNCHANGED troubles \/ Trouble)
    BY <2>1, SendCounts DEF fixed
  <2>4. RestTyped'
    BY <1>1, <2>1, <2>3 DEF DeliveryInv, RestTyped
  <2>5. Progress'
    BY <1>1, <1>2, <2>1 DEF DeliveryInv, Progress, chainVars
  <2> QED BY <1>2, <1>3, <2>2, <2>3, <2>4, <2>5 DEF DeliveryInv
<1>6. CASE OutputDone
  <2>1. /\ Returned /\ phase' = "done" /\ UNCHANGED <<troubles, outputVars>>
        /\ result' = [result EXCEPT !.status = IF send.failed THEN "error" ELSE "success",
                                    !.error = IF send.failed THEN "output" ELSE "nil",
                                    !.processed = send.sent,
                                    !.failed = Len(records) - send.sent]
    BY <1>6 DEF OutputDone
  <2>2. send.sent \in Nat /\ Len(records) \in Nat /\ send.sent <= Len(records)
    <3>1. send.sent <= Len(records) /\ send \in Send
      BY <2>1 DEF DeliveryInv, SendInv, Ended
    <3> QED BY <1>2, <3>1, SendFields
  <2>3. Len(records) - send.sent \in Nat /\ send.sent + (Len(records) - send.sent) = Len(records)
    BY <2>2
  <2>4. SendInv'
    BY <1>1, <2>1, SendStands DEF DeliveryInv, outputVars
  <2>5. /\ result' \in [status : {"success", "error"}, processed : Nat, failed : Nat,
                        error : {"nil", "connect", "input", "filter", "output"},
                        errorCounts : Nat, preview : Seq(Nat)]
        /\ ~EndedEarly' /\ result'.processed + result'.failed = Len(records)
    <3>1. result \in [status : {"success", "error"}, processed : Nat, failed : Nat,
                      error : {"nil", "connect", "input", "filter", "output"},
                      errorCounts : Nat, preview : Seq(Nat)]
      BY DEF DeliveryInv, RestTyped
    <3> DEFINE rest == Len(records) - send.sent
    <3>2. rest \in Nat /\ send.sent + rest = Len(records)
      BY <2>3
    <3>3. result' = [result EXCEPT !.status = IF send.failed THEN "error" ELSE "success",
                                   !.error = IF send.failed THEN "output" ELSE "nil",
                                   !.processed = send.sent, !.failed = rest]
      BY <2>1
    <3> HIDE DEF rest
    <3> QED BY <2>2, <3>1, <3>2, <3>3 DEF EndedEarly
  <2>6. RestTyped'
    BY <1>1, <2>1, <2>5 DEF DeliveryInv, RestTyped, outputVars
  <2>7. Progress'
    BY <1>1, <1>2, <2>1, <2>5 DEF Progress, chainVars
  <2> QED BY <1>2, <1>3, <2>1, <2>4, <2>6, <2>7 DEF DeliveryInv
<1> QED BY <1>4, <1>5, <1>6

(* What happens around the execution, or nothing.                          *)
LEMMA SurroundingsPreserve ==
  ASSUME DeliveryInv, Cancel \/ Close \/ UNCHANGED vars
  PROVE  DeliveryInv'
<1>1. /\ UNCHANGED <<records, chainVars, troubles, output, badBody, badUrl, send, received, lost>>
      /\ UNCHANGED <<dryRun, fetched, phase, result>>
      /\ db' \in {db, "closed"} /\ (UNCHANGED cancelled \/ cancelled' = TRUE)
  BY DEF Cancel, Close, CloseOutput, vars, outputVars
<1>2. Core'
  BY <1>1, CoreStands DEF DeliveryInv
<1>3. SendInv'
  BY <1>1, SendStands DEF DeliveryInv
<1>4. ChainTyped'
  BY <1>1 DEF DeliveryInv, ChainTyped, chainVars
<1>5. RestTyped'
  BY ZenonT(60), <1>1 DEF DeliveryInv, RestTyped
<1>6. Progress'
  BY <1>1 DEF DeliveryInv, Progress, chainVars, EndedEarly
<1> QED BY <1>2, <1>3, <1>4, <1>5, <1>6 DEF DeliveryInv

(* Every step of the execution keeps the invariant.                        *)
LEMMA NextDelivery == DeliveryInv /\ [Next]_vars => DeliveryInv'
BY EarlyStepPreserves, FilterStagePreserves, DryRunPreserves, OutputStagePreserves,
   SurroundingsPreserve DEF Next, Step

LEMMA AlwaysDelivery == Spec => []DeliveryInv
BY InitDelivery, NextDelivery, PTL DEF Spec

(* The variables keep their types: no more markers are counted than things *)
(* went wrong (MarkerTally), calls nest no deeper than MaxDepth, and the   *)
(* failed count of ExecutionResult is never negative.                      *)
THEOREM DeliveryTyped == Spec => []DeliveryType
<1>1. DeliveryInv => DeliveryType
  <2> SUFFICES ASSUME DeliveryInv PROVE DeliveryType
    OBVIOUS
  <2>1. BatchType
    BY DEF DeliveryInv, Core, ChainTyped, RestTyped, BatchType
  <2>2. FilterTypeOK
    <3>1. tally \in 0 .. MaxTroubles
      BY BatchAssumption DEF DeliveryInv, ChainTyped
    <3> QED BY <3>1 DEF DeliveryInv, Core, MarksHold, ChainTyped, FilterTypeOK
  <2>3. OutputType
    BY DEF DeliveryInv, SendInv, RestTyped, OutputType
  <2> QED BY <2>1, <2>2, <2>3 DEF DeliveryInv, RestTyped, DeliveryType
<1> QED BY <1>1, AlwaysDelivery, PTL

(* A record that failed in a filter does not go unnoticed, however filters *)
(* nest: records leave the batch through drop, skip or a condition only,   *)
(* the rest stay in their order; a failed record that goes on is marked    *)
(* and a marker is counted (HandleRecordError, AnnotateRecord,             *)
(* MarkerTally, executeFilters).                                           *)
THEOREM FailuresNoticed == Spec => []FailuresShow
<1>1. DeliveryInv => FailuresShow
  <2>1. DeliveryInv => FailuresAreMarked
    BY MarkersFollow DEF DeliveryInv
  <2>2. DeliveryInv => OrderKept
    BY DEF DeliveryInv, Core, Progress, OrderKept, OnlySkipOrDropRemoves, Increasing
  <2> QED BY <2>1, <2>2 DEF FailuresShow
<1> QED BY <1>1, AlwaysDelivery, PTL

(* Whatever fails, whichever answers are lost and whenever the context     *)
(* ends: the destination holds what an initial part of the batch carries   *)
(* when Send stops at failures, all or nothing of a transaction the server *)
(* has not rolled back by itself, and no record twice unless the answer to *)
(* a request was lost (Send of the output modules).                        *)
THEOREM DestinationHolds == Spec => []DestinationIsExact
<1>1. DeliveryInv => DestinationIsExact
  BY DestinationFollows DEF DeliveryInv, Core
<1> QED BY <1>1, AlwaysDelivery, PTL

(* The result counts every record that reached the output as processed or  *)
(* failed, an execution that ended before it, or a dry run, sent nothing,  *)
(* and what Send counts the destination has, unless requests carry a part  *)
(* of what is counted or a transaction was rolled back                     *)
(* (executeOutputWithResult).                                              *)
THEOREM ResultHonest == Spec => []ResultIsHonest
<1>1. DeliveryInv => ResultIsHonest
  <2>1. DeliveryInv => CountIsReceived
    BY CountFollows DEF DeliveryInv
  <2>2. DeliveryInv /\ send.pc = "idle" => Taken = {}
    BY DEF DeliveryInv, SendInv, Untouched
  <2>3. DeliveryInv => ResultAccounts
    BY <2>2 DEF DeliveryInv, Progress, Done, ResultAccounts
  <2> QED BY <2>1, <2>3 DEF ResultIsHonest
<1> QED BY <1>1, AlwaysDelivery, PTL
=============================================================================
