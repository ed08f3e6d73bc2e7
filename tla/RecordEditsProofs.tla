------------------------- MODULE RecordEditsProofs -------------------------
(***************************************************************************)
(* Proofs about RecordEdits, for every set of filters and of records.      *)
(*                                                                         *)
(* The operators of RecordEdits that walk a path, a list of targets or the *)
(* references between objects are recursive functions over 0 .. n.  What   *)
(* they compute is proved by induction: a set of naturals that holds 0 and *)
(* with n also n + 1 holds all of them (Counting), taken at the set of the *)
(* n for which the statement holds.                                        *)
(***************************************************************************)
EXTENDS RecordEdits, FiniteSetTheorems, WellFoundedInduction, TLAPS

-----------------------------------------------------------------------------
(* Naturals.                                                               *)

LEMMA LeastNatural ==
  ASSUME NEW S \in SUBSET Nat, S # {}
  PROVE  \E m \in S : \A n \in S : m <= n
<1>1. PICK x \in S : \A y \in S : ~(<<y, x>> \in OpToRel(<, Nat))
  <2>1. IsWellFoundedOn(OpToRel(<, Nat), Nat)
    BY NatLessThanWellFounded
  <2>. QED  BY <2>1, WFMin, Zenon
<1>2. \A y \in S : ~(y < x)
  BY <1>1 DEF OpToRel
<1>. QED  BY <1>2, SMT

LEMMA Counting ==
  ASSUME NEW S, 0 \in S, \A n \in Nat : n \in S => n + 1 \in S
  PROVE  \A n \in Nat : n \in S
<1>. SUFFICES ASSUME Nat \ S # {} PROVE FALSE
  OBVIOUS
<1>1. PICK m \in Nat \ S : \A n \in Nat \ S : m <= n
  BY LeastNatural, Zenon
<1>2. m # 0 /\ m - 1 \in Nat
  BY <1>1, SMT
<1>3. m - 1 \in S
  BY <1>1, <1>2, SMT
<1>4. (m - 1) + 1 = m
  BY SMT
<1>. QED  BY <1>1, <1>2, <1>3, <1>4

LEMMA FiniteIsBounded ==
  ASSUME NEW S, S \subseteq Nat, IsFiniteSet(S)
  PROVE  \E b \in Nat : \A s \in S : s <= b
<1>. DEFINE P(n) == \A T \in SUBSET Nat : IsFiniteSet(T) /\ Cardinality(T) = n
                       => \E b \in Nat : \A s \in T : s <= b
            N == {n \in Nat : P(n)}
<1>1. P(0)
  BY FS_EmptySet, 0 \in Nat
<1>2. ASSUME NEW n \in Nat, P(n)  PROVE  P(n + 1)
  <2>. SUFFICES ASSUME NEW T \in SUBSET Nat, IsFiniteSet(T), Cardinality(T) = n + 1
                PROVE  \E b \in Nat : \A s \in T : s <= b
    OBVIOUS
  <2>1. T # {}
    BY FS_EmptySet
  <2>2. PICK x \in T : TRUE
    BY <2>1
  <2>3. IsFiniteSet(T \ {x}) /\ Cardinality(T \ {x}) = (n + 1) - 1 /\ T \ {x} \in SUBSET Nat
    BY FS_RemoveElement, <2>2
  <2>4. (n + 1) - 1 = n
    OBVIOUS
  <2>5. PICK b \in Nat : \A s \in T \ {x} : s <= b
    BY <1>2, <2>3, <2>4
  <2>6. b + x \in Nat /\ \A s \in T : s <= b + x
    BY <2>2, <2>5, SMT
  <2>. QED  BY <2>6
<1>. HIDE DEF P
<1>3. 0 \in N /\ \A n \in Nat : n \in N => n + 1 \in N
  BY <1>1, <1>2
<1>4. \A n \in Nat : n \in N
  BY <1>3, Counting
<1>. QED  BY <1>4, FS_CardinalityType DEF P

LEMMA GreatestNatural ==
  ASSUME NEW S, S \subseteq Nat, IsFiniteSet(S), S # {}
  PROVE  Max(S) \in S /\ \A s \in S : s <= Max(S)
<1>. DEFINE B == {b \in Nat : \A s \in S : s <= b}
<1>1. B \in SUBSET Nat /\ B # {}
  BY FiniteIsBounded
<1>2. PICK m \in B : \A b \in B : m <= b
  BY <1>1, LeastNatural
<1>3. m \in S
  <2>. SUFFICES ASSUME m \notin S  PROVE FALSE
    OBVIOUS
  <2>1. m \in Nat /\ \A s \in S : s \in Nat /\ s <= m /\ s # m
    BY <1>2
  <2>2. PICK s \in S : TRUE
    OBVIOUS
  <2>3. m - 1 \in Nat /\ \A t \in S : t <= m - 1
    BY <2>1, <2>2, SMT
  <2>4. m - 1 \in B
    BY <2>3
  <2>5. m <= m - 1
    BY <2>4, <1>2
  <2>. QED  BY <2>5, <2>1, SMT
<1>4. \A s \in S : m >= s
  BY <1>2
<1>5. Max(S) \in S /\ \A s \in S : Max(S) >= s
  BY <1>3, <1>4 DEF Max
<1>. QED  BY <1>5, SMT

-----------------------------------------------------------------------------
(* Heaps: a new object, and what is reached.                               *)

LEMMA WithIs ==
  ASSUME NEW f, NEW x, NEW v
  PROVE  /\ DOMAIN With(f, x, v) = DOMAIN f \cup {x}
         /\ With(f, x, v)[x] = v
         /\ \A y \in DOMAIN f : y # x => With(f, x, v)[y] = f[y]
BY DEF With

LEMMA FreshIsNew ==
  ASSUME NEW h, IsFiniteSet(DOMAIN h)
  PROVE  Fresh(h) \in Nat /\ Fresh(h) \notin DOMAIN h
<1>. DEFINE c == Cardinality(DOMAIN h)
            Free == (1 .. c + 1) \ DOMAIN h
<1>1. c \in Nat
  BY FS_CardinalityType
<1>. HIDE DEF c
<1>2. IsFiniteSet(1 .. c + 1) /\ Cardinality(1 .. c + 1) = c + 1
  BY <1>1, FS_Interval, SMT
<1>3. Free # {}
  <2>. SUFFICES ASSUME Free = {}  PROVE FALSE
    OBVIOUS
  <2>1. (1 .. c + 1) \in SUBSET (DOMAIN h)
    OBVIOUS
  <2>2. Cardinality(1 .. c + 1) <= Cardinality(DOMAIN h)
    BY <2>1, FS_Subset
  <2>. QED  BY <2>2, <1>1, <1>2 DEF c
<1>4. Free \in SUBSET Nat
  BY <1>1
<1>5. PICK m \in Free : \A n \in Free : m <= n
  BY <1>3, <1>4, LeastNatural
<1>6. m \in 1 .. c + 1 /\ m \notin DOMAIN h /\ \A s \in 1 .. m - 1 : s \in DOMAIN h
  <2>1. \A s \in 1 .. m - 1 : s \in 1 .. c + 1 /\ ~(m <= s)
    BY <1>1, <1>4, SMT
  <2>. QED  BY <2>1, <1>5
<1>7. Fresh(h) \in 1 .. c + 1 /\ Fresh(h) \notin DOMAIN h
  BY <1>6 DEF Fresh, c
<1>. QED  BY <1>7, <1>1

(* One step further along the references.                                  *)
Nearer(h, refs) == refs \cup UNION {Held(h, r) : r \in refs}

(* Reach's recursive function.                                             *)
Within(h, refs) ==
    CHOOSE w : w = [n \in 0 .. Cardinality(DOMAIN h) |->
                      IF n = 0 THEN refs ELSE Nearer(h, w[n - 1])]

LEMMA WithinIs ==
  ASSUME NEW h, NEW refs, NEW N \in Nat, N = Cardinality(DOMAIN h)
  PROVE  /\ Reach(h, refs) = Within(h, refs)[N]
         /\ Within(h, refs)[0] = refs
         /\ \A n \in 1 .. N : Within(h, refs)[n] = Nearer(h, Within(h, refs)[n - 1])
<1>. DEFINE Eqn(w, n) == w = [i \in 0 .. n |-> IF i = 0 THEN refs ELSE Nearer(h, w[i - 1])]
            S == {n \in Nat : \E w : Eqn(w, n)}
<1>1. 0 \in S
  <2>1. Eqn([i \in 0 .. 0 |-> refs], 0)
    BY SMT
  <2>. QED  BY <2>1
<1>2. ASSUME NEW n \in Nat, n \in S  PROVE n + 1 \in S
  <2>1. PICK w : Eqn(w, n)
    BY <1>2
  <2>. DEFINE W == [i \in 0 .. n + 1 |-> IF i = n + 1 THEN Nearer(h, w[n]) ELSE w[i]]
  <2>2. Eqn(W, n + 1)
    <3>1. \A i \in 0 .. n + 1 : W[i] = IF i = 0 THEN refs ELSE Nearer(h, W[i - 1])
      BY <2>1, SMT
    <3>. QED  BY <3>1
  <2>3. \E v : Eqn(v, n + 1)
    <3>. HIDE DEF W, Eqn
    <3>. QED  BY <2>2
  <2>. QED  BY <2>3
<1>3. \A n \in Nat : n \in S
  <2>. HIDE DEF S
  <2>. QED  BY <1>1, <1>2, Counting
<1>4. \E w : Eqn(w, N)
  BY <1>3
<1>5. Within(h, refs) = CHOOSE w : Eqn(w, N)
  BY DEF Within
<1>6. Eqn(Within(h, refs), N)
  <2>. HIDE DEF Eqn
  <2>. QED  BY <1>4, <1>5
<1>7. Reach(h, refs) = Within(h, refs)[N]
  BY DEF Reach, Within, Nearer
<1>. HIDE DEF Within
<1>8. Within(h, refs)[0] = refs
  BY <1>6, SMT
<1>9. \A n \in 1 .. N : Within(h, refs)[n] = Nearer(h, Within(h, refs)[n - 1])
  BY <1>6, SMT
<1>. QED  BY <1>7, <1>8, <1>9

ClosedIn(h, S) == \A r \in S : Held(h, r) \subseteq S

LEMMA ReachIsLeast ==
  ASSUME NEW h, IsFiniteSet(DOMAIN h), NEW refs, NEW S, refs \subseteq S, ClosedIn(h, S)
  PROVE  Reach(h, refs) \subseteq S
<1>1. PICK N \in Nat : N = Cardinality(DOMAIN h)
  BY FS_CardinalityType
<1>. DEFINE w == Within(h, refs)
            T == {n \in Nat : n <= N => w[n] \subseteq S}
<1>2. /\ Reach(h, refs) = w[N] /\ w[0] = refs
      /\ \A n \in 1 .. N : w[n] = Nearer(h, w[n - 1])
  BY <1>1, WithinIs
<1>. HIDE DEF w
<1>3. 0 \in T
  BY <1>2
<1>4. ASSUME NEW n \in Nat, n \in T  PROVE n + 1 \in T
  <2>. SUFFICES ASSUME n + 1 <= N  PROVE w[n + 1] \subseteq S
    OBVIOUS
  <2>1. w[n] \subseteq S
    BY <1>4, <1>1
  <2>2. w[n + 1] = Nearer(h, w[n])
    <3>1. n + 1 \in 1 .. N /\ (n + 1) - 1 = n
      BY <1>1
    <3>. QED  BY <3>1, <1>2
  <2>. QED  BY <2>1, <2>2 DEF Nearer, ClosedIn
<1>5. \A n \in Nat : n \in T
  <2>. HIDE DEF T
  <2>. QED  BY <1>3, <1>4, Counting
<1>. QED  BY <1>5, <1>1, <1>2

(* Every step that is not yet closed reaches another object.               *)
LEMMA ReachIsClosed ==
  ASSUME NEW h, IsFiniteSet(DOMAIN h), ClosedIn(h, DOMAIN h),
         NEW refs, refs \subseteq DOMAIN h
  PROVE  /\ refs \subseteq Reach(h, refs) /\ Reach(h, refs) \subseteq DOMAIN h
         /\ ClosedIn(h, Reach(h, refs))
<1>1. PICK N \in Nat : N = Cardinality(DOMAIN h)
  BY FS_CardinalityType
<1>. DEFINE w == Within(h, refs)
            T == {n \in Nat : n <= N =>
                    /\ refs \subseteq w[n] /\ w[n] \subseteq DOMAIN h
                    /\ ClosedIn(h, w[n]) \/ n <= Cardinality(w[n])}
<1>2. /\ Reach(h, refs) = w[N] /\ w[0] = refs
      /\ \A n \in 1 .. N : w[n] = Nearer(h, w[n - 1])
  BY <1>1, WithinIs
<1>. HIDE DEF w
<1>3. 0 \in T
  <2>1. Cardinality(refs) \in Nat
    BY FS_Subset, FS_CardinalityType
  <2>. QED  BY <1>2, <2>1
<1>4. ASSUME NEW n \in Nat, n \in T  PROVE n + 1 \in T
  <2>. SUFFICES ASSUME n + 1 <= N
                PROVE  /\ refs \subseteq w[n + 1] /\ w[n + 1] \subseteq DOMAIN h
                       /\ ClosedIn(h, w[n + 1]) \/ n + 1 <= Cardinality(w[n + 1])
    OBVIOUS
  <2>1. /\ refs \subseteq w[n] /\ w[n] \subseteq DOMAIN h
        /\ ClosedIn(h, w[n]) \/ n <= Cardinality(w[n])
    BY <1>4, <1>1
  <2>2. w[n + 1] = Nearer(h, w[n])
    <3>1. n + 1 \in 1 .. N /\ (n + 1) - 1 = n
      BY <1>1
    <3>. QED  BY <3>1, <1>2
  <2>3. w[n] \subseteq w[n + 1] /\ w[n + 1] \subseteq DOMAIN h
    BY <2>1, <2>2 DEF Nearer, ClosedIn
  <2>4. ASSUME ClosedIn(h, w[n])  PROVE ClosedIn(h, w[n + 1])
    <3>1. w[n + 1] = w[n]
      BY <2>2, <2>3, <2>4 DEF Nearer, ClosedIn
    <3>. QED  BY <3>1, <2>4
  <2>5. ASSUME ~ClosedIn(h, w[n]), n <= Cardinality(w[n])
        PROVE  n + 1 <= Cardinality(w[n + 1])
    <3>1. PICK x : x \in w[n + 1] /\ x \notin w[n]
      BY <2>2, <2>5 DEF Nearer, ClosedIn
    <3>2. IsFiniteSet(w[n + 1]) /\ IsFiniteSet(w[n])
      BY <2>1, <2>3, FS_Subset
    <3>3. Cardinality(w[n] \cup {x}) = Cardinality(w[n]) + 1
      BY <3>1, <3>2, FS_AddElement
    <3>4. Cardinality(w[n] \cup {x}) <= Cardinality(w[n + 1])
      BY <3>1, <3>2, <2>3, FS_Subset
    <3>5. Cardinality(w[n]) \in Nat /\ Cardinality(w[n + 1]) \in Nat
      BY <3>2, FS_CardinalityType
    <3>. QED  BY <3>3, <3>4, <3>5, <2>5
  <2>. QED  BY <2>1, <2>3, <2>4, <2>5
<1>5. \A n \in Nat : n \in T
  <2>. HIDE DEF T
  <2>. QED  BY <1>3, <1>4, Counting
<1>6. /\ refs \subseteq w[N] /\ w[N] \subseteq DOMAIN h
      /\ ClosedIn(h, w[N]) \/ N <= Cardinality(w[N])
  BY <1>5, <1>1
<1>7. ASSUME N <= Cardinality(w[N])  PROVE ClosedIn(h, w[N])
  <2>1. Cardinality(w[N]) <= Cardinality(DOMAIN h) /\ Cardinality(w[N]) \in Nat
    BY <1>6, FS_Subset, FS_CardinalityType
  <2>2. w[N] = DOMAIN h
    BY <2>1, <1>1, <1>6, <1>7, FS_Subset
  <2>. QED  BY <2>2
<1>. QED  BY <1>2, <1>6, <1>7

-----------------------------------------------------------------------------
(* Typed heaps, and edits that stay in a region of the heap.               *)

ValueIn(h, m, v) ==
    /\ v \in Value
    /\ v.kind = "map"  => v.ref \in m
    /\ v.kind = "list" => v.ref \in DOMAIN h \ m /\ v.len <= Len(h[v.ref])

(* In h the objects m are maps, the others arrays.                         *)
HeapOK(h, m) ==
    /\ IsFiniteSet(DOMAIN h) /\ DOMAIN h \subseteq Nat /\ m \subseteq DOMAIN h
    /\ \A r \in m : IsMap(h[r])
    /\ \A r \in DOMAIN h \ m : h[r] \in Seq(Value)
    /\ \A r \in DOMAIN h : \A k \in DOMAIN h[r] : ValueIn(h, m, h[r][k])

(* Nothing is lost or becomes another kind of object, no array gets shorter. *)
Grows(h, m, h1, m1) ==
    /\ DOMAIN h \subseteq DOMAIN h1 /\ m \subseteq m1 /\ DOMAIN h \ m \subseteq DOMAIN h1 \ m1
    /\ \A r \in DOMAIN h \ m : Len(h[r]) <= Len(h1[r])

Region(h, R) == R \subseteq DOMAIN h /\ ClosedIn(h, R)

(* The region with the objects that are new.                               *)
Grown(h, h1, R) == R \cup (DOMAIN h1 \ DOMAIN h)

(* h1 changes the region R of h, from which nothing else is reached.       *)
Edits(h, m, h1, m1, R) ==
    /\ HeapOK(h1, m1) /\ Grows(h, m, h1, m1)
    /\ \A r \in DOMAIN h \ R : h1[r] = h[r]
    /\ ClosedIn(h1, Grown(h, h1, R))

SlotIn(h, m, R, v) == ValueIn(h, m, v) /\ (IsContainer(v) => v.ref \in R)

(* A new object f that is o: m1 are the maps with it.                      *)
MayBe(m, f, o, m1) == (m1 = m \cup {f} /\ IsMap(o)) \/ (m1 = m /\ o \in Seq(Value))

(* All of an object's values are in the region.                            *)
SlotsIn(h, m, R, o) == \A k \in DOMAIN o : SlotIn(h, m, R, o[k])

LEMMA ValueKept ==
  ASSUME NEW h, NEW m, NEW h1, NEW m1, HeapOK(h, m), HeapOK(h1, m1), Grows(h, m, h1, m1),
         NEW v, ValueIn(h, m, v)
  PROVE  ValueIn(h1, m1, v)
<1>1. v \in Value
  BY DEF ValueIn
<1>2. v.kind = "map" => v.ref \in m1
  BY DEF ValueIn, Grows
<1>3. ASSUME v.kind = "list"  PROVE v.ref \in DOMAIN h1 \ m1 /\ v.len <= Len(h1[v.ref])
  <2>1. v.ref \in DOMAIN h \ m /\ v.len <= Len(h[v.ref])
    BY <1>3 DEF ValueIn
  <2>2. v.ref \in DOMAIN h1 \ m1 /\ Len(h[v.ref]) <= Len(h1[v.ref])
    BY <2>1 DEF Grows
  <2>3. h[v.ref] \in Seq(Value) /\ h1[v.ref] \in Seq(Value)
    BY <2>1, <2>2 DEF HeapOK
  <2>4. Len(h[v.ref]) \in Nat /\ Len(h1[v.ref]) \in Nat /\ v.len \in Nat
    BY <2>3, <1>1 DEF Value
  <2>. QED  BY <2>1, <2>2, <2>4
<1>. QED  BY <1>1, <1>2, <1>3 DEF ValueIn

LEMMA GrowsOn ==
  ASSUME NEW h, NEW m, NEW h1, NEW m1, NEW h2, NEW m2,
         HeapOK(h, m), HeapOK(h1, m1), HeapOK(h2, m2), Grows(h, m, h1, m1), Grows(h1, m1, h2, m2)
  PROVE  Grows(h, m, h2, m2)
<1>1. ASSUME NEW r \in DOMAIN h \ m  PROVE Len(h[r]) <= Len(h2[r])
  <2>1. r \in DOMAIN h1 \ m1 /\ r \in DOMAIN h2 \ m2
    BY DEF Grows
  <2>2. Len(h[r]) <= Len(h1[r]) /\ Len(h1[r]) <= Len(h2[r])
    BY <2>1 DEF Grows
  <2>3. Len(h[r]) \in Nat /\ Len(h1[r]) \in Nat /\ Len(h2[r]) \in Nat
    BY <2>1 DEF HeapOK
  <2>. QED  BY <2>2, <2>3
<1>. QED  BY <1>1 DEF Grows

LEMMA GrownIsRegion ==
  ASSUME NEW h, NEW m, NEW h1, NEW m1, NEW R, Region(h, R), Edits(h, m, h1, m1, R)
  PROVE  Region(h1, Grown(h, h1, R))
BY DEF Region, Edits, Grown, Grows

LEMMA EditsOn ==
  ASSUME NEW h, NEW m, NEW h1, NEW m1, NEW h2, NEW m2, NEW R,
         HeapOK(h, m), Edits(h, m, h1, m1, R), Edits(h1, m1, h2, m2, Grown(h, h1, R))
  PROVE  /\ Edits(h, m, h2, m2, R)
         /\ Grown(h, h1, R) \subseteq Grown(h, h2, R)
<1>1. HeapOK(h1, m1) /\ HeapOK(h2, m2) /\ Grows(h, m, h1, m1) /\ Grows(h1, m1, h2, m2)
  BY DEF Edits
<1>2. Grows(h, m, h2, m2)
  BY <1>1, GrowsOn
<1>3. DOMAIN h \subseteq DOMAIN h1 /\ DOMAIN h1 \subseteq DOMAIN h2
  BY <1>1 DEF Grows
<1>4. Grown(h1, h2, Grown(h, h1, R)) = Grown(h, h2, R)
  BY <1>3 DEF Grown
<1>5. ASSUME NEW r \in DOMAIN h \ R  PROVE h2[r] = h[r]
  <2>1. r \in DOMAIN h1 \ Grown(h, h1, R)
    BY <1>3 DEF Grown
  <2>. QED  BY <2>1 DEF Edits
<1>6. ClosedIn(h2, Grown(h, h2, R))
  BY <1>4 DEF Edits
<1>7. Grown(h, h1, R) \subseteq Grown(h, h2, R)
  BY <1>3 DEF Grown
<1>. QED  BY <1>1, <1>2, <1>5, <1>6, <1>7 DEF Edits

LEMMA NoEditAtAll ==
  ASSUME NEW h, NEW m, NEW R, HeapOK(h, m), Region(h, R)
  PROVE  Edits(h, m, h, m, R) /\ Grown(h, h, R) = R
<1>1. Grown(h, h, R) = R
  BY DEF Grown
<1>2. Grows(h, m, h, m)
  <2>1. \A r \in DOMAIN h \ m : Len(h[r]) \in Nat
    BY DEF HeapOK
  <2>. QED  BY <2>1 DEF Grows
<1>. QED  BY <1>1, <1>2 DEF Edits, Region

(* A value that is what v may be in a heap that differs in one object.     *)
LEMMA SlotsAreHeld ==
  ASSUME NEW h, NEW m, NEW R, HeapOK(h, m), Region(h, R), NEW r \in R, NEW k \in DOMAIN h[r]
  PROVE  SlotIn(h, m, R, h[r][k])
<1>1. r \in DOMAIN h
  BY DEF Region
<1>2. ValueIn(h, m, h[r][k])
  BY <1>1 DEF HeapOK
<1>3. IsContainer(h[r][k]) => h[r][k].ref \in Held(h, r)
  BY DEF Held
<1>. QED  BY <1>2, <1>3 DEF SlotIn, Region, ClosedIn

LEMMA HeldIs ==
  ASSUME NEW h, NEW r, NEW R, \A k \in DOMAIN h[r] : IsContainer(h[r][k]) => h[r][k].ref \in R
  PROVE  Held(h, r) \subseteq R
BY DEF Held

LEMMA ReplaceEdits ==
  ASSUME NEW h, NEW m, NEW R, HeapOK(h, m), Region(h, R), NEW r \in R, NEW o,
         r \in m => IsMap(o),
         r \notin m => o \in Seq(Value) /\ Len(h[r]) <= Len(o),
         \A k \in DOMAIN o : SlotIn(h, m, R, o[k]),
         NEW h1, DOMAIN h1 = DOMAIN h, h1[r] = o, \A s \in DOMAIN h : s # r => h1[s] = h[s]
  PROVE  Edits(h, m, h1, m, R) /\ Grown(h, h1, R) = R /\ Region(h1, R)
<1>1. /\ r \in DOMAIN h /\ DOMAIN h1 = DOMAIN h /\ h1[r] = o
      /\ \A s \in DOMAIN h : s # r => h1[s] = h[s]
  BY DEF Region
<1>2. Grows(h, m, h1, m)
  <2>1. \A s \in DOMAIN h \ m : Len(h[s]) \in Nat
    BY DEF HeapOK
  <2>. QED  BY <1>1, <2>1 DEF Grows
<1>3. ASSUME NEW v, ValueIn(h, m, v)  PROVE ValueIn(h1, m, v)
  <2>. SUFFICES ASSUME v.kind = "list"  PROVE v.len <= Len(h1[v.ref])
    BY <1>1, <1>3 DEF ValueIn
  <2>1. v.ref \in DOMAIN h \ m /\ v.len <= Len(h[v.ref]) /\ v.len \in Nat
    BY <1>3 DEF ValueIn, Value
  <2>2. h[v.ref] \in Seq(Value)
    BY <2>1 DEF HeapOK
  <2>3. Len(h[v.ref]) \in Nat
    BY <2>2
  <2>4. CASE v.ref = r
    <3>1. Len(o) \in Nat
      BY <2>1, <2>4
    <3>. QED  BY <2>1, <2>3, <2>4, <1>1, <3>1
  <2>5. CASE v.ref # r
    BY <2>1, <2>5, <1>1
  <2>. QED  BY <2>4, <2>5
<1>4. HeapOK(h1, m)
  <2>1. IsFiniteSet(DOMAIN h1) /\ DOMAIN h1 \subseteq Nat /\ m \subseteq DOMAIN h1
    BY <1>1 DEF HeapOK
  <2>2. \A s \in m : IsMap(h1[s])
    BY <1>1 DEF HeapOK
  <2>3. \A s \in DOMAIN h1 \ m : h1[s] \in Seq(Value)
    BY <1>1 DEF HeapOK
  <2>4. ASSUME NEW s \in DOMAIN h1, NEW k \in DOMAIN h1[s]  PROVE ValueIn(h1, m, h1[s][k])
    <3>1. ValueIn(h, m, h1[s][k])
      <4>1. CASE s = r
        BY <4>1, <1>1, <2>4 DEF SlotIn
      <4>2. CASE s # r
        BY <4>2, <1>1, <2>4 DEF HeapOK
      <4>. QED  BY <4>1, <4>2
    <3>. QED  BY <3>1, <1>3
  <2>. QED  BY <2>1, <2>2, <2>3, <2>4 DEF HeapOK
<1>5. Grown(h, h1, R) = R
  BY <1>1 DEF Grown
<1>6. ClosedIn(h1, R)
  <2>. SUFFICES ASSUME NEW s \in R  PROVE Held(h1, s) \subseteq R
    BY DEF ClosedIn
  <2>1. CASE s = r
    <3>1. \A k \in DOMAIN h1[s] : IsContainer(h1[s][k]) => h1[s][k].ref \in R
      BY <1>1, <2>1 DEF SlotIn
    <3>. QED  BY <3>1, HeldIs
  <2>2. CASE s # r
    <3>1. h1[s] = h[s]
      BY <1>1, <2>2 DEF Region
    <3>2. Held(h1, s) = Held(h, s)
      BY <3>1 DEF Held
    <3>. QED  BY <3>2 DEF Region, ClosedIn
  <2>. QED  BY <2>1, <2>2
<1>. QED  BY <1>1, <1>2, <1>4, <1>5, <1>6 DEF Edits, Region

LEMMA AllocateEdits ==
  ASSUME NEW h, NEW m, NEW R, HeapOK(h, m), Region(h, R), NEW f \in Nat, f \notin DOMAIN h,
         NEW o, NEW m1, MayBe(m, f, o, m1),
         SlotsIn(h, m, R, o),
         NEW h1, h1 = With(h, f, o)
  PROVE  Edits(h, m, h1, m1, R) /\ Grown(h, h1, R) = R \cup {f} /\ Region(h1, R \cup {f})
<1>1. /\ DOMAIN h1 = DOMAIN h \cup {f} /\ h1[f] = o
      /\ \A s \in DOMAIN h : h1[s] = h[s]
  BY DEF With
<1>. USE DEF MayBe
<1>2. Grows(h, m, h1, m1)
  <2>1. \A s \in DOMAIN h \ m : Len(h[s]) \in Nat
    BY DEF HeapOK
  <2>. QED  BY <1>1, <2>1 DEF Grows, HeapOK
<1>3. ASSUME NEW v, ValueIn(h, m, v)  PROVE ValueIn(h1, m1, v)
  BY <1>1, <1>2, <1>3 DEF ValueIn, Grows
<1>4. HeapOK(h1, m1)
  <2>1. IsFiniteSet(DOMAIN h1) /\ DOMAIN h1 \subseteq Nat /\ m1 \subseteq DOMAIN h1
    BY <1>1, FS_AddElement DEF HeapOK
  <2>2. \A s \in m1 : IsMap(h1[s])
    BY <1>1 DEF HeapOK
  <2>3. \A s \in DOMAIN h1 \ m1 : h1[s] \in Seq(Value)
    BY <1>1 DEF HeapOK
  <2>4. ASSUME NEW s \in DOMAIN h1, NEW k \in DOMAIN h1[s]  PROVE ValueIn(h1, m1, h1[s][k])
    <3>1. ValueIn(h, m, h1[s][k])
      <4>1. CASE s = f
        BY <4>1, <1>1, <2>4 DEF SlotIn, SlotsIn
      <4>2. CASE s # f
        BY <4>2, <1>1, <2>4 DEF HeapOK
      <4>. QED  BY <4>1, <4>2
    <3>. QED  BY <3>1, <1>3
  <2>. QED  BY <2>1, <2>2, <2>3, <2>4 DEF HeapOK
<1>5. Grown(h, h1, R) = R \cup {f}
  BY <1>1 DEF Grown
<1>6. ClosedIn(h1, R \cup {f})
  <2>. SUFFICES ASSUME NEW s \in R \cup {f}  PROVE Held(h1, s) \subseteq R
    BY DEF ClosedIn
  <2>1. CASE s = f
    <3>1. \A k \in DOMAIN h1[s] : IsContainer(h1[s][k]) => h1[s][k].ref \in R
      BY <1>1, <2>1 DEF SlotIn, SlotsIn
    <3>. QED  BY <3>1, HeldIs
  <2>2. CASE s # f
    <3>1. h1[s] = h[s]
      BY <1>1, <2>2 DEF Region
    <3>2. Held(h1, s) = Held(h, s)
      BY <3>1 DEF Held
    <3>. QED  BY <2>2, <3>2 DEF Region, ClosedIn
  <2>. QED  BY <2>1, <2>2
<1>. QED  BY <1>1, <1>2, <1>4, <1>5, <1>6 DEF Edits, Region

-----------------------------------------------------------------------------
(* Writing a path: what the operators of Set do to a typed heap.           *)

LEMMA PutEdits ==
  ASSUME NEW h, NEW m, NEW R, HeapOK(h, m), Region(h, R), NEW r \in R, r \in m,
         NEW key \in Keys, NEW v, SlotIn(h, m, R, v),
         NEW h1, h1 = Put(h, r, key, v)
  PROVE  /\ Edits(h, m, h1, m, R) /\ Grown(h, h1, R) = R /\ Region(h1, R)
         /\ DOMAIN h1 = DOMAIN h /\ h1[r] = With(h[r], key, v)
         /\ \A s \in DOMAIN h : s # r => h1[s] = h[s]
<1>. DEFINE o == With(h[r], key, v)
<1>1. r \in DOMAIN h /\ IsMap(h[r])
  BY DEF Region, HeapOK
<1>2. h1 = [h EXCEPT ![r] = o]
  BY DEF Put
<1>3. IsMap(o)
  <2>1. v \in Value
    BY DEF SlotIn, ValueIn
  <2>. QED  BY <1>1, <2>1 DEF IsMap, With
<1>4. \A k \in DOMAIN o : SlotIn(h, m, R, o[k])
  <2>1. \A k \in DOMAIN h[r] : SlotIn(h, m, R, h[r][k])
    BY SlotsAreHeld
  <2>. QED  BY <2>1 DEF With
<1>5. /\ DOMAIN h1 = DOMAIN h /\ h1[r] = o
      /\ \A s \in DOMAIN h : s # r => h1[s] = h[s]
  BY <1>1, <1>2
<1>. HIDE DEF o
<1>6. Edits(h, m, h1, m, R) /\ Grown(h, h1, R) = R /\ Region(h1, R)
  BY <1>3, <1>4, <1>5, ReplaceEdits
<1>. QED  BY <1>5, <1>6 DEF o

LEMMA EmptyIsMap == IsMap(Empty) /\ DOMAIN Empty = {}
BY DEF IsMap, Empty

LEMMA EmptySlots ==
  ASSUME NEW h, NEW m, NEW R
  PROVE  SlotsIn(h, m, R, Empty) /\ SlotsIn(h, m, R, <<>>)
BY EmptyIsMap DEF SlotsIn

(* The map to write into: part of the region, or new.                      *)
Arrives(h, m, R, to) ==
    Edits(h, m, to.heap, m \cup {to.at}, R) /\ to.at \in Grown(h, to.heap, R)

(* The same, when others were made on the way.                             *)
Arrived(h, m, R, to) ==
    \E m1 : /\ Edits(h, m, to.heap, m1, R)
            /\ to.at \in m1 /\ to.at \in Grown(h, to.heap, R)

(* A map that is there is found, and nothing changes; or a new one is.     *)
Found(h, to) ==
    to.heap = h \/ (to.at \notin DOMAIN h /\ to.at \in DOMAIN to.heap /\ to.heap[to.at] = Empty)

(* v is the map at r.                                                      *)
IsMapAt(v, r) == v.kind = "map" /\ v.ref = r

LEMMA NewMapArrives ==
  ASSUME NEW h, NEW m, NEW R, HeapOK(h, m), Region(h, R), NEW r \in R, r \in m,
         NEW key \in Keys, NEW to, to = NewMap(h, r, key)
  PROVE  /\ Arrives(h, m, R, to) /\ Found(h, to)
         /\ IsMapAt(GetFromMap(to.heap, MapAt(r), key), to.at)
<1>. DEFINE f == Fresh(h)
            g == With(h, f, Empty)
            h1 == Put(g, r, key, MapAt(f))
<1>1. f \in Nat /\ f \notin DOMAIN h
  BY FreshIsNew DEF HeapOK
<1>2. to = [heap |-> h1, at |-> f, ok |-> TRUE]
  BY DEF NewMap, New
<1>. HIDE DEF f
<1>3. /\ Edits(h, m, g, m \cup {f}, R) /\ Grown(h, g, R) = R \cup {f} /\ Region(g, R \cup {f})
  BY <1>1, EmptyIsMap, EmptySlots, AllocateEdits DEF MayBe
<1>4. g[f] = Empty /\ f \in DOMAIN g /\ r \in DOMAIN h /\ r \in DOMAIN g
  BY DEF With, Region
<1>. HIDE DEF g
<1>5. HeapOK(g, m \cup {f})
  BY <1>3 DEF Edits
<1>6. SlotIn(g, m \cup {f}, R \cup {f}, MapAt(f))
  BY <1>1 DEF SlotIn, ValueIn, MapAt, Value
<1>7. /\ Edits(g, m \cup {f}, h1, m \cup {f}, R \cup {f}) /\ Grown(g, h1, R \cup {f}) = R \cup {f}
      /\ DOMAIN h1 = DOMAIN g /\ h1[r] = With(g[r], key, MapAt(f))
      /\ \A s \in DOMAIN g : s # r => h1[s] = g[s]
  BY <1>5, <1>3, <1>6, PutEdits
<1>. HIDE DEF h1
<1>8. Edits(h, m, h1, m \cup {f}, R) /\ Grown(h, g, R) \subseteq Grown(h, h1, R)
  BY <1>3, <1>7, EditsOn
<1>9. Arrives(h, m, R, to)
  BY <1>2, <1>3, <1>8 DEF Arrives
<1>10. Found(h, to)
  BY <1>1, <1>2, <1>4, <1>7 DEF Found
<1>11. IsMapAt(GetFromMap(to.heap, MapAt(r), key), to.at)
  BY <1>2, <1>7 DEF GetFromMap, MapAt, With, IsMapAt
<1>. QED  BY <1>9, <1>10, <1>11

LEMMA FromMap ==
  ASSUME NEW h, NEW r, NEW key
  PROVE  GetFromMap(h, MapAt(r), key) = IF key \in DOMAIN h[r] THEN h[r][key] ELSE Missing
BY DEF GetFromMap, MapAt

LEMMA EnsureMapArrives ==
  ASSUME NEW h, NEW m, NEW R, HeapOK(h, m), Region(h, R), NEW r \in R, r \in m,
         NEW key \in Keys, NEW to, to = EnsureMapAtPath(h, r, key)
  PROVE  /\ Arrives(h, m, R, to) /\ Found(h, to) /\ to.ok = TRUE
         /\ IsMapAt(GetFromMap(to.heap, MapAt(r), key), to.at)
<1>. DEFINE next == GetFromMap(h, MapAt(r), key)
<1>1. CASE next.kind = "map"
  <2>1. to = [heap |-> h, at |-> next.ref, ok |-> TRUE]
    BY <1>1 DEF EnsureMapAtPath
  <2>2. key \in DOMAIN h[r] /\ next = h[r][key]
    BY <1>1, FromMap DEF Missing
  <2>3. SlotIn(h, m, R, next)
    BY <2>2, SlotsAreHeld
  <2>4. next.ref \in m /\ next.ref \in R
    BY <2>3, <1>1 DEF SlotIn, ValueIn, IsContainer
  <2>5. Edits(h, m, h, m, R) /\ Grown(h, h, R) = R
    BY NoEditAtAll
  <2>6. m \cup {next.ref} = m
    BY <2>4
  <2>. QED  BY <1>1, <2>1, <2>4, <2>5, <2>6 DEF Arrives, Found, IsMapAt
<1>2. CASE next.kind # "map"
  <2>1. to = NewMap(h, r, key)
    BY <1>2 DEF EnsureMapAtPath
  <2>2. to.ok = TRUE
    BY <2>1 DEF NewMap
  <2>. QED  BY <2>1, <2>2, NewMapArrives
<1>. QED  BY <1>1, <1>2

(* What append makes: the elements there are, and nils.                    *)
Padded(old, n, c, p) ==
    /\ p \in Seq(Value) /\ Len(p) = n + c
    /\ \A i \in 1 .. n + c : p[i] = IF i <= n THEN old[i] ELSE Null

LEMMA PaddedIs ==
  ASSUME NEW old \in Seq(Value), NEW n \in Nat, n <= Len(old), NEW c \in Nat,
         NEW z, z = [i \in 1 .. c |-> Null], NEW p, p = SubSeq(old, 1, n) \o z
  PROVE  Padded(old, n, c, p)
<1>1. Null \in Value
  BY DEF Null, Value
<1>. DEFINE s == SubSeq(old, 1, n)
<1>2. s \in Seq(Value) /\ Len(s) = n /\ \A i \in 1 .. n : s[i] = old[i]
  OBVIOUS
<1>3. z \in Seq(Value) /\ Len(z) = c /\ \A i \in 1 .. c : z[i] = Null
  BY <1>1
<1>4. p = s \o z
  OBVIOUS
<1>. HIDE DEF s
<1>5. /\ p \in Seq(Value) /\ Len(p) = n + c
      /\ \A i \in 1 .. Len(p) : p[i] = IF i <= Len(s) THEN s[i] ELSE z[i - Len(s)]
  BY <1>2, <1>3, <1>4, SMT
<1>6. ASSUME NEW i \in 1 .. n + c  PROVE p[i] = IF i <= n THEN old[i] ELSE Null
  <2>1. CASE i <= n
    BY <2>1, <1>2, <1>5
  <2>2. CASE ~(i <= n)
    <3>1. i - n \in 1 .. c
      BY <2>2, SMT
    <3>. QED  BY <2>2, <3>1, <1>3, <1>5
  <2>. QED  BY <2>1, <2>2
<1>. QED  BY <1>5, <1>6 DEF Padded

(* The same in the array there is, which keeps the elements beyond.        *)
InRoom(old, p, q) ==
    /\ q \in Seq(Value) /\ Len(p) <= Len(q) /\ Len(old) <= Len(q)
    /\ \A i \in 1 .. Len(q) : IF i <= Len(p) THEN q[i] = p[i]
                              ELSE i \in 1 .. Len(old) /\ q[i] = old[i]

LEMMA InRoomIs ==
  ASSUME NEW old \in Seq(Value), NEW p \in Seq(Value),
         NEW q, q = p \o SubSeq(old, Len(p) + 1, Len(old))
  PROVE  InRoom(old, p, q)
<1>. DEFINE s == SubSeq(old, Len(p) + 1, Len(old))
<1>1. /\ s \in Seq(Value) /\ Len(p) \in Nat /\ Len(old) \in Nat
      /\ Len(s) = IF Len(p) < Len(old) THEN Len(old) - Len(p) ELSE 0
      /\ \A i \in 1 .. Len(s) : s[i] = old[Len(p) + i]
  BY SMT
<1>. HIDE DEF s
<1>2. /\ q \in Seq(Value) /\ Len(q) = Len(p) + Len(s)
      /\ \A i \in 1 .. Len(q) : q[i] = IF i <= Len(p) THEN p[i] ELSE s[i - Len(p)]
  <2>1. q = p \o s
    BY DEF s
  <2>. QED  BY <1>1, <2>1, SMT
<1>3. Len(p) <= Len(q) /\ Len(old) <= Len(q)
  BY <1>1, <1>2, SMT
<1>4. ASSUME NEW i \in 1 .. Len(q)
      PROVE  IF i <= Len(p) THEN q[i] = p[i] ELSE i \in 1 .. Len(old) /\ q[i] = old[i]
  <2>1. CASE i <= Len(p)
    BY <2>1, <1>1, <1>2, SMT
  <2>2. CASE i > Len(p)
    <3>1. i - Len(p) \in 1 .. Len(s) /\ q[i] = s[i - Len(p)]
      BY <2>2, <1>1, <1>2, SMT
    <3>2. Len(p) + (i - Len(p)) = i /\ i \in 1 .. Len(old)
      BY <3>1, <1>1, SMT
    <3>3. s[i - Len(p)] = old[Len(p) + (i - Len(p))]
      BY <3>1, <1>1
    <3>. QED  BY <2>2, <3>1, <3>2, <3>3, <1>1
  <2>. QED  BY <2>1, <2>2, <1>1, SMT
<1>. QED  BY <1>2, <1>3, <1>4 DEF InRoom

LEMMA NullIsAnywhere == ASSUME NEW h, NEW m, NEW R  PROVE SlotIn(h, m, R, Null)
BY DEF SlotIn, ValueIn, Null, Value, IsContainer

(* r has a list under the key, which is as long as n.                      *)
HasList(h, r, key, n) == key \in DOMAIN h[r] /\ h[r][key].kind = "list" /\ n <= h[r][key].len

LEMMA ListIs ==
  ASSUME NEW h, NEW m, NEW R, HeapOK(h, m), Region(h, R), NEW r \in R, NEW key,
         HasList(h, r, key, 0), NEW arr, arr = h[r][key]
  PROVE  /\ arr \in Value /\ arr.ref \in R /\ arr.ref \in DOMAIN h \ m /\ arr.len \in Nat
         /\ h[arr.ref] \in Seq(Value) /\ arr.len <= Len(h[arr.ref]) /\ Len(h[arr.ref]) \in Nat
<1>1. SlotIn(h, m, R, arr)
  BY SlotsAreHeld DEF HasList
<1>2. arr \in Value /\ arr.ref \in R /\ arr.ref \in DOMAIN h \ m /\ arr.len <= Len(h[arr.ref])
  BY <1>1 DEF SlotIn, ValueIn, HasList, IsContainer
<1>3. h[arr.ref] \in Seq(Value)
  BY <1>2 DEF HeapOK
<1>. QED  BY <1>2, <1>3 DEF Value

LEMMA EnsureArrayEdits ==
  ASSUME NEW h, NEW m, NEW R, HeapOK(h, m), Region(h, R), NEW r \in R, r \in m,
         NEW key \in Keys, NEW g, g = EnsureArrayAtPath(h, r, key)
  PROVE  /\ Edits(h, m, g, m, R)
         /\ HasList(g, r, key, 0)
         /\ g = h \/ g[r][key].len = 0
<1>. DEFINE next == GetFromMap(h, MapAt(r), key)
<1>1. CASE next.kind = "list"
  <2>1. g = h
    BY <1>1 DEF EnsureArrayAtPath
  <2>2. key \in DOMAIN h[r] /\ h[r][key].kind = "list"
    BY <1>1, FromMap DEF Missing
  <2>3. ValueIn(h, m, h[r][key])
    BY <2>2 DEF HeapOK, Region
  <2>. QED  BY <2>1, <2>2, <2>3, NoEditAtAll DEF HasList, ValueIn, Value
<1>2. CASE next.kind # "list"
  <2>. DEFINE f == Fresh(h)
              h0 == With(h, f, <<>>)
  <2>1. f \in Nat /\ f \notin DOMAIN h
    BY FreshIsNew DEF HeapOK
  <2>2. g = Put(h0, r, key, SliceAt(f, 0))
    BY <1>2 DEF EnsureArrayAtPath, New
  <2>. HIDE DEF f
  <2>3. <<>> \in Seq(Value) /\ SlotsIn(h, m, R, <<>>)
    BY EmptySlots
  <2>4. Edits(h, m, h0, m, R) /\ Grown(h, h0, R) = R \cup {f} /\ Region(h0, R \cup {f})
    BY <2>1, <2>3, AllocateEdits DEF MayBe
  <2>5. h0[f] = <<>> /\ f \in DOMAIN h0
    BY DEF With
  <2>. HIDE DEF h0
  <2>6. HeapOK(h0, m) /\ f \notin m
    BY <2>1, <2>4 DEF Edits, HeapOK
  <2>7. SlotIn(h0, m, R \cup {f}, SliceAt(f, 0))
    <3>1. Len(h0[f]) = 0
      BY <2>5
    <3>. QED  BY <3>1, <2>1, <2>5, <2>6 DEF SlotIn, ValueIn, SliceAt, Value
  <2>8. Edits(h0, m, g, m, R \cup {f}) /\ g[r] = With(h0[r], key, SliceAt(f, 0))
    BY <2>2, <2>4, <2>6, <2>7, PutEdits
  <2>9. Edits(h, m, g, m, R)
    BY <2>4, <2>8, EditsOn
  <2>. QED  BY <2>8, <2>9 DEF HasList, With, SliceAt
<1>. QED  BY <1>1, <1>2

(* The first n elements of an array a, and nils up to idx; and elements    *)
(* that are in their place.                                                *)
Appended(h, a, idx, p) ==
    /\ p \in Seq(Value) /\ idx + 1 <= Len(p) /\ p[idx + 1] = Null
    /\ \A i \in 1 .. Len(p) : p[i] = Null \/ (i \in 1 .. Len(h[a]) /\ p[i] = h[a][i])

(* Nothing is appended, or in the array there is, or in another one.       *)
Extension(h, r, key, idx, g) ==
    \/ g = h /\ idx < h[r][key].len
    \/ \E p : /\ Appended(h, h[r][key].ref, idx, p) /\ Len(h[h[r][key].ref]) <= Len(p)
              /\ g = Put([h EXCEPT ![h[r][key].ref] = p], r, key, SliceAt(h[r][key].ref, idx + 1))
    \/ \E p : /\ Appended(h, h[r][key].ref, idx, p)
              /\ g = Put(With(h, Fresh(h), p), r, key, SliceAt(Fresh(h), idx + 1))

LEMMA ExtendedIs ==
  ASSUME NEW h, NEW m, NEW R, HeapOK(h, m), Region(h, R), NEW r \in R, r \in m,
         NEW key \in Keys, HasList(h, r, key, 0), NEW idx \in Nat, NEW grow,
         NEW g, g = Extended(h, r, key, idx, grow)
  PROVE  Extension(h, r, key, idx, g)
<1>. DEFINE arr == h[r][key]
            a   == arr.ref
            old == h[a]
            padded == SubSeq(old, 1, arr.len) \o [i \in 1 .. idx + 1 - arr.len |-> Null]
            inRoom == padded \o SubSeq(old, idx + 2, Len(old))
<1>1. /\ arr \in Value /\ a \in R /\ a \in DOMAIN h \ m /\ arr.len \in Nat
      /\ old \in Seq(Value) /\ arr.len <= Len(old) /\ Len(old) \in Nat
  BY ListIs
<1>2. CASE idx < arr.len
  BY <1>2 DEF Extended, Extension
<1>3. CASE ~(idx < arr.len)
  <2>1. /\ padded \in Seq(Value) /\ Len(padded) = idx + 1
        /\ \A i \in 1 .. idx + 1 : padded[i] = IF i <= arr.len THEN old[i] ELSE Null
    <3>. DEFINE n == arr.len
                c == idx + 1 - n
                z == [i \in 1 .. c |-> Null]
    <3>1. c \in Nat /\ n \in Nat /\ n + c = idx + 1
      BY <1>1, <1>3
    <3>2. /\ padded \in Seq(Value) /\ Len(padded) = n + c
          /\ \A i \in 1 .. n + c : padded[i] = IF i <= n THEN old[i] ELSE Null
      <4>1. padded = SubSeq(old, 1, n) \o z /\ n <= Len(old)
        BY <1>1
      <4>2. z = [i \in 1 .. c |-> Null]
        OBVIOUS
      <4>. HIDE DEF padded, arr, old, n, c, z
      <4>3. old \in Seq(Value)
        BY <1>1
      <4>4. Padded(old, n, c, padded)
        BY <4>1, <4>2, <4>3, <3>1, PaddedIs
      <4>. QED  BY <4>4 DEF Padded
    <3>. QED  BY <3>1, <3>2
  <2>2. /\ inRoom \in Seq(Value) /\ idx + 1 <= Len(inRoom) /\ Len(old) <= Len(inRoom)
        /\ \A i \in 1 .. Len(inRoom) : IF i <= idx + 1 THEN inRoom[i] = padded[i]
                                       ELSE i \in 1 .. Len(old) /\ inRoom[i] = old[i]
    <3>. HIDE DEF padded
    <3>0. Len(padded) + 1 = idx + 2
      BY <2>1
    <3>1. inRoom = padded \o SubSeq(old, Len(padded) + 1, Len(old))
      BY <3>0, Zenon
    <3>. HIDE DEF inRoom, arr, old
    <3>2. InRoom(old, padded, inRoom)
      <4>1. old \in Seq(Value) /\ padded \in Seq(Value)
        BY <1>1, <2>1
      <4>. QED  BY <3>1, <4>1, InRoomIs
    <3>3. Len(padded) = idx + 1
      BY <2>1
    <3>. QED  BY <3>2, <3>3 DEF InRoom
  <2>3. /\ idx < Len(old) \/ grow =>
              g = Put([h EXCEPT ![a] = inRoom], r, key, SliceAt(a, idx + 1))
        /\ ~(idx < Len(old) \/ grow) =>
              g = Put(With(h, Fresh(h), padded), r, key, SliceAt(Fresh(h), idx + 1))
    <3>1. r # a /\ r \in DOMAIN h
      BY <1>1 DEF Region
    <3>2. idx < Len(old) \/ grow =>
            g = [Put(h, r, key, SliceAt(a, idx + 1)) EXCEPT ![a] = inRoom]
      BY <1>3 DEF Extended
    <3>3. [Put(h, r, key, SliceAt(a, idx + 1)) EXCEPT ![a] = inRoom]
            = Put([h EXCEPT ![a] = inRoom], r, key, SliceAt(a, idx + 1))
      <4>. HIDE DEF inRoom, a
      <4>. QED  BY <3>1, <1>1 DEF Put
    <3>4. ~(idx < Len(old) \/ grow) =>
            g = Put(With(h, Fresh(h), padded), r, key, SliceAt(Fresh(h), idx + 1))
      BY <1>3 DEF Extended, New
    <3>. QED  BY <3>2, <3>3, <3>4, Zenon
  <2>. HIDE DEF padded, inRoom
  <2>4. \A i \in 1 .. idx + 1 : padded[i] = Null \/ (i \in 1 .. Len(old) /\ padded[i] = old[i])
    BY <1>1, <2>1
  <2>5. padded[idx + 1] = Null
    BY <2>1, <1>1, <1>3
  <2>6. Appended(h, a, idx, padded)
    BY <2>1, <2>4, <2>5 DEF Appended
  <2>7. Appended(h, a, idx, inRoom)
    BY <2>2, <2>4, <2>5 DEF Appended
  <2>8. CASE idx < Len(old) \/ grow
    BY <2>2, <2>3, <2>7, <2>8, Zenon DEF Extension
  <2>9. CASE ~(idx < Len(old) \/ grow)
    BY <2>3, <2>6, <2>9, Zenon DEF Extension
  <2>. QED  BY <2>8, <2>9
<1>. QED  BY <1>2, <1>3

(* The array under a key, after append.                                    *)
LEMMA ExtendedEdits ==
  ASSUME NEW h, NEW m, NEW R, HeapOK(h, m), Region(h, R), NEW r \in R, r \in m,
         NEW key \in Keys, HasList(h, r, key, 0), NEW idx \in Nat, NEW grow,
         NEW g, g = Extended(h, r, key, idx, grow)
  PROVE  /\ Edits(h, m, g, m, R)
         /\ HasList(g, r, key, idx + 1)
         /\ (g = h /\ idx < h[r][key].len) \/ g[g[r][key].ref][idx + 1] = Null
<1>. DEFINE arr == h[r][key]
            a   == arr.ref
            old == h[a]
<1>1. /\ arr \in Value /\ a \in R /\ a \in DOMAIN h \ m /\ arr.len \in Nat
      /\ old \in Seq(Value) /\ arr.len <= Len(old) /\ Len(old) \in Nat
  BY ListIs
<1>2. Extension(h, r, key, idx, g)
  BY ExtendedIs
<1>3. ASSUME NEW p, Appended(h, a, idx, p)
      PROVE  p \in Seq(Value) /\ Len(p) \in Nat /\ SlotsIn(h, m, R, p)
  <2>1. \A i \in 1 .. Len(old) : SlotIn(h, m, R, old[i])
    BY <1>1, SlotsAreHeld
  <2>2. p \in Seq(Value) /\ \A i \in 1 .. Len(p) : p[i] = Null \/ (i \in 1 .. Len(old) /\ p[i] = old[i])
    BY <1>3 DEF Appended
  <2>3. \A i \in 1 .. Len(p) : SlotIn(h, m, R, p[i])
    BY <2>1, <2>2, NullIsAnywhere
  <2>. QED  BY <2>2, <2>3 DEF SlotsIn
<1>4. CASE g = h /\ idx < arr.len
  BY <1>1, <1>4, NoEditAtAll DEF HasList
<1>5. ASSUME NEW p, Appended(h, a, idx, p), Len(old) <= Len(p),
             g = Put([h EXCEPT ![a] = p], r, key, SliceAt(a, idx + 1))
      PROVE  Edits(h, m, g, m, R) /\ HasList(g, r, key, idx + 1) /\ g[g[r][key].ref][idx + 1] = Null
  <2>. DEFINE h0 == [h EXCEPT ![a] = p]
  <2>0. p \in Seq(Value) /\ SlotsIn(h, m, R, p) /\ idx + 1 <= Len(p) /\ p[idx + 1] = Null
    BY <1>3, <1>5 DEF Appended
  <2>1. /\ Edits(h, m, h0, m, R) /\ Grown(h, h0, R) = R /\ Region(h0, R)
    <3>1. DOMAIN h0 = DOMAIN h /\ h0[a] = p /\ \A s \in DOMAIN h : s # a => h0[s] = h[s]
      BY <1>1
    <3>2. \A k \in DOMAIN p : SlotIn(h, m, R, p[k])
      BY <2>0 DEF SlotsIn
    <3>. HIDE DEF h0
    <3>. QED  BY <3>1, <3>2, <1>1, <1>5, <2>0, ReplaceEdits
  <2>2. g = Put(h0, r, key, SliceAt(a, idx + 1))
    BY <1>5
  <2>3. a \in DOMAIN h0 \ m /\ h0[a] = p
    BY <1>1
  <2>. HIDE DEF h0
  <2>4. HeapOK(h0, m)
    BY <2>1 DEF Edits
  <2>5. SlotIn(h0, m, R, SliceAt(a, idx + 1))
    BY <1>1, <2>0, <2>3 DEF SlotIn, ValueIn, SliceAt, Value
  <2>6. /\ Edits(h0, m, g, m, R) /\ g[r] = With(h0[r], key, SliceAt(a, idx + 1))
        /\ \A s \in DOMAIN h0 : s # r => g[s] = h0[s]
    BY <2>1, <2>2, <2>4, <2>5, PutEdits
  <2>7. Edits(h, m, g, m, R)
    BY <2>1, <2>6, EditsOn
  <2>8. g[r][key] = SliceAt(a, idx + 1) /\ key \in DOMAIN g[r]
    BY <2>6 DEF With
  <2>9. g[a] = h0[a]
    BY <2>3, <2>6, <1>1
  <2>. QED  BY <2>0, <2>3, <2>7, <2>8, <2>9 DEF HasList, SliceAt
<1>6. ASSUME NEW p, Appended(h, a, idx, p),
             g = Put(With(h, Fresh(h), p), r, key, SliceAt(Fresh(h), idx + 1))
      PROVE  Edits(h, m, g, m, R) /\ HasList(g, r, key, idx + 1) /\ g[g[r][key].ref][idx + 1] = Null
  <2>. DEFINE f == Fresh(h)
              h0 == With(h, f, p)
  <2>0. p \in Seq(Value) /\ SlotsIn(h, m, R, p) /\ idx + 1 <= Len(p) /\ p[idx + 1] = Null
    BY <1>3, <1>6 DEF Appended
  <2>1. f \in Nat /\ f \notin DOMAIN h
    BY FreshIsNew DEF HeapOK
  <2>2. g = Put(h0, r, key, SliceAt(f, idx + 1))
    BY <1>6
  <2>. HIDE DEF f
  <2>3. MayBe(m, f, p, m)
    BY <2>0 DEF MayBe
  <2>4. Edits(h, m, h0, m, R) /\ Grown(h, h0, R) = R \cup {f} /\ Region(h0, R \cup {f})
    BY <2>1, <2>3, <2>0, AllocateEdits
  <2>5. h0[f] = p /\ f \in DOMAIN h0
    BY DEF With
  <2>. HIDE DEF h0
  <2>6. HeapOK(h0, m) /\ f \notin m
    BY <2>1, <2>4 DEF Edits, HeapOK
  <2>7. SlotIn(h0, m, R \cup {f}, SliceAt(f, idx + 1))
    BY <2>0, <2>1, <2>5, <2>6 DEF SlotIn, ValueIn, SliceAt, Value
  <2>8. /\ Edits(h0, m, g, m, R \cup {f}) /\ g[r] = With(h0[r], key, SliceAt(f, idx + 1))
        /\ \A s \in DOMAIN h0 : s # r => g[s] = h0[s]
    BY <2>2, <2>4, <2>6, <2>7, PutEdits
  <2>9. Edits(h, m, g, m, R)
    BY <2>4, <2>8, EditsOn
  <2>10. g[r][key] = SliceAt(f, idx + 1) /\ key \in DOMAIN g[r]
    BY <2>8 DEF With
  <2>11. r # f /\ g[f] = h0[f]
    BY <2>1, <2>5, <2>8 DEF Region
  <2>. QED  BY <2>0, <2>5, <2>9, <2>10, <2>11 DEF HasList, SliceAt
<1>. QED  BY <1>2, <1>4, <1>5, <1>6 DEF Extension

LEMMA IndexedEdits ==
  ASSUME NEW h, NEW m, NEW R, HeapOK(h, m), Region(h, R), NEW r \in R, r \in m,
         NEW key \in Keys, NEW idx \in Nat, NEW grow,
         NEW g, g = Indexed(h, r, key, idx, grow)
  PROVE  /\ Edits(h, m, g, m, R)
         /\ HasList(g, r, key, idx + 1)
         /\ g = h \/ g[g[r][key].ref][idx + 1] = Null
<1>. DEFINE g0 == EnsureArrayAtPath(h, r, key)
            R0 == Grown(h, g0, R)
<1>1. Edits(h, m, g0, m, R) /\ HasList(g0, r, key, 0) /\ (g0 = h \/ g0[r][key].len = 0)
  BY EnsureArrayEdits
<1>2. g = Extended(g0, r, key, idx, grow)
  BY DEF Indexed
<1>. HIDE DEF g0
<1>4. HeapOK(g0, m) /\ r \in R0
  BY <1>1 DEF Edits, Grows, Grown
<1>5. Region(g0, R0)
  BY <1>1, GrownIsRegion
<1>. HIDE DEF R0
<1>6. /\ Edits(g0, m, g, m, R0)
      /\ HasList(g, r, key, idx + 1)
      /\ (g = g0 /\ idx < g0[r][key].len) \/ g[g[r][key].ref][idx + 1] = Null
  BY <1>1, <1>2, <1>4, <1>5, ExtendedEdits
<1>8. Edits(h, m, g, m, R)
  BY <1>1, <1>6, EditsOn DEF R0
<1>9. ~(idx < 0)
  OBVIOUS
<1>. QED  BY <1>1, <1>6, <1>8, <1>9

(* An element of the list under a key is written.                          *)
LEMMA ElementEdits ==
  ASSUME NEW h, NEW m, NEW R, HeapOK(h, m), Region(h, R), NEW r \in R, r \in m,
         NEW key, NEW idx \in Nat, HasList(h, r, key, idx + 1), NEW v, SlotIn(h, m, R, v),
         NEW h1, h1 = PutAt(h, h[r][key].ref, idx + 1, v)
  PROVE  /\ Edits(h, m, h1, m, R) /\ Grown(h, h1, R) = R
         /\ h1[r] = h[r] /\ h1[h[r][key].ref][idx + 1] = v
         /\ \A s \in DOMAIN h : s # h[r][key].ref => h1[s] = h[s]
<1>. DEFINE arr == h[r][key]
            a   == arr.ref
            old == h[a]
            o   == [old EXCEPT ![idx + 1] = v]
<1>1. /\ a \in R /\ a \in DOMAIN h \ m /\ old \in Seq(Value) /\ idx + 1 \in 1 .. Len(old)
  <2>1. HasList(h, r, key, 0)
    <3>1. arr \in Value
      BY DEF HasList, HeapOK, Region, ValueIn
    <3>. QED  BY <3>1 DEF HasList, Value
  <2>2. idx + 1 <= arr.len
    BY DEF HasList
  <2>. HIDE DEF arr
  <2>3. /\ arr \in Value /\ a \in R /\ a \in DOMAIN h \ m /\ arr.len \in Nat
        /\ old \in Seq(Value) /\ arr.len <= Len(old) /\ Len(old) \in Nat
    BY <2>1, ListIs DEF arr
  <2>. QED  BY <2>2, <2>3
<1>2. r # a /\ r \in DOMAIN h
  BY <1>1 DEF Region
<1>3. DOMAIN h1 = DOMAIN h /\ h1[a] = o /\ \A s \in DOMAIN h : s # a => h1[s] = h[s]
  BY <1>1 DEF PutAt
<1>4. o \in Seq(Value) /\ Len(o) = Len(old) /\ o[idx + 1] = v
  <2>1. v \in Value
    BY DEF SlotIn, ValueIn
  <2>. HIDE DEF old
  <2>. QED  BY <1>1, <2>1
<1>5. \A k \in DOMAIN o : SlotIn(h, m, R, o[k])
  <2>1. \A k \in DOMAIN old : SlotIn(h, m, R, old[k])
    BY <1>1, SlotsAreHeld
  <2>2. \A k \in DOMAIN o : k \in DOMAIN old /\ (o[k] = v \/ o[k] = old[k])
    OBVIOUS
  <2>. QED  BY <2>1, <2>2
<1>6. Len(old) <= Len(o)
  BY <1>1, <1>4
<1>. HIDE DEF o
<1>7. Edits(h, m, h1, m, R) /\ Grown(h, h1, R) = R
  BY <1>1, <1>3, <1>4, <1>5, <1>6, ReplaceEdits
<1>. QED  BY <1>2, <1>3, <1>4, <1>7

(* The value at one segment, when it is there.                             *)
LEMMA StepTo ==
  ASSUME NEW h, NEW r, NEW key, NEW idx \in Nat, HasList(h, r, key, idx + 1),
         NEW n \in Nat, h[r][key].len = n
  PROVE  GetFromArray(h, GetFromMap(h, MapAt(r), key), idx) = h[h[r][key].ref][idx + 1]
<1>1. GetFromMap(h, MapAt(r), key) = h[r][key]
  BY FromMap DEF HasList
<1>2. h[r][key].kind = "list" /\ idx < h[r][key].len
  BY DEF HasList
<1>. QED  BY <1>1, <1>2 DEF GetFromArray

LEMMA SetArrayElementEdits ==
  ASSUME NEW h, NEW m, NEW R, HeapOK(h, m), Region(h, R), NEW r \in R, r \in m,
         NEW key \in Keys, NEW idx \in Nat, NEW grow, NEW v, SlotIn(h, m, R, v),
         NEW h1, h1 = SetArrayElement(h, r, key, idx, v, grow)
  PROVE  /\ Edits(h, m, h1, m, R)
         /\ GetFromArray(h1, GetFromMap(h1, MapAt(r), key), idx) = v
<1>. DEFINE g == Indexed(h, r, key, idx, grow)
            R0 == Grown(h, g, R)
<1>1. Edits(h, m, g, m, R) /\ HasList(g, r, key, idx + 1)
  BY IndexedEdits
<1>2. h1 = PutAt(g, g[r][key].ref, idx + 1, v)
  BY DEF SetArrayElement
<1>. HIDE DEF g
<1>4. HeapOK(g, m) /\ Grows(h, m, g, m) /\ r \in R0
  BY <1>1 DEF Edits, Grows, Grown
<1>5. Region(g, R0)
  BY <1>1, GrownIsRegion
<1>6. SlotIn(g, m, R0, v)
  BY <1>4, ValueKept DEF SlotIn, Grown
<1>. HIDE DEF R0
<1>7. /\ Edits(g, m, h1, m, R0)
      /\ h1[r] = g[r] /\ h1[g[r][key].ref][idx + 1] = v
  BY <1>1, <1>2, <1>4, <1>5, <1>6, ElementEdits
<1>8. Edits(h, m, h1, m, R)
  BY <1>1, <1>7, EditsOn DEF R0
<1>9. HasList(h1, r, key, idx + 1)
  BY <1>1, <1>7 DEF HasList
<1>10. h1[r][key].len \in Nat
  <2>1. r \in DOMAIN g /\ g[r][key] \in Value
    BY <1>1, <1>4, <1>5 DEF HasList, HeapOK, Region, ValueIn
  <2>. QED  BY <2>1, <1>7 DEF Value
<1>11. GetFromArray(h1, GetFromMap(h1, MapAt(r), key), idx) = h1[h1[r][key].ref][idx + 1]
  BY <1>9, <1>10, StepTo
<1>. QED  BY <1>7, <1>8, <1>11

LEMMA EnsureMapInArrayArrives ==
  ASSUME NEW h, NEW m, NEW R, HeapOK(h, m), Region(h, R), NEW r \in R, r \in m,
         NEW key \in Keys, NEW idx \in Nat, NEW grow,
         NEW to, to = EnsureMapInArray(h, r, key, idx, grow)
  PROVE  /\ Arrives(h, m, R, to) /\ Found(h, to) /\ to.ok = TRUE
         /\ IsMapAt(GetFromArray(to.heap, GetFromMap(to.heap, MapAt(r), key), idx), to.at)
<1>. DEFINE g    == Indexed(h, r, key, idx, grow)
            list == g[r][key].ref
            next == g[list][idx + 1]
            R0   == Grown(h, g, R)
<1>1. /\ Edits(h, m, g, m, R)
      /\ HasList(g, r, key, idx + 1)
      /\ g = h \/ next = Null
  BY IndexedEdits
<1>2. to = IF next.kind = "map" THEN [heap |-> g, at |-> next.ref, ok |-> TRUE]
           ELSE [heap |-> PutAt(New(g, Empty), list, idx + 1, MapAt(Fresh(g))),
                 at |-> Fresh(g), ok |-> TRUE]
  BY DEF EnsureMapInArray
<1>. HIDE DEF g
<1>4. HeapOK(g, m) /\ Grows(h, m, g, m) /\ r \in R0 /\ R \subseteq R0
  BY <1>1 DEF Edits, Grows, Grown
<1>5. Region(g, R0)
  BY <1>1, GrownIsRegion
<1>6. g[r][key] \in Value /\ g[r][key].len \in Nat
  BY <1>1, <1>4, <1>5 DEF HasList, HeapOK, Region, ValueIn, Value
<1>7. HasList(g, r, key, 0)
  BY <1>1, <1>6 DEF HasList
<1>8. /\ list \in R0 /\ list \in DOMAIN g \ m /\ g[list] \in Seq(Value)
      /\ idx + 1 \in 1 .. Len(g[list])
  <2>. DEFINE arr == g[r][key]
  <2>1. idx + 1 <= arr.len
    BY <1>1 DEF HasList
  <2>2. /\ arr \in Value /\ arr.ref \in R0 /\ arr.ref \in DOMAIN g \ m /\ arr.len \in Nat
        /\ g[arr.ref] \in Seq(Value) /\ arr.len <= Len(g[arr.ref]) /\ Len(g[arr.ref]) \in Nat
    <3>. HIDE DEF R0
    <3>1. arr = g[r][key]
      OBVIOUS
    <3>. HIDE DEF arr
    <3>. QED  BY <1>4, <1>5, <1>7, <3>1, ListIs
  <2>. QED  BY <2>1, <2>2
<1>9. CASE next.kind = "map"
  <2>1. to = [heap |-> g, at |-> next.ref, ok |-> TRUE]
    BY <1>2, <1>9
  <2>2. g = h
    BY <1>1, <1>9 DEF Null
  <2>3. SlotIn(g, m, R0, next)
    BY <1>4, <1>5, <1>8, SlotsAreHeld
  <2>4. next.ref \in m /\ next.ref \in R0
    BY <2>3, <1>9 DEF SlotIn, ValueIn, IsContainer
  <2>5. GetFromArray(g, GetFromMap(g, MapAt(r), key), idx) = next
    BY <1>1, <1>6, StepTo
  <2>6. m \cup {next.ref} = m
    BY <2>4
  <2>. QED  BY <1>1, <1>9, <2>1, <2>2, <2>4, <2>5, <2>6 DEF Arrives, Found, IsMapAt
<1>10. CASE next.kind # "map"
  <2>. DEFINE f  == Fresh(g)
              g0 == With(g, f, Empty)
              h1 == PutAt(g0, list, idx + 1, MapAt(f))
              m1 == m \cup {f}
              R1 == R0 \cup {f}
  <2>1. f \in Nat /\ f \notin DOMAIN g
    BY <1>4, FreshIsNew DEF HeapOK
  <2>2. to = [heap |-> h1, at |-> f, ok |-> TRUE]
    BY <1>2, <1>10 DEF New
  <2>. HIDE DEF f
  <2>3. Edits(g, m, g0, m1, R0) /\ Grown(g, g0, R0) = R1 /\ Region(g0, R1)
    BY <2>1, <1>4, <1>5, EmptyIsMap, EmptySlots, AllocateEdits DEF MayBe
  <2>4. g0[f] = Empty /\ f \in DOMAIN g0 /\ r # f /\ g0[r] = g[r]
    BY <2>1, <1>4, <1>5 DEF With, Region
  <2>. HIDE DEF g0
  <2>5. HeapOK(g0, m1) /\ r \in R1 /\ r \in m1
    BY <2>3, <1>4 DEF Edits
  <2>6. SlotIn(g0, m1, R1, MapAt(f))
    BY <2>1 DEF SlotIn, ValueIn, MapAt, Value
  <2>7. HasList(g0, r, key, idx + 1) /\ h1 = PutAt(g0, g0[r][key].ref, idx + 1, MapAt(f))
    BY <2>4, <1>1 DEF HasList
  <2>. HIDE DEF h1, R1, m1
  <2>8. /\ Edits(g0, m1, h1, m1, R1) /\ Grown(g0, h1, R1) = R1
        /\ h1[r] = g0[r] /\ h1[g0[r][key].ref][idx + 1] = MapAt(f)
        /\ \A s \in DOMAIN g0 : s # g0[r][key].ref => h1[s] = g0[s]
    BY <2>3, <2>5, <2>6, <2>7, ElementEdits
  <2>9. Edits(g, m, h1, m1, R0) /\ Grown(g, g0, R0) \subseteq Grown(g, h1, R0)
    BY <2>3, <2>8, <1>4, EditsOn
  <2>10. Edits(h, m, h1, m1, R) /\ Grown(h, g, R) \subseteq Grown(h, h1, R)
    BY <1>1, <2>9, EditsOn DEF R0
  <2>11. f \in Grown(h, h1, R) /\ f \notin DOMAIN h /\ f \in DOMAIN h1 /\ m1 = m \cup {f}
    <3>1. f \in Grown(g, h1, R0)
      BY <2>3, <2>9 DEF R1
    <3>2. DOMAIN h \subseteq DOMAIN g
      BY <1>4 DEF Grows
    <3>3. f \in DOMAIN h1
      BY <2>4, <2>8 DEF Edits, Grows
    <3>. QED  BY <2>1, <3>1, <3>2, <3>3 DEF Grown, m1
  <2>12. h1[f] = Empty
    <3>1. g0[r][key].ref # f
      BY <2>1, <2>4, <1>8
    <3>. QED  BY <3>1, <2>4, <2>8
  <2>13. GetFromArray(h1, GetFromMap(h1, MapAt(r), key), idx) = MapAt(f)
    <3>1. HasList(h1, r, key, idx + 1) /\ h1[r][key].len \in Nat
      BY <2>4, <2>7, <2>8, <1>6 DEF HasList
    <3>. QED  BY <3>1, <2>8, StepTo
  <2>. QED  BY <2>2, <2>10, <2>11, <2>12, <2>13 DEF Arrives, Found, IsMapAt, MapAt
<1>. QED  BY <1>9, <1>10

(* Descend, from the map at r.                                             *)
DescendFrom(h, r, part, grow) ==
    IF part.idx = Malformed THEN [heap |-> h, at |-> r, ok |-> FALSE]
    ELSE IF part.idx = NoIndex THEN EnsureMapAtPath(h, r, part.key)
    ELSE EnsureMapInArray(h, r, part.key, part.idx, grow)

LEMMA DescendGoesOn ==
  ASSUME NEW x, x.ok = TRUE, NEW part, NEW grow
  PROVE  Descend(x, part, grow) = DescendFrom(x.heap, x.at, part, grow)
BY DEF Descend, DescendFrom, NoIndex, Malformed

LEMMA DescendStays ==
  ASSUME NEW x, x.ok = FALSE, NEW part, NEW grow
  PROVE  Descend(x, part, grow) = [heap |-> x.heap, at |-> x.at, ok |-> FALSE]
BY DEF Descend, NoIndex, Malformed

LEMMA DescendArrives ==
  ASSUME NEW h, NEW m, NEW R, HeapOK(h, m), Region(h, R), NEW r \in R, r \in m,
         NEW part \in Segment, NEW grow, NEW to,
         to = DescendFrom(h, r, part, grow)
  PROVE  /\ Arrives(h, m, R, to) /\ Found(h, to) /\ to.ok \in BOOLEAN
         /\ IF to.ok THEN part.idx # Malformed /\ IsMapAt(NavigateStep(to.heap, MapAt(r), part), to.at)
            ELSE to.heap = h
<1>1. part.key \in Keys /\ part.idx \in Nat \cup {NoIndex, Malformed}
  BY DEF Segment
<1>2. CASE part.idx = Malformed
  <2>2. to = [heap |-> h, at |-> r, ok |-> FALSE]
    BY <1>2 DEF DescendFrom
  <2>3. to.heap = h /\ to.at = r /\ to.ok = FALSE
    BY <2>2
  <2>4. Edits(h, m, h, m, R) /\ Grown(h, h, R) = R
    BY NoEditAtAll
  <2>5. Arrives(h, m, R, to)
    <3>1. m \cup {r} = m
      OBVIOUS
    <3>. QED  BY <2>3, <2>4, <3>1 DEF Arrives
  <2>6. Found(h, to)
    BY <2>3 DEF Found
  <2>. QED  BY <2>2, <2>3, <2>5, <2>6
<1>3. CASE part.idx = NoIndex
  <2>1. part.idx # Malformed
    BY <1>3 DEF NoIndex, Malformed
  <2>2. to = EnsureMapAtPath(h, r, part.key)
    BY <1>3, <2>1 DEF DescendFrom
  <2>3. NavigateStep(to.heap, MapAt(r), part) = GetFromMap(to.heap, MapAt(r), part.key)
    BY <1>3, <2>1 DEF NavigateStep
  <2>. DEFINE key == part.key
  <2>4. key \in Keys /\ to = EnsureMapAtPath(h, r, key)
    BY <1>1, <2>2
  <2>. HIDE DEF key
  <2>5. /\ Arrives(h, m, R, to) /\ Found(h, to) /\ to.ok = TRUE
        /\ IsMapAt(GetFromMap(to.heap, MapAt(r), key), to.at)
    BY <2>4, EnsureMapArrives
  <2>. QED  BY <2>1, <2>3, <2>5 DEF key
<1>4. CASE part.idx \in Nat
  <2>1. part.idx # Malformed /\ part.idx # NoIndex
    BY <1>4 DEF NoIndex, Malformed
  <2>2. to = EnsureMapInArray(h, r, part.key, part.idx, grow)
    BY <2>1 DEF DescendFrom
  <2>3. NavigateStep(to.heap, MapAt(r), part)
          = GetFromArray(to.heap, GetFromMap(to.heap, MapAt(r), part.key), part.idx)
    BY <2>1 DEF NavigateStep
  <2>4. /\ Arrives(h, m, R, to) /\ Found(h, to) /\ to.ok = TRUE
        /\ IsMapAt(GetFromArray(to.heap, GetFromMap(to.heap, MapAt(r), part.key), part.idx), to.at)
    <3>1. part.key \in Keys
      BY <1>1
    <3>. DEFINE key == part.key
                idx == part.idx
    <3>2. key \in Keys /\ idx \in Nat /\ to = EnsureMapInArray(h, r, key, idx, grow)
      BY <3>1, <1>4, <2>2
    <3>. HIDE DEF key, idx
    <3>3. /\ Arrives(h, m, R, to) /\ Found(h, to) /\ to.ok = TRUE
          /\ IsMapAt(GetFromArray(to.heap, GetFromMap(to.heap, MapAt(r), key), idx), to.at)
      BY <3>2, EnsureMapInArrayArrives
    <3>. QED  BY <3>3 DEF key, idx
  <2>. QED  BY <2>1, <2>3, <2>4
<1>. QED  BY <1>1, <1>2, <1>3, <1>4

(* The recursive function of Descent.                                      *)
Down(h, r, path, grow, n) ==
    CHOOSE w : w = [i \in 0 .. n |->
                      IF i = 0 THEN [heap |-> h, at |-> r, ok |-> TRUE]
                      ELSE Descend(w[i - 1], path[i], grow)]

LEMMA DownIs ==
  ASSUME NEW h, NEW r, NEW path, NEW grow, NEW n \in Nat
  PROVE  /\ Descent(h, r, path, grow, n) = Down(h, r, path, grow, n)[n]
         /\ Down(h, r, path, grow, n)[0] = [heap |-> h, at |-> r, ok |-> TRUE]
         /\ \A i \in 1 .. n :
               Down(h, r, path, grow, n)[i] = Descend(Down(h, r, path, grow, n)[i - 1], path[i], grow)
<1>. DEFINE b == [heap |-> h, at |-> r, ok |-> TRUE]
            Eqn(w, k) == w = [i \in 0 .. k |-> IF i = 0 THEN b ELSE Descend(w[i - 1], path[i], grow)]
            S == {k \in Nat : \E w : Eqn(w, k)}
<1>1. Down(h, r, path, grow, n) = CHOOSE w : Eqn(w, n)
  BY DEF Down
<1>2. Descent(h, r, path, grow, n) = Down(h, r, path, grow, n)[n]
  BY DEF Descent, Down
<1>. HIDE DEF b, Down
<1>3. 0 \in S
  <2>1. Eqn([i \in 0 .. 0 |-> b], 0)
    BY SMT
  <2>. QED  BY <2>1
<1>4. ASSUME NEW k \in Nat, k \in S  PROVE k + 1 \in S
  <2>1. PICK w : Eqn(w, k)
    BY <1>4
  <2>. DEFINE W == [i \in 0 .. k + 1 |-> IF i = k + 1 THEN Descend(w[k], path[k + 1], grow) ELSE w[i]]
  <2>2. Eqn(W, k + 1)
    <3>1. W[k + 1] = Descend(w[k], path[k + 1], grow) /\ \A i \in 0 .. k : W[i] = w[i]
      BY SMT
    <3>2. \A i \in 0 .. k : w[i] = IF i = 0 THEN b ELSE Descend(w[i - 1], path[i], grow)
      BY <2>1, SMT
    <3>3. W = [i \in 0 .. k + 1 |-> W[i]]
      OBVIOUS
    <3>. HIDE DEF W
    <3>4. \A i \in 0 .. k + 1 : W[i] = IF i = 0 THEN b ELSE Descend(W[i - 1], path[i], grow)
      <4>. SUFFICES ASSUME NEW i \in 0 .. k + 1
                    PROVE  W[i] = IF i = 0 THEN b ELSE Descend(W[i - 1], path[i], grow)
        OBVIOUS
      <4>1. CASE i = k + 1
        <5>1. i # 0 /\ i - 1 = k /\ k \in 0 .. k
          BY <4>1
        <5>. QED  BY <4>1, <5>1, <3>1
      <4>2. CASE i = 0
        BY <4>2, <3>1, <3>2
      <4>3. CASE i # 0 /\ i # k + 1
        <5>1. i \in 0 .. k /\ i - 1 \in 0 .. k
          BY <4>3
        <5>. QED  BY <4>3, <5>1, <3>1, <3>2
      <4>. QED  BY <4>1, <4>2, <4>3
    <3>. QED  BY <3>3, <3>4
  <2>3. \E v : Eqn(v, k + 1)
    <3>. HIDE DEF W, Eqn
    <3>. WITNESS W
    <3>. QED  BY <2>2
  <2>4. k + 1 \in Nat
    OBVIOUS
  <2>. HIDE DEF Eqn
  <2>. QED  BY <2>3, <2>4
<1>5. \A k \in Nat : k \in S
  <2>. HIDE DEF S
  <2>. QED  BY <1>3, <1>4, Counting
<1>6. n \in Nat
  OBVIOUS
<1>7. \E w : Eqn(w, n)
  BY <1>5, <1>6
<1>8. Eqn(Down(h, r, path, grow, n), n)
  <2>. HIDE DEF Eqn
  <2>. QED  BY <1>1, <1>7
<1>9. Down(h, r, path, grow, n)[0] = b
  BY <1>6, <1>8, SMT
<1>10. ASSUME NEW i \in 1 .. n
       PROVE  Down(h, r, path, grow, n)[i] = Descend(Down(h, r, path, grow, n)[i - 1], path[i], grow)
  <2>1. i \in 0 .. n /\ i # 0
    BY <1>6
  <2>. QED  BY <1>8, <2>1
<1>. QED  BY <1>2, <1>9, <1>10 DEF b

(* The recursive function of Navigate.                                     *)
Trail(h, r, path, n) ==
    CHOOSE w : w = [i \in 0 .. n |->
                      IF i = 0 THEN MapAt(r)
                      ELSE NavigateStep(h, w[i - 1], path[i])]

LEMMA TrailIs ==
  ASSUME NEW h, NEW r, NEW path, NEW n \in Nat
  PROVE  /\ Navigate(h, r, path, n) = Trail(h, r, path, n)[n]
         /\ Trail(h, r, path, n)[0] = MapAt(r)
         /\ \A i \in 1 .. n :
               Trail(h, r, path, n)[i] = NavigateStep(h, Trail(h, r, path, n)[i - 1], path[i])
<1>. DEFINE b == MapAt(r)
            Eqn(w, k) == w = [i \in 0 .. k |-> IF i = 0 THEN b ELSE NavigateStep(h, w[i - 1], path[i])]
            S == {k \in Nat : \E w : Eqn(w, k)}
<1>1. Trail(h, r, path, n) = CHOOSE w : Eqn(w, n)
  BY DEF Trail
<1>2. Navigate(h, r, path, n) = Trail(h, r, path, n)[n]
  BY DEF Navigate, Trail
<1>. HIDE DEF b, Trail
<1>3. 0 \in S
  <2>1. Eqn([i \in 0 .. 0 |-> b], 0)
    BY SMT
  <2>. QED  BY <2>1
<1>4. ASSUME NEW k \in Nat, k \in S  PROVE k + 1 \in S
  <2>1. PICK w : Eqn(w, k)
    BY <1>4
  <2>. DEFINE W == [i \in 0 .. k + 1 |-> IF i = k + 1 THEN NavigateStep(h, w[k], path[k + 1]) ELSE w[i]]
  <2>2. Eqn(W, k + 1)
    <3>1. W[k + 1] = NavigateStep(h, w[k], path[k + 1]) /\ \A i \in 0 .. k : W[i] = w[i]
      BY SMT
    <3>2. \A i \in 0 .. k : w[i] = IF i = 0 THEN b ELSE NavigateStep(h, w[i - 1], path[i])
      BY <2>1, SMT
    <3>3. W = [i \in 0 .. k + 1 |-> W[i]]
      OBVIOUS
    <3>. HIDE DEF W
    <3>4. \A i \in 0 .. k + 1 : W[i] = IF i = 0 THEN b ELSE NavigateStep(h, W[i - 1], path[i])
      <4>. SUFFICES ASSUME NEW i \in 0 .. k + 1
                    PROVE  W[i] = IF i = 0 THEN b ELSE NavigateStep(h, W[i - 1], path[i])
        OBVIOUS
      <4>1. CASE i = k + 1
        <5>1. i # 0 /\ i - 1 = k /\ k \in 0 .. k
          BY <4>1
        <5>. QED  BY <4>1, <5>1, <3>1
      <4>2. CASE i = 0
        BY <4>2, <3>1, <3>2
      <4>3. CASE i # 0 /\ i # k + 1
        <5>1. i \in 0 .. k /\ i - 1 \in 0 .. k
          BY <4>3
        <5>. QED  BY <4>3, <5>1, <3>1, <3>2
      <4>. QED  BY <4>1, <4>2, <4>3
    <3>. QED  BY <3>3, <3>4
  <2>3. \E v : Eqn(v, k + 1)
    <3>. HIDE DEF W, Eqn
    <3>. WITNESS W
    <3>. QED  BY <2>2
  <2>4. k + 1 \in Nat
    OBVIOUS
  <2>. HIDE DEF Eqn
  <2>. QED  BY <2>3, <2>4
<1>5. \A k \in Nat : k \in S
  <2>. HIDE DEF S
  <2>. QED  BY <1>3, <1>4, Counting
<1>6. n \in Nat
  OBVIOUS
<1>7. \E w : Eqn(w, n)
  BY <1>5, <1>6
<1>8. Eqn(Trail(h, r, path, n), n)
  <2>. HIDE DEF Eqn
  <2>. QED  BY <1>1, <1>7
<1>9. Trail(h, r, path, n)[0] = b
  BY <1>6, <1>8, SMT
<1>10. ASSUME NEW i \in 1 .. n
       PROVE  Trail(h, r, path, n)[i] = NavigateStep(h, Trail(h, r, path, n)[i - 1], path[i])
  <2>1. i \in 0 .. n /\ i # 0
    BY <1>6
  <2>. QED  BY <1>8, <2>1
<1>. QED  BY <1>2, <1>9, <1>10 DEF b

LEMMA DescentArrives ==
  ASSUME NEW h, NEW m, NEW R, HeapOK(h, m), Region(h, R), NEW r \in R, r \in m,
         NEW path \in Path, NEW grow, NEW n \in Nat, n <= Len(path),
         NEW to, to = Descent(h, r, path, grow, n)
  PROVE  Arrived(h, m, R, to) /\ to.ok \in BOOLEAN
<1>. DEFINE w == Down(h, r, path, grow, n)
            S == {i \in Nat : i <= n => Arrived(h, m, R, w[i]) /\ w[i].ok \in BOOLEAN}
<1>1. /\ to = w[n] /\ w[0] = [heap |-> h, at |-> r, ok |-> TRUE]
      /\ \A i \in 1 .. n : w[i] = Descend(w[i - 1], path[i], grow)
  BY DownIs
<1>. HIDE DEF w
<1>2. 0 \in S
  <2>1. Edits(h, m, h, m, R) /\ Grown(h, h, R) = R
    BY NoEditAtAll
  <2>2. w[0].heap = h /\ w[0].at = r /\ w[0].ok = TRUE
    BY <1>1
  <2>. QED  BY <2>1, <2>2 DEF Arrived
<1>3. ASSUME NEW i \in Nat, i \in S  PROVE i + 1 \in S
  <2>. SUFFICES ASSUME i + 1 <= n
                PROVE  Arrived(h, m, R, w[i + 1]) /\ w[i + 1].ok \in BOOLEAN
    OBVIOUS
  <2>. DEFINE x == w[i]
              y == w[i + 1]
              part == path[i + 1]
  <2>1. y = Descend(x, part, grow)
    <3>1. i + 1 \in 1 .. n /\ (i + 1) - 1 = i
      OBVIOUS
    <3>. QED  BY <3>1, <1>1
  <2>2. part \in Segment
    BY DEF Path
  <2>3. Arrived(h, m, R, x) /\ x.ok \in BOOLEAN
    BY <1>3
  <2>. HIDE DEF x, y, part
  <2>4. CASE ~x.ok
    <3>1. y = [heap |-> x.heap, at |-> x.at, ok |-> FALSE]
      <4>1. x.ok = FALSE
        BY <2>3, <2>4
      <4>. QED  BY <4>1, <2>1, DescendStays
    <3>2. y.heap = x.heap /\ y.at = x.at /\ y.ok = FALSE
      BY <3>1
    <3>3. Arrived(h, m, R, y)
      BY <2>3, <3>2 DEF Arrived
    <3>. QED  BY <3>2, <3>3 DEF y
  <2>5. CASE x.ok
    <3>. DEFINE g  == x.heap
                R0 == Grown(h, g, R)
    <3>1. PICK m0 : Edits(h, m, g, m0, R) /\ x.at \in m0 /\ x.at \in R0
      BY <2>3 DEF Arrived
    <3>2. HeapOK(g, m0) /\ Region(g, R0)
      BY <3>1, GrownIsRegion DEF Edits
    <3>3. y = DescendFrom(g, x.at, part, grow)
      <4>1. x.ok = TRUE
        BY <2>3, <2>5
      <4>. QED  BY <4>1, <2>1, DescendGoesOn
    <3>. HIDE DEF R0, g
    <3>4. Arrives(g, m0, R0, y) /\ y.ok \in BOOLEAN
      BY <2>2, <3>1, <3>2, <3>3, DescendArrives
    <3>. DEFINE m1 == m0 \cup {y.at}
    <3>5. /\ Edits(g, m0, y.heap, m1, R0)
          /\ y.at \in m1 /\ y.at \in Grown(g, y.heap, R0)
      BY <3>4 DEF Arrives
    <3>. HIDE DEF m1
    <3>6. Edits(h, m, y.heap, m1, R)
      BY <3>1, <3>5, EditsOn DEF R0
    <3>7. Grown(g, y.heap, R0) \subseteq Grown(h, y.heap, R)
      <4>1. DOMAIN h \subseteq DOMAIN g /\ DOMAIN g \subseteq DOMAIN y.heap
        BY <3>1, <3>5 DEF Edits, Grows
      <4>. QED  BY <4>1 DEF Grown, R0
    <3>8. Arrived(h, m, R, y)
      BY <3>5, <3>6, <3>7 DEF Arrived
    <3>. QED  BY <3>4, <3>8 DEF y
  <2>. QED  BY <2>4, <2>5, <2>3
<1>4. \A i \in Nat : i \in S
  <2>. HIDE DEF S
  <2>. QED  BY <1>2, <1>3, Counting
<1>5. Arrived(h, m, R, w[n]) /\ w[n].ok \in BOOLEAN
  BY <1>4
<1>. QED  BY <1>1, <1>5

LEMMA SetEdits ==
  ASSUME NEW h, NEW m, NEW R, HeapOK(h, m), Region(h, R), NEW r \in R, r \in m,
         NEW path \in Path, NEW grow, NEW v, SlotIn(h, m, R, v),
         NEW s, s = Set(h, r, path, v, grow)
  PROVE  (\E m1 : Edits(h, m, s.heap, m1, R)) /\ s.ok \in BOOLEAN
<1>. DEFINE n    == Len(path) - 1
            to   == Descent(h, r, path, grow, n)
            last == Last(path)
            g    == to.heap
            R0   == Grown(h, g, R)
<1>1. n \in Nat /\ n <= Len(path) /\ last \in Segment
  BY DEF Path, Last
<1>2. s = CASE ~to.ok \/ last.idx = Malformed -> [heap |-> g, ok |-> FALSE]
            [] to.ok /\ last.idx = NoIndex -> [heap |-> Put(g, to.at, last.key, v), ok |-> TRUE]
            [] OTHER -> [heap |-> SetArrayElement(g, to.at, last.key, last.idx, v, grow), ok |-> TRUE]
  BY DEF Set
<1>. HIDE DEF n, last
<1>3. Arrived(h, m, R, to) /\ to.ok \in BOOLEAN
  BY <1>1, DescentArrives
<1>. HIDE DEF to
<1>4. PICK m0 : Edits(h, m, g, m0, R) /\ to.at \in m0 /\ to.at \in R0
  BY <1>3 DEF Arrived
<1>5. HeapOK(g, m0) /\ Region(g, R0) /\ Grows(h, m, g, m0)
  BY <1>4, GrownIsRegion DEF Edits
<1>6. SlotIn(g, m0, R0, v)
  BY <1>5, ValueKept DEF SlotIn, Grown
<1>7. last.key \in Keys /\ last.idx \in Nat \cup {NoIndex, Malformed}
  BY <1>1 DEF Segment
<1>8. ASSUME NEW g1, (\E m1 : Edits(g, m0, g1, m1, R0))  PROVE \E m1 : Edits(h, m, g1, m1, R)
  <2>1. PICK m1 : Edits(g, m0, g1, m1, R0)
    BY <1>8
  <2>. QED  BY <1>4, <2>1, EditsOn
<1>. HIDE DEF R0
<1>9. CASE ~to.ok \/ last.idx = Malformed
  <2>1. s = [heap |-> g, ok |-> FALSE]
    BY <1>2, <1>3, <1>9 DEF NoIndex, Malformed
  <2>. QED  BY <2>1, <1>4
<1>10. CASE to.ok /\ last.idx = NoIndex
  <2>. DEFINE g1 == Put(g, to.at, last.key, v)
  <2>1. s = [heap |-> g1, ok |-> TRUE]
    BY <1>2, <1>10 DEF NoIndex, Malformed
  <2>2. Edits(g, m0, g1, m0, R0)
    BY <1>4, <1>5, <1>6, <1>7, PutEdits
  <2>. QED  BY <2>1, <2>2, <1>8
<1>11. CASE to.ok /\ last.idx \in Nat
  <2>. DEFINE g1 == SetArrayElement(g, to.at, last.key, last.idx, v, grow)
  <2>1. s = [heap |-> g1, ok |-> TRUE]
    BY <1>2, <1>11 DEF NoIndex, Malformed
  <2>2. \E m1 : Edits(g, m0, g1, m1, R0)
    BY <1>4, <1>5, <1>6, <1>7, <1>11, SetArrayElementEdits
  <2>. QED  BY <2>1, <2>2, <1>8
<1>. QED  BY <1>3, <1>7, <1>9, <1>10, <1>11

-----------------------------------------------------------------------------
(* Reading and removing.                                                   *)

LEMMA StepReads ==
  ASSUME NEW h, NEW m, NEW R, HeapOK(h, m), Region(h, R), NEW v, SlotIn(h, m, R, v),
         NEW part \in Segment, NEW w, w = NavigateStep(h, v, part)
  PROVE  w = Missing \/ SlotIn(h, m, R, w)
<1>. DEFINE u == GetFromMap(h, v, part.key)
<1>1. u = Missing \/ SlotIn(h, m, R, u)
  <2>1. CASE v.kind = "map" /\ part.key \in DOMAIN h[v.ref]
    <3>1. v.ref \in R /\ u = h[v.ref][part.key]
      BY <2>1 DEF SlotIn, IsContainer, GetFromMap
    <3>. QED  BY <2>1, <3>1, SlotsAreHeld
  <2>2. CASE ~(v.kind = "map" /\ part.key \in DOMAIN h[v.ref])
    BY <2>2 DEF GetFromMap
  <2>. QED  BY <2>1, <2>2
<1>. HIDE DEF u
<1>2. ASSUME NEW idx \in Nat  PROVE LET e == GetFromArray(h, u, idx) IN e = Missing \/ SlotIn(h, m, R, e)
  <2>1. CASE u.kind = "list" /\ idx < u.len
    <3>1. SlotIn(h, m, R, u)
      BY <1>1, <2>1 DEF Missing
    <3>2. u.ref \in R /\ u.ref \in DOMAIN h \ m /\ u.len <= Len(h[u.ref]) /\ u.len \in Nat
      BY <2>1, <3>1 DEF SlotIn, ValueIn, IsContainer, Value
    <3>3. h[u.ref] \in Seq(Value)
      BY <3>2 DEF HeapOK
    <3>4. Len(h[u.ref]) \in Nat /\ DOMAIN h[u.ref] = 1 .. Len(h[u.ref])
      BY <3>3
    <3>5. idx + 1 \in DOMAIN h[u.ref]
      BY <2>1, <3>2, <3>4
    <3>6. SlotIn(h, m, R, h[u.ref][idx + 1])
      BY <3>2, <3>5, SlotsAreHeld
    <3>. QED  BY <2>1, <3>6 DEF GetFromArray
  <2>2. CASE ~(u.kind = "list" /\ idx < u.len)
    BY <2>2 DEF GetFromArray
  <2>. QED  BY <2>1, <2>2
<1>3. part.idx \in Nat \cup {NoIndex, Malformed}
  BY DEF Segment
<1>4. CASE part.idx = Malformed
  BY <1>4 DEF NavigateStep, NoIndex, Malformed
<1>5. CASE part.idx = NoIndex
  <2>1. w = u
    BY <1>5 DEF NavigateStep, NoIndex, Malformed, u
  <2>. QED  BY <2>1, <1>1
<1>6. CASE part.idx \in Nat
  <2>1. w = GetFromArray(h, u, part.idx)
    BY <1>6 DEF NavigateStep, NoIndex, Malformed, u
  <2>. QED  BY <2>1, <1>2, <1>6
<1>. QED  BY <1>3, <1>4, <1>5, <1>6

LEMMA MissingStays ==
  ASSUME NEW h, NEW part \in Segment
  PROVE  NavigateStep(h, Missing, part) = Missing
<1>1. part.idx \in Nat \cup {NoIndex, Malformed}
  BY DEF Segment
<1>2. \A key : GetFromMap(h, Missing, key) = Missing
  BY DEF GetFromMap, Missing
<1>3. \A idx : GetFromArray(h, Missing, idx) = Missing
  BY DEF GetFromArray, Missing
<1>. QED  BY <1>1, <1>2, <1>3 DEF NavigateStep, NoIndex, Malformed

LEMMA NavigateReads ==
  ASSUME NEW h, NEW m, NEW R, HeapOK(h, m), Region(h, R), NEW r \in R, r \in m,
         NEW path \in Seq(Segment), NEW n \in Nat, n <= Len(path),
         NEW v, v = Navigate(h, r, path, n)
  PROVE  v = Missing \/ SlotIn(h, m, R, v)
<1>. DEFINE w == Trail(h, r, path, n)
            S == {i \in Nat : i <= n => w[i] = Missing \/ SlotIn(h, m, R, w[i])}
<1>1. /\ v = w[n] /\ w[0] = MapAt(r)
      /\ \A i \in 1 .. n : w[i] = NavigateStep(h, w[i - 1], path[i])
  BY TrailIs
<1>. HIDE DEF w
<1>2. 0 \in S
  <2>1. r \in Nat
    BY DEF HeapOK, Region
  <2>2. SlotIn(h, m, R, MapAt(r))
    BY <2>1 DEF SlotIn, ValueIn, MapAt, Value
  <2>. QED  BY <2>2, <1>1
<1>3. ASSUME NEW i \in Nat, i \in S  PROVE i + 1 \in S
  <2>. SUFFICES ASSUME i + 1 <= n
                PROVE  w[i + 1] = Missing \/ SlotIn(h, m, R, w[i + 1])
    OBVIOUS
  <2>1. i + 1 \in 1 .. n /\ (i + 1) - 1 = i
    OBVIOUS
  <2>2. w[i + 1] = NavigateStep(h, w[i], path[i + 1])
    BY <1>1, <2>1
  <2>3. path[i + 1] \in Segment
    BY <2>1
  <2>4. w[i] = Missing \/ SlotIn(h, m, R, w[i])
    BY <1>3
  <2>. QED  BY <2>2, <2>3, <2>4, MissingStays, StepReads
<1>4. \A i \in Nat : i \in S
  <2>. HIDE DEF S
  <2>. QED  BY <1>2, <1>3, Counting
<1>5. w[n] = Missing \/ SlotIn(h, m, R, w[n])
  BY <1>4
<1>. QED  BY <1>1, <1>5

LEMMA DropEdits ==
  ASSUME NEW h, NEW m, NEW R, HeapOK(h, m), Region(h, R), NEW r \in R, r \in m, NEW key,
         NEW h1, h1 = Drop(h, r, key)
  PROVE  /\ Edits(h, m, h1, m, R) /\ Grown(h, h1, R) = R
         /\ DOMAIN h1 = DOMAIN h /\ DOMAIN h1[r] = DOMAIN h[r] \ {key}
         /\ \A k \in DOMAIN h1[r] : h1[r][k] = h[r][k]
         /\ \A s \in DOMAIN h : s # r => h1[s] = h[s]
<1>. DEFINE o == [k \in DOMAIN h[r] \ {key} |-> h[r][k]]
<1>1. r \in DOMAIN h /\ IsMap(h[r])
  BY DEF Region, HeapOK
<1>2. DOMAIN h1 = DOMAIN h /\ h1[r] = o /\ \A s \in DOMAIN h : s # r => h1[s] = h[s]
  BY <1>1 DEF Drop
<1>3. DOMAIN o = DOMAIN h[r] \ {key} /\ \A k \in DOMAIN o : o[k] = h[r][k]
  OBVIOUS
<1>4. IsMap(o)
  BY <1>1 DEF IsMap
<1>. HIDE DEF o
<1>5. \A k \in DOMAIN o : SlotIn(h, m, R, o[k])
  BY <1>3, SlotsAreHeld
<1>6. Edits(h, m, h1, m, R) /\ Grown(h, h1, R) = R
  BY <1>2, <1>4, <1>5, ReplaceEdits
<1>. QED  BY <1>2, <1>3, <1>6

(* Maps lose fields; a list in a field may be cut.                         *)
Shrinks(h, m, h1) ==
    \A s \in m : \A k \in DOMAIN h1[s] :
       /\ k \in DOMAIN h[s]
       /\ h1[s][k] = h[s][k] \/ (h1[s][k].kind = "list" /\ h[s][k].kind = "list")

LEMMA DropShrinks ==
  ASSUME NEW h, NEW m, NEW R, HeapOK(h, m), Region(h, R), NEW r \in R, r \in m, NEW key,
         NEW h1, h1 = Drop(h, r, key)
  PROVE  Shrinks(h, m, h1)
<1>1. /\ DOMAIN h1[r] = DOMAIN h[r] \ {key}
      /\ \A k \in DOMAIN h1[r] : h1[r][k] = h[r][k]
      /\ \A s \in DOMAIN h : s # r => h1[s] = h[s]
  BY DropEdits
<1>2. m \subseteq DOMAIN h
  BY DEF HeapOK
<1>. QED  BY <1>1, <1>2 DEF Shrinks

LEMMA DeleteFromMapEdits ==
  ASSUME NEW h, NEW m, NEW R, HeapOK(h, m), Region(h, R), NEW r \in R, r \in m,
         NEW part \in Segment, part.idx # Malformed,
         NEW h1, h1 = DeleteFromMap(h, r, part)
  PROVE  Edits(h, m, h1, m, R) /\ Shrinks(h, m, h1)
<1>. DEFINE arr == GetFromMap(h, MapAt(r), part.key)
            a   == arr.ref
            old == h[a]
            moved == [i \in DOMAIN old |-> IF part.idx < i /\ i < arr.len THEN old[i + 1] ELSE old[i]]
            e   == GetFromArray(h, arr, part.idx)
<1>1. part.key \in Keys /\ part.idx \in Nat \cup {NoIndex}
  BY DEF Segment
<1>2. CASE part.idx = NoIndex
  <2>1. h1 = Drop(h, r, part.key)
    BY <1>2 DEF DeleteFromMap
  <2>. QED  BY <2>1, DropEdits, DropShrinks
<1>3. CASE part.idx # NoIndex /\ e = Missing
  <2>1. h1 = h
    BY <1>3 DEF DeleteFromMap
  <2>. QED  BY <2>1, NoEditAtAll DEF Shrinks
<1>4. CASE part.idx # NoIndex /\ e # Missing
  <2>1. part.idx \in Nat /\ arr.kind = "list" /\ part.idx < arr.len
    BY <1>1, <1>4 DEF GetFromArray
  <2>2. part.key \in DOMAIN h[r] /\ arr = h[r][part.key] /\ r \in DOMAIN h
    BY <2>1, FromMap DEF Missing, Region
  <2>3. /\ arr \in Value /\ a \in R /\ a \in DOMAIN h \ m /\ arr.len \in Nat
        /\ old \in Seq(Value) /\ arr.len <= Len(old) /\ Len(old) \in Nat
    <3>1. arr \in Value
      BY <2>2 DEF HeapOK, Region, ValueIn
    <3>2. HasList(h, r, part.key, 0)
      BY <2>1, <2>2, <3>1 DEF HasList, Value
    <3>. HIDE DEF arr
    <3>. QED  BY <2>2, <3>2, ListIs
  <2>4. h1 = [Put(h, r, part.key, SliceAt(a, arr.len - 1)) EXCEPT ![a] = moved]
    BY <1>4 DEF DeleteFromMap
  <2>. HIDE DEF arr, e
  <2>5. \A i \in 1 .. Len(old) :
           LET j == IF part.idx < i /\ i < arr.len THEN i + 1 ELSE i
           IN  j \in 1 .. Len(old) /\ moved[i] = old[j]
    BY <2>1, <2>3, SMT
  <2>6. moved \in Seq(Value) /\ DOMAIN moved = 1 .. Len(old) /\ Len(moved) = Len(old)
    <3>1. \A i \in 1 .. Len(old) : moved[i] \in Value
      BY <2>5, <2>3
    <3>2. moved = [i \in 1 .. Len(old) |-> moved[i]]
      BY <2>3
    <3>. HIDE DEF moved, old
    <3>. QED  BY <3>1, <3>2, <2>3
  <2>7. \A k \in DOMAIN moved : SlotIn(h, m, R, moved[k])
    <3>1. \A k \in 1 .. Len(old) : SlotIn(h, m, R, old[k])
      BY <2>3, SlotsAreHeld
    <3>. HIDE DEF moved
    <3>. QED  BY <3>1, <2>5, <2>6
  <2>. DEFINE h0 == [h EXCEPT ![a] = moved]
  <2>8. /\ DOMAIN h0 = DOMAIN h /\ h0[a] = moved /\ r # a
        /\ \A s \in DOMAIN h : s # a => h0[s] = h[s]
    BY <2>3
  <2>9. h1 = Put(h0, r, part.key, SliceAt(a, arr.len - 1))
    BY <2>4, <2>2, <2>3, <2>8 DEF Put
  <2>. HIDE DEF h0, moved
  <2>10. Edits(h, m, h0, m, R) /\ Grown(h, h0, R) = R /\ Region(h0, R)
    <3>1. /\ Len(h[a]) <= Len(moved) /\ a \in R /\ a \notin m /\ moved \in Seq(Value)
          /\ HeapOK(h, m) /\ Region(h, R)
      BY <2>3, <2>6
    <3>. HIDE DEF old, a
    <3>. QED  BY <3>1, <2>7, <2>8, ReplaceEdits
  <2>11. HeapOK(h0, m)
    BY <2>10 DEF Edits
  <2>12. SlotIn(h0, m, R, SliceAt(a, arr.len - 1))
    <3>. DEFINE n == arr.len - 1
    <3>1. /\ n \in Nat /\ n <= Len(h0[a])
          /\ a \in Nat /\ a \in R /\ a \in DOMAIN h0 \ m
      BY <2>1, <2>3, <2>6, <2>8 DEF HeapOK
    <3>. HIDE DEF n, a
    <3>2. SlotIn(h0, m, R, SliceAt(a, n))
      BY <3>1 DEF SlotIn, ValueIn, SliceAt, Value
    <3>. QED  BY <3>2 DEF n
  <2>13. /\ Edits(h0, m, h1, m, R) /\ h1[r] = With(h0[r], part.key, SliceAt(a, arr.len - 1))
         /\ \A s \in DOMAIN h0 : s # r => h1[s] = h0[s]
    BY <1>1, <2>9, <2>10, <2>11, <2>12, PutEdits
  <2>14. Edits(h, m, h1, m, R)
    BY <2>10, <2>13, EditsOn
  <2>15. Shrinks(h, m, h1)
    <3>1. \A s \in m : s # r => h1[s] = h[s]
      BY <2>8, <2>13, <2>3 DEF HeapOK
    <3>2. h1[r] = With(h[r], part.key, SliceAt(a, arr.len - 1))
      BY <2>2, <2>8, <2>13
    <3>3. \A k \in DOMAIN h1[r] : /\ k \in DOMAIN h[r]
                                  /\ h1[r][k] = h[r][k] \/ (h1[r][k].kind = "list" /\ h[r][k].kind = "list")
      BY <3>2, <2>1, <2>2 DEF With, SliceAt
    <3>. QED  BY <3>1, <3>3 DEF Shrinks
  <2>. QED  BY <2>14, <2>15
<1>. QED  BY <1>2, <1>3, <1>4

LEMMA DeleteFromArrayEdits ==
  ASSUME NEW h, NEW m, NEW R, HeapOK(h, m), Region(h, R), NEW list, SlotIn(h, m, R, list),
         NEW part \in Segment, NEW h1, h1 = DeleteFromArray(h, list, part), part.idx # Malformed
  PROVE  Edits(h, m, h1, m, R) /\ Shrinks(h, m, h1)
<1>. DEFINE elem == GetFromArray(h, list, part.idx)
<1>1. CASE part.idx # NoIndex /\ elem.kind = "map"
  <2>1. h1 = Drop(h, elem.ref, part.key)
    BY <1>1 DEF DeleteFromArray
  <2>2. part.idx \in Nat /\ list.kind = "list" /\ part.idx < list.len /\ elem = h[list.ref][part.idx + 1]
    BY <1>1 DEF GetFromArray, Missing, Segment
  <2>3. list.ref \in R /\ list.ref \in DOMAIN h \ m /\ list.len <= Len(h[list.ref]) /\ list.len \in Nat
    BY <2>2 DEF SlotIn, ValueIn, IsContainer, Value
  <2>4. h[list.ref] \in Seq(Value)
    BY <2>3 DEF HeapOK
  <2>5. Len(h[list.ref]) \in Nat /\ DOMAIN h[list.ref] = 1 .. Len(h[list.ref])
    BY <2>4
  <2>6. part.idx + 1 \in DOMAIN h[list.ref]
    BY <2>2, <2>3, <2>5
  <2>7. SlotIn(h, m, R, elem)
    BY <2>2, <2>3, <2>6, SlotsAreHeld
  <2>8. elem.ref \in R /\ elem.ref \in m
    BY <2>7, <1>1 DEF SlotIn, ValueIn, IsContainer
  <2>. QED  BY <2>1, <2>8, DropEdits, DropShrinks
<1>2. CASE ~(part.idx # NoIndex /\ elem.kind = "map")
  <2>1. h1 = h
    BY <1>2 DEF DeleteFromArray
  <2>. QED  BY <2>1, NoEditAtAll DEF Shrinks
<1>. QED  BY <1>1, <1>2

LEMMA DeleteEdits ==
  ASSUME NEW h, NEW m, NEW R, HeapOK(h, m), Region(h, R), NEW r \in R, r \in m,
         NEW path \in Path, NEW h1, h1 = Delete(h, r, path)
  PROVE  Edits(h, m, h1, m, R) /\ Shrinks(h, m, h1)
<1>. DEFINE n      == Len(path) - 1
            parent == Navigate(h, r, path, n)
            last   == Last(path)
<1>1. n \in Nat /\ n <= Len(path) /\ last \in Segment /\ path \in Seq(Segment)
  BY DEF Path, Last
<1>2. h1 = CASE last.idx = Malformed -> h
             [] last.idx # Malformed /\ parent.kind = "map" -> DeleteFromMap(h, parent.ref, last)
             [] last.idx # Malformed /\ parent.kind = "list" -> DeleteFromArray(h, parent, last)
             [] OTHER -> h
  BY DEF Delete
<1>. HIDE DEF n, last
<1>3. parent = Missing \/ SlotIn(h, m, R, parent)
  BY <1>1, NavigateReads
<1>. HIDE DEF parent
<1>4. CASE last.idx # Malformed /\ parent.kind = "map"
  <2>1. h1 = DeleteFromMap(h, parent.ref, last)
    BY <1>2, <1>4
  <2>2. parent.ref \in m /\ parent.ref \in R
    BY <1>3, <1>4 DEF SlotIn, ValueIn, IsContainer, Missing
  <2>. QED  BY <1>1, <1>4, <2>1, <2>2, DeleteFromMapEdits
<1>5. CASE last.idx # Malformed /\ parent.kind = "list"
  <2>1. h1 = DeleteFromArray(h, parent, last)
    BY <1>2, <1>5
  <2>2. SlotIn(h, m, R, parent)
    BY <1>3, <1>5 DEF Missing
  <2>. QED  BY <1>1, <1>5, <2>1, <2>2, DeleteFromArrayEdits
<1>6. CASE last.idx = Malformed \/ parent.kind \notin {"map", "list"}
  <2>1. h1 = h
    BY <1>2, <1>6
  <2>. QED  BY <2>1, NoEditAtAll DEF Shrinks
<1>. QED  BY <1>4, <1>5, <1>6

(* The recursive function of DeleteAll.                                    *)
Left(h, r, paths) ==
    CHOOSE w : w = [i \in 0 .. Len(paths) |->
                      IF i = 0 THEN h
                      ELSE Delete(w[i - 1], r, paths[i])]

LEMMA LeftIs ==
  ASSUME NEW h, NEW r, NEW paths \in Seq(Path)
  PROVE  /\ DeleteAll(h, r, paths) = Left(h, r, paths)[Len(paths)]
         /\ Left(h, r, paths)[0] = h
         /\ \A i \in 1 .. Len(paths) :
               Left(h, r, paths)[i] = Delete(Left(h, r, paths)[i - 1], r, paths[i])
<1>. DEFINE b == h
            Eqn(w, k) == w = [i \in 0 .. k |-> IF i = 0 THEN b ELSE Delete(w[i - 1], r, paths[i])]
            S == {k \in Nat : \E w : Eqn(w, k)}
<1>1. Left(h, r, paths) = CHOOSE w : Eqn(w, Len(paths))
  BY DEF Left
<1>2. DeleteAll(h, r, paths) = Left(h, r, paths)[Len(paths)]
  BY DEF DeleteAll, Left
<1>. HIDE DEF b, Left
<1>3. 0 \in S
  <2>1. Eqn([i \in 0 .. 0 |-> b], 0)
    BY SMT
  <2>. QED  BY <2>1
<1>4. ASSUME NEW k \in Nat, k \in S  PROVE k + 1 \in S
  <2>1. PICK w : Eqn(w, k)
    BY <1>4
  <2>. DEFINE W == [i \in 0 .. k + 1 |-> IF i = k + 1 THEN Delete(w[k], r, paths[k + 1]) ELSE w[i]]
  <2>2. Eqn(W, k + 1)
    <3>1. W[k + 1] = Delete(w[k], r, paths[k + 1]) /\ \A i \in 0 .. k : W[i] = w[i]
      BY SMT
    <3>2. \A i \in 0 .. k : w[i] = IF i = 0 THEN b ELSE Delete(w[i - 1], r, paths[i])
      BY <2>1, SMT
    <3>3. W = [i \in 0 .. k + 1 |-> W[i]]
      OBVIOUS
    <3>. HIDE DEF W
    <3>4. \A i \in 0 .. k + 1 : W[i] = IF i = 0 THEN b ELSE Delete(W[i - 1], r, paths[i])
      <4>. SUFFICES ASSUME NEW i \in 0 .. k + 1
                    PROVE  W[i] = IF i = 0 THEN b ELSE Delete(W[i - 1], r, paths[i])
        OBVIOUS
      <4>1. CASE i = k + 1
        <5>1. i # 0 /\ i - 1 = k /\ k \in 0 .. k
          BY <4>1
        <5>. QED  BY <4>1, <5>1, <3>1
      <4>2. CASE i = 0
        BY <4>2, <3>1, <3>2
      <4>3. CASE i # 0 /\ i # k + 1
        <5>1. i \in 0 .. k /\ i - 1 \in 0 .. k
          BY <4>3
        <5>. QED  BY <4>3, <5>1, <3>1, <3>2
      <4>. QED  BY <4>1, <4>2, <4>3
    <3>. QED  BY <3>3, <3>4
  <2>3. \E v : Eqn(v, k + 1)
    <3>. HIDE DEF W, Eqn
    <3>. WITNESS W
    <3>. QED  BY <2>2
  <2>4. k + 1 \in Nat
    OBVIOUS
  <2>. HIDE DEF Eqn
  <2>. QED  BY <2>3, <2>4
<1>5. \A k \in Nat : k \in S
  <2>. HIDE DEF S
  <2>. QED  BY <1>3, <1>4, Counting
<1>6. Len(paths) \in Nat
  OBVIOUS
<1>7. \E w : Eqn(w, Len(paths))
  BY <1>5, <1>6
<1>8. Eqn(Left(h, r, paths), Len(paths))
  <2>. HIDE DEF Eqn
  <2>. QED  BY <1>1, <1>7
<1>9. Left(h, r, paths)[0] = b
  BY <1>6, <1>8, SMT
<1>10. ASSUME NEW i \in 1 .. Len(paths)
       PROVE  Left(h, r, paths)[i] = Delete(Left(h, r, paths)[i - 1], r, paths[i])
  <2>1. i \in 0 .. Len(paths) /\ i # 0
    BY <1>6
  <2>. QED  BY <1>8, <2>1
<1>. QED  BY <1>2, <1>9, <1>10 DEF b

LEMMA DeleteAllEdits ==
  ASSUME NEW h, NEW m, NEW R, HeapOK(h, m), Region(h, R), NEW r \in R, r \in m,
         NEW paths \in Seq(Path), NEW h1, h1 = DeleteAll(h, r, paths)
  PROVE  Edits(h, m, h1, m, R)
<1>. DEFINE w == Left(h, r, paths)
            S == {i \in Nat : i <= Len(paths) => Edits(h, m, w[i], m, R)}
<1>1. /\ h1 = w[Len(paths)] /\ w[0] = h
      /\ \A i \in 1 .. Len(paths) : w[i] = Delete(w[i - 1], r, paths[i])
  BY LeftIs
<1>. HIDE DEF w
<1>2. 0 \in S
  BY <1>1, NoEditAtAll
<1>3. ASSUME NEW i \in Nat, i \in S  PROVE i + 1 \in S
  <2>. SUFFICES ASSUME i + 1 <= Len(paths)  PROVE Edits(h, m, w[i + 1], m, R)
    OBVIOUS
  <2>1. i + 1 \in 1 .. Len(paths) /\ (i + 1) - 1 = i
    OBVIOUS
  <2>2. w[i + 1] = Delete(w[i], r, paths[i + 1]) /\ paths[i + 1] \in Path
    BY <1>1, <2>1
  <2>3. Edits(h, m, w[i], m, R)
    BY <1>3
  <2>4. HeapOK(w[i], m) /\ Region(w[i], Grown(h, w[i], R)) /\ r \in Grown(h, w[i], R)
    BY <2>3, GrownIsRegion DEF Edits, Grown
  <2>5. Edits(w[i], m, w[i + 1], m, Grown(h, w[i], R))
    BY <2>2, <2>4, DeleteEdits
  <2>. QED  BY <2>3, <2>5, EditsOn
<1>4. \A i \in Nat : i \in S
  <2>. HIDE DEF S
  <2>. QED  BY <1>2, <1>3, Counting
<1>. QED  BY <1>1, <1>4

-----------------------------------------------------------------------------
(* Transforms.                                                             *)

(* What was made of a value: it is in the region, and nothing is changed.  *)
Transformed(h, m, R, o) ==
    /\ o.ok \in BOOLEAN
    /\ \A s \in DOMAIN h : o.heap[s] = h[s]
    /\ \E m1 : Edits(h, m, o.heap, m1, R) /\ SlotIn(o.heap, m1, Grown(h, o.heap, R), o.value)

LEMMA SameTransformed ==
  ASSUME NEW h, NEW m, NEW R, HeapOK(h, m), Region(h, R), NEW w, SlotIn(h, m, R, w),
         NEW b \in BOOLEAN
  PROVE  Transformed(h, m, R, [ok |-> b, value |-> w, heap |-> h])
<1>. DEFINE o == [ok |-> b, value |-> w, heap |-> h]
<1>1. o.ok = b /\ o.value = w /\ o.heap = h
  OBVIOUS
<1>. HIDE DEF o
<1>2. Edits(h, m, h, m, R) /\ Grown(h, h, R) = R
  BY NoEditAtAll
<1>. QED  BY <1>1, <1>2 DEF Transformed

LEMMA SliceIn ==
  ASSUME NEW h, NEW m, NEW R, NEW f \in Nat, f \in DOMAIN h \ m, f \in R,
         NEW n \in Nat, n <= Len(h[f])
  PROVE  SlotIn(h, m, R, SliceAt(f, n))
BY DEF SlotIn, ValueIn, SliceAt, Value

LEMMA ListAllocated ==
  ASSUME NEW h, NEW m, NEW R, HeapOK(h, m), Region(h, R), NEW f \in Nat, f \notin DOMAIN h,
         NEW o, MayBe(m, f, o, m), SlotsIn(h, m, R, o), NEW h1, h1 = With(h, f, o)
  PROVE  /\ Edits(h, m, h1, m, R) /\ Grown(h, h1, R) = R \cup {f}
         /\ f \in DOMAIN h1 \ m /\ h1[f] = o
         /\ \A s \in DOMAIN h : h1[s] = h[s]
<1>1. DOMAIN h1 = DOMAIN h \cup {f} /\ h1[f] = o /\ \A s \in DOMAIN h : h1[s] = h[s]
  BY DEF With
<1>2. Edits(h, m, h1, m, R) /\ Grown(h, h1, R) = R \cup {f} /\ Region(h1, R \cup {f})
  BY AllocateEdits
<1>. QED  BY <1>1, <1>2 DEF HeapOK

LEMMA ListTransformed ==
  ASSUME NEW h, NEW m, NEW R, HeapOK(h, m), Region(h, R), NEW w, SlotIn(h, m, R, w)
  PROVE  Transformed(h, m, R, ListOf(h, <<w>>))
<1>. DEFINE f == Fresh(h)
            o == <<w>>
            t == ListOf(h, <<w>>)
<1>1. f \in Nat /\ f \notin DOMAIN h
  BY FreshIsNew DEF HeapOK
<1>2. t.ok = TRUE /\ t.value = SliceAt(f, 1) /\ t.heap = With(h, f, o)
  BY DEF ListOf, New
<1>3. MayBe(m, f, o, m)
  BY DEF SlotIn, ValueIn, MayBe
<1>4. Len(o) = 1 /\ SlotsIn(h, m, R, o)
  BY DEF SlotsIn
<1>. HIDE DEF f, t, o
<1>5. /\ Edits(h, m, t.heap, m, R) /\ Grown(h, t.heap, R) = R \cup {f}
      /\ f \in DOMAIN t.heap \ m /\ t.heap[f] = o
      /\ \A s \in DOMAIN h : t.heap[s] = h[s]
  BY <1>1, <1>2, <1>3, <1>4, ListAllocated
<1>6. SlotIn(t.heap, m, Grown(h, t.heap, R), t.value)
  BY <1>1, <1>2, <1>4, <1>5, SliceIn
<1>. QED  BY <1>2, <1>5, <1>6 DEF Transformed, t

LEMMA OperationTransforms ==
  ASSUME NEW h, NEW m, NEW R, HeapOK(h, m), Region(h, R), NEW v, SlotIn(h, m, R, v),
         NEW op, NEW o \in ApplyTransformOp(h, v, op)
  PROVE  Transformed(h, m, R, o)
<1>1. SlotIn(h, m, R, Scalar)
  BY DEF SlotIn, ValueIn, Scalar, Value, IsContainer
<1>2. \/ o \in {[ok |-> TRUE, value |-> w, heap |-> h] : w \in {v, Scalar}}
      \/ o = [ok |-> FALSE, value |-> v, heap |-> h]
      \/ o = ListOf(h, <<v>>)
  BY DEF ApplyTransformOp
<1>. QED  BY <1>1, <1>2, SameTransformed, ListTransformed

(* The recursive function of ApplyTransforms.                              *)
Outs(h, v, ops) ==
    CHOOSE w : w = [i \in 0 .. Len(ops) |->
                      IF i = 0 THEN {[ok |-> TRUE, value |-> v, heap |-> h]}
                      ELSE Applied(w[i - 1], ops[i])]

LEMMA OutsIs ==
  ASSUME NEW h, NEW v, NEW ops \in Seq(Operations)
  PROVE  /\ ApplyTransforms(h, v, ops) = Outs(h, v, ops)[Len(ops)]
         /\ Outs(h, v, ops)[0] = {[ok |-> TRUE, value |-> v, heap |-> h]}
         /\ \A i \in 1 .. Len(ops) :
               Outs(h, v, ops)[i] = Applied(Outs(h, v, ops)[i - 1], ops[i])
<1>. DEFINE b == {[ok |-> TRUE, value |-> v, heap |-> h]}
            Eqn(w, k) == w = [i \in 0 .. k |-> IF i = 0 THEN b ELSE Applied(w[i - 1], ops[i])]
            S == {k \in Nat : \E w : Eqn(w, k)}
<1>1. Outs(h, v, ops) = CHOOSE w : Eqn(w, Len(ops))
  BY DEF Outs
<1>2. ApplyTransforms(h, v, ops) = Outs(h, v, ops)[Len(ops)]
  BY DEF ApplyTransforms, Outs
<1>. HIDE DEF b, Outs
<1>3. 0 \in S
  <2>1. Eqn([i \in 0 .. 0 |-> b], 0)
    BY SMT
  <2>. QED  BY <2>1
<1>4. ASSUME NEW k \in Nat, k \in S  PROVE k + 1 \in S
  <2>1. PICK w : Eqn(w, k)
    BY <1>4
  <2>. DEFINE W == [i \in 0 .. k + 1 |-> IF i = k + 1 THEN Applied(w[k], ops[k + 1]) ELSE w[i]]
  <2>2. Eqn(W, k + 1)
    <3>1. W[k + 1] = Applied(w[k], ops[k + 1]) /\ \A i \in 0 .. k : W[i] = w[i]
      BY SMT
    <3>2. \A i \in 0 .. k : w[i] = IF i = 0 THEN b ELSE Applied(w[i - 1], ops[i])
      BY <2>1, SMT
    <3>3. W = [i \in 0 .. k + 1 |-> W[i]]
      OBVIOUS
    <3>. HIDE DEF W
    <3>4. \A i \in 0 .. k + 1 : W[i] = IF i = 0 THEN b ELSE Applied(W[i - 1], ops[i])
      <4>. SUFFICES ASSUME NEW i \in 0 .. k + 1
                    PROVE  W[i] = IF i = 0 THEN b ELSE Applied(W[i - 1], ops[i])
        OBVIOUS
      <4>1. CASE i = k + 1
        <5>1. i # 0 /\ i - 1 = k /\ k \in 0 .. k
          BY <4>1
        <5>. QED  BY <4>1, <5>1, <3>1
      <4>2. CASE i = 0
        BY <4>2, <3>1, <3>2
      <4>3. CASE i # 0 /\ i # k + 1
        <5>1. i \in 0 .. k /\ i - 1 \in 0 .. k
          BY <4>3
        <5>. QED  BY <4>3, <5>1, <3>1, <3>2
      <4>. QED  BY <4>1, <4>2, <4>3
    <3>. QED  BY <3>3, <3>4
  <2>3. \E u : Eqn(u, k + 1)
    <3>. HIDE DEF W, Eqn
    <3>. WITNESS W
    <3>. QED  BY <2>2
  <2>4. k + 1 \in Nat
    OBVIOUS
  <2>. HIDE DEF Eqn
  <2>. QED  BY <2>3, <2>4
<1>5. \A k \in Nat : k \in S
  <2>. HIDE DEF S
  <2>. QED  BY <1>3, <1>4, Counting
<1>6. Len(ops) \in Nat
  OBVIOUS
<1>7. \E w : Eqn(w, Len(ops))
  BY <1>5, <1>6
<1>8. Eqn(Outs(h, v, ops), Len(ops))
  <2>. HIDE DEF Eqn
  <2>. QED  BY <1>1, <1>7
<1>9. Outs(h, v, ops)[0] = b
  BY <1>6, <1>8, SMT
<1>10. ASSUME NEW i \in 1 .. Len(ops)
       PROVE  Outs(h, v, ops)[i] = Applied(Outs(h, v, ops)[i - 1], ops[i])
  <2>1. i \in 0 .. Len(ops) /\ i # 0
    BY <1>6
  <2>. QED  BY <1>8, <2>1
<1>. QED  BY <1>2, <1>9, <1>10 DEF b

(* Transformed, then transformed again.                                    *)
LEMMA TransformsOn ==
  ASSUME NEW h, NEW m, NEW R, HeapOK(h, m), Region(h, R),
         NEW p, Transformed(h, m, R, p), NEW op, NEW o \in ApplyTransformOp(p.heap, p.value, op)
  PROVE  Transformed(h, m, R, o)
<1>1. PICK m1 : Edits(h, m, p.heap, m1, R) /\ SlotIn(p.heap, m1, Grown(h, p.heap, R), p.value)
  BY DEF Transformed
<1>. DEFINE h1 == p.heap
            v1 == p.value
            h2 == o.heap
            R1 == Grown(h, h1, R)
<1>2. /\ Edits(h, m, h1, m1, R) /\ SlotIn(h1, m1, R1, v1) /\ Region(h1, R1) /\ HeapOK(h1, m1)
      /\ \A s \in DOMAIN h : h1[s] = h[s]
      /\ o \in ApplyTransformOp(h1, v1, op) /\ DOMAIN h \subseteq DOMAIN h1
  BY <1>1, GrownIsRegion DEF Edits, Transformed, Grows
<1>. HIDE DEF h1, v1
<1>3. Transformed(h1, m1, R1, o)
  <2>. HIDE DEF R1
  <2>. QED  BY <1>2, OperationTransforms
<1>4. PICK m2 : Edits(h1, m1, h2, m2, R1) /\ SlotIn(h2, m2, Grown(h1, h2, R1), o.value)
  BY <1>3 DEF Transformed
<1>5. o.ok \in BOOLEAN /\ \A s \in DOMAIN h : h2[s] = h[s]
  BY <1>2, <1>3 DEF Transformed
<1>6. Edits(h, m, h2, m2, R) /\ Grown(h1, h2, R1) = Grown(h, h2, R)
  <2>1. Edits(h, m, h2, m2, R)
    BY <1>2, <1>4, EditsOn
  <2>2. DOMAIN h1 \subseteq DOMAIN h2
    BY <1>4 DEF Edits, Grows
  <2>. QED  BY <2>1, <2>2, <1>2 DEF Grown
<1>. QED  BY <1>4, <1>5, <1>6 DEF Transformed

LEMMA TransformsTyped ==
  ASSUME NEW h, NEW m, NEW R, HeapOK(h, m), Region(h, R), NEW v, SlotIn(h, m, R, v),
         NEW ops \in Seq(Operations), NEW t \in ApplyTransforms(h, v, ops)
  PROVE  Transformed(h, m, R, t)
<1>. DEFINE w == Outs(h, v, ops)
            L == Len(ops)
            S == {i \in Nat : i <= L => \A o \in w[i] : Transformed(h, m, R, o)}
<1>1. /\ ApplyTransforms(h, v, ops) = w[L] /\ w[0] = {[ok |-> TRUE, value |-> v, heap |-> h]}
      /\ \A i \in 1 .. L : w[i] = Applied(w[i - 1], ops[i])
  BY OutsIs
<1>2. L \in Nat
  OBVIOUS
<1>. HIDE DEF w, L
<1>3. 0 \in S
  <2>. DEFINE o == [ok |-> TRUE, value |-> v, heap |-> h]
  <2>1. Transformed(h, m, R, o)
    <3>1. o.ok = TRUE /\ o.value = v /\ o.heap = h
      OBVIOUS
    <3>. HIDE DEF o
    <3>2. Edits(h, m, h, m, R) /\ Grown(h, h, R) = R
      BY NoEditAtAll
    <3>. QED  BY <3>1, <3>2 DEF Transformed
  <2>2. \A p \in w[0] : p = o
    BY <1>1
  <2>. HIDE DEF o
  <2>3. \A p \in w[0] : Transformed(h, m, R, p)
    BY <2>1, <2>2
  <2>. QED  BY <2>3
<1>4. ASSUME NEW i \in Nat, i \in S  PROVE i + 1 \in S
  <2>. SUFFICES ASSUME i + 1 <= L, NEW o \in w[i + 1]  PROVE Transformed(h, m, R, o)
    OBVIOUS
  <2>1. i + 1 \in 1 .. L /\ (i + 1) - 1 = i /\ i <= L
    BY <1>2
  <2>2. o \in Applied(w[i], ops[i + 1])
    BY <1>1, <2>1
  <2>3. PICK p \in w[i] : o \in IF p.ok THEN ApplyTransformOp(p.heap, p.value, ops[i + 1]) ELSE {p}
    BY <2>2 DEF Applied
  <2>4. Transformed(h, m, R, p)
    BY <1>4, <2>1, <2>3
  <2>5. CASE p.ok
    BY <2>3, <2>4, <2>5, TransformsOn
  <2>6. CASE ~p.ok
    BY <2>3, <2>4, <2>6
  <2>. QED  BY <2>5, <2>6
<1>5. \A i \in Nat : i \in S
  <2>. HIDE DEF S
  <2>. QED  BY <1>3, <1>4, Counting
<1>. QED  BY <1>1, <1>2, <1>5

-----------------------------------------------------------------------------
(* Records that come in, and what is left of the heap.                     *)

LEMMA ShiftIs ==
  ASSUME NEW v \in Value, NEW n \in Nat, NEW w, w = Shift(v, n)
  PROVE  /\ w \in Value /\ w.kind = v.kind /\ w.len = v.len
         /\ IsContainer(v) => w.ref = v.ref + n
BY DEF Shift, Value

(* The objects of a shape, among those of a heap.                          *)
Moved(maps, n) == {r + n : r \in maps}

(* A heap with the record of a shape, whose objects are above n.           *)
LoadedOn(h, shape, n, g) ==
    /\ DOMAIN g = DOMAIN h \cup (n + 1 .. n + Len(shape))
    /\ \A r \in DOMAIN h : g[r] = h[r]
    /\ \A s \in DOMAIN shape :
          /\ s + n \in DOMAIN g
          /\ g[s + n] = [k \in DOMAIN shape[s] |-> Shift(shape[s][k], n)]

(* The objects above n are as many as those of the shape.                  *)
Fits(h, shape, n) == DOMAIN shape = 1 .. Len(shape) /\ \A r \in DOMAIN h : r <= n

LEMMA LoadIs ==
  ASSUME NEW h, NEW m, HeapOK(h, m), DOMAIN h # {}, NEW shape, Decoded(shape)
  PROVE  /\ Max(DOMAIN h) \in Nat /\ Max(DOMAIN h) + 1 \in Nat
         /\ Fits(h, shape, Max(DOMAIN h))
         /\ LoadedOn(h, shape, Max(DOMAIN h), Load(h, shape))
<1>. DEFINE n == Max(DOMAIN h)
            g == Load(h, shape)
<1>1. n \in Nat /\ \A r \in DOMAIN h : r <= n
  BY GreatestNatural DEF HeapOK
<1>2. g = [r \in DOMAIN h \cup n + 1 .. n + Len(shape) |->
             IF r \in DOMAIN h THEN h[r]
             ELSE [k \in DOMAIN shape[r - n] |-> Shift(shape[r - n][k], n)]]
  BY DEF Load
<1>3. DOMAIN shape = 1 .. Len(shape) /\ Len(shape) \in Nat
  BY DEF Decoded
<1>. HIDE DEF n, g
<1>4. ASSUME NEW s \in DOMAIN shape
      PROVE  s + n \in DOMAIN g /\ g[s + n] = [k \in DOMAIN shape[s] |-> Shift(shape[s][k], n)]
  <2>1. s \in Nat /\ s + n \in n + 1 .. n + Len(shape) /\ s + n \notin DOMAIN h /\ (s + n) - n = s
    BY <1>1, <1>3
  <2>. QED  BY <2>1, <1>2
<1>. QED  BY <1>1, <1>2, <1>3, <1>4 DEF LoadedOn, Fits, n, g

(* One object of a shape, moved.                                           *)
LEMMA ObjectMoves ==
  ASSUME NEW o, NEW n \in Nat, NEW p, p = [k \in DOMAIN o |-> Shift(o[k], n)],
         IsMap(o) \/ IsArray(o)
  PROVE  /\ IsMap(o) => IsMap(p)
         /\ IsArray(o) => p \in Seq(Value) /\ o \in Seq(Value) /\ Len(p) = Len(o)
         /\ DOMAIN p = DOMAIN o
         /\ \A k \in DOMAIN o : o[k] \in Value /\ p[k] = Shift(o[k], n)
<1>1. \A k \in DOMAIN o : o[k] \in Value
  BY DEF IsMap, IsArray
<1>2. \A k \in DOMAIN o : Shift(o[k], n) \in Value
  BY <1>1, ShiftIs
<1>3. IsMap(o) => IsMap(p)
  BY <1>2 DEF IsMap
<1>4. ASSUME IsArray(o)  PROVE p \in Seq(Value) /\ o \in Seq(Value) /\ Len(p) = Len(o)
  <2>. DEFINE c == Cardinality(DOMAIN o)
  <2>1. c \in Nat
    BY <1>4, FS_CardinalityType DEF IsArray
  <2>2. o \in [1 .. c -> Value] /\ DOMAIN o = 1 .. c
    BY <1>4 DEF IsArray
  <2>3. p \in [1 .. c -> Value]
    BY <1>2, <2>2
  <2>. HIDE DEF c
  <2>4. \A f \in [1 .. c -> Value] : f \in Seq(Value) /\ Len(f) = c
    BY <2>1
  <2>. QED  BY <2>2, <2>3, <2>4
<1>. QED  BY <1>1, <1>3, <1>4

LEMMA LoadTyped ==
  ASSUME NEW h, NEW m, HeapOK(h, m), NEW shape, NEW maps \in SUBSET DOMAIN shape,
         Typed(shape, maps), NEW n \in Nat, Fits(h, shape, n),
         NEW g, LoadedOn(h, shape, n, g), NEW m1, m1 = m \cup Moved(maps, n)
  PROVE  HeapOK(g, m1) /\ m1 \cap DOMAIN h \subseteq m /\ ClosedIn(g, DOMAIN g \ DOMAIN h)
<1>. DEFINE L == Len(shape)
<1>0. L \in Nat /\ L = Len(shape) /\ DOMAIN shape = 1 .. L /\ \A r \in DOMAIN h : r <= n
  BY DEF Fits
<1>. HIDE DEF L
<1>. USE <1>0
<1>1. \A s \in DOMAIN shape :
         /\ s \in maps => IsMap(shape[s])
         /\ s \notin maps => IsArray(shape[s])
  BY DEF Typed
<1>2. \A s \in DOMAIN shape :
         /\ s \in maps => IsMap(g[s + n])
         /\ s \notin maps => g[s + n] \in Seq(Value) /\ Len(g[s + n]) = Len(shape[s])
         /\ DOMAIN g[s + n] = DOMAIN shape[s]
         /\ \A k \in DOMAIN shape[s] : shape[s][k] \in Value /\ g[s + n][k] = Shift(shape[s][k], n)
  <2>. SUFFICES ASSUME NEW s \in DOMAIN shape
                PROVE  /\ s \in maps => IsMap(g[s + n])
                       /\ s \notin maps => g[s + n] \in Seq(Value) /\ Len(g[s + n]) = Len(shape[s])
                       /\ DOMAIN g[s + n] = DOMAIN shape[s]
                       /\ \A k \in DOMAIN shape[s] : shape[s][k] \in Value /\ g[s + n][k] = Shift(shape[s][k], n)
    OBVIOUS
  <2>. DEFINE o == shape[s]
              p == g[s + n]
  <2>1. p = [k \in DOMAIN o |-> Shift(o[k], n)]
    BY DEF LoadedOn
  <2>2. (s \in maps => IsMap(o)) /\ (s \notin maps => IsArray(o))
    BY <1>1
  <2>. HIDE DEF o, p
  <2>3. /\ IsMap(o) => IsMap(p)
        /\ IsArray(o) => p \in Seq(Value) /\ Len(p) = Len(o)
        /\ DOMAIN p = DOMAIN o
        /\ \A k \in DOMAIN o : o[k] \in Value /\ p[k] = Shift(o[k], n)
    BY <2>1, <2>2, ObjectMoves
  <2>4. /\ s \in maps => IsMap(p)
        /\ s \notin maps => p \in Seq(Value) /\ Len(p) = Len(o)
    BY <2>2, <2>3
  <2>. QED  BY <2>3, <2>4 DEF o, p
<1>3. \A x \in DOMAIN g \ DOMAIN h : x - n \in DOMAIN shape /\ (x - n) + n = x
  BY DEF LoadedOn
<1>4. \A s \in DOMAIN shape : s + n \in DOMAIN g \ DOMAIN h
  BY DEF LoadedOn
<1>5. \A s \in DOMAIN shape : s + n \in m1 <=> s \in maps
  <2>. SUFFICES ASSUME NEW s \in DOMAIN shape  PROVE s + n \in m1 <=> s \in maps
    OBVIOUS
  <2>1. s + n \notin m
    BY <1>4 DEF HeapOK
  <2>2. s + n \in Moved(maps, n) => s \in maps
    <3>. SUFFICES ASSUME NEW r \in maps, s + n = r + n  PROVE s = r
      BY DEF Moved
    <3>. QED  OBVIOUS
  <2>3. s \in maps => s + n \in Moved(maps, n)
    BY DEF Moved
  <2>. QED  BY <2>1, <2>2, <2>3
<1>6. \A x \in DOMAIN h : x \in m1 <=> x \in m
  <2>. SUFFICES ASSUME NEW x \in DOMAIN h, x \in Moved(maps, n)  PROVE FALSE
    OBVIOUS
  <2>1. PICK r \in maps : x = r + n
    BY DEF Moved
  <2>. QED  BY <2>1, <1>4
<1>7. m1 \subseteq DOMAIN g
  BY <1>4 DEF Moved, HeapOK, LoadedOn
<1>8. ASSUME NEW s \in DOMAIN shape, NEW k \in DOMAIN shape[s]
      PROVE  /\ ValueIn(g, m1, g[s + n][k])
             /\ IsContainer(g[s + n][k]) => g[s + n][k].ref \in DOMAIN g \ DOMAIN h
  <2>. DEFINE v == shape[s][k]
              w == g[s + n][k]
  <2>1. v \in Value /\ w = Shift(v, n)
    BY <1>2
  <2>2. /\ v.kind = "map" => v.ref \in maps
        /\ v.kind = "list" => v.ref \in DOMAIN shape \ maps /\ v.len <= Len(shape[v.ref])
    BY DEF Typed
  <2>. HIDE DEF v, w
  <2>3. w \in Value /\ w.kind = v.kind /\ w.len = v.len /\ (IsContainer(v) => w.ref = v.ref + n)
    BY <2>1, ShiftIs
  <2>4. ASSUME w.kind = "map"  PROVE w.ref \in m1 /\ w.ref \in DOMAIN g \ DOMAIN h
    <3>1. v.ref \in maps /\ w.ref = v.ref + n
      BY <2>4, <2>2, <2>3 DEF IsContainer
    <3>. QED  BY <3>1, <1>4, <1>5
  <2>5. ASSUME w.kind = "list"
        PROVE  /\ w.ref \in DOMAIN g \ m1 /\ w.ref \in DOMAIN g \ DOMAIN h
               /\ w.len <= Len(g[w.ref])
    <3>1. v.ref \in DOMAIN shape /\ v.ref \notin maps /\ w.ref = v.ref + n
      BY <2>5, <2>2, <2>3 DEF IsContainer
    <3>2. v.len <= Len(shape[v.ref])
      BY <2>5, <2>2, <2>3
    <3>3. Len(g[w.ref]) = Len(shape[v.ref])
      BY <3>1, <1>2
    <3>4. w.len <= Len(g[w.ref])
      BY <3>2, <3>3, <2>3
    <3>. QED  BY <3>1, <3>4, <1>4, <1>5
  <2>. QED  BY <2>3, <2>4, <2>5 DEF ValueIn, IsContainer, w
<1>9. ASSUME NEW x \in DOMAIN h, NEW k \in DOMAIN h[x]  PROVE ValueIn(g, m1, h[x][k])
  <2>1. ValueIn(h, m, h[x][k])
    BY DEF HeapOK
  <2>. DEFINE v == h[x][k]
  <2>2. v.kind = "list" => v.ref \in DOMAIN g \ m1 /\ v.len <= Len(g[v.ref])
    BY <2>1, <1>6 DEF ValueIn, LoadedOn
  <2>. QED  BY <2>1, <2>2 DEF ValueIn
<1>10. HeapOK(g, m1)
  <2>1. IsFiniteSet(DOMAIN g) /\ DOMAIN g \subseteq Nat
    <3>1. IsFiniteSet(n + 1 .. n + L)
      BY FS_Interval
    <3>2. IsFiniteSet(DOMAIN h \cup (n + 1 .. n + L))
      BY <3>1, FS_Union DEF HeapOK
    <3>. QED  BY <3>2 DEF HeapOK, LoadedOn
  <2>2. ASSUME NEW x \in DOMAIN g
        PROVE  /\ x \in m1 => IsMap(g[x])
               /\ x \notin m1 => g[x] \in Seq(Value)
               /\ \A k \in DOMAIN g[x] : ValueIn(g, m1, g[x][k])
    <3>1. CASE x \in DOMAIN h
      <4>1. g[x] = h[x]
        BY <3>1 DEF LoadedOn
      <4>. QED  BY <3>1, <4>1, <1>6, <1>9 DEF HeapOK
    <3>2. CASE x \notin DOMAIN h
      <4>. DEFINE s == x - n
      <4>1. s \in DOMAIN shape /\ s + n = x
        BY <3>2, <1>3
      <4>. HIDE DEF s
      <4>. QED  BY <4>1, <1>2, <1>5, <1>8
    <3>. QED  BY <3>1, <3>2
  <2>. QED  BY <2>1, <2>2, <1>7 DEF HeapOK
<1>11. ASSUME NEW x \in DOMAIN g \ DOMAIN h  PROVE Held(g, x) \subseteq DOMAIN g \ DOMAIN h
  <2>. DEFINE s == x - n
              Y == DOMAIN g \ DOMAIN h
  <2>1. s \in DOMAIN shape /\ s + n = x
    BY <1>3
  <2>. HIDE DEF s
  <2>2. \A k \in DOMAIN g[x] : IsContainer(g[x][k]) => g[x][k].ref \in Y
    BY <2>1, <1>2, <1>8
  <2>. HIDE DEF Y
  <2>3. Held(g, x) \subseteq Y
    BY <2>2, HeldIs
  <2>. QED  BY <2>3 DEF Y
<1>. QED  BY <1>6, <1>7, <1>10, <1>11 DEF ClosedIn, LoadedOn

(* Each of the objects A is held by one of them only, and by a map under   *)
(* one key only.                                                           *)
Sole(h, m, A) ==
    /\ Region(h, A)
    /\ \A r, s \in A : \A j \in DOMAIN h[r], k \in DOMAIN h[s] :
          IsContainer(h[r][j]) /\ IsContainer(h[s][k]) /\ h[r][j].ref = h[s][k].ref
             => r = s /\ (r \in m => j = k)

LEMMA LoadSole ==
  ASSUME NEW h, NEW m, HeapOK(h, m), NEW shape, Decoded(shape),
         NEW n \in Nat, NEW g, NEW m1, HeapOK(g, m1), LoadedOn(h, shape, n, g),
         ClosedIn(g, DOMAIN g \ DOMAIN h), Sole(h, m, DOMAIN h), m1 \cap DOMAIN h \subseteq m,
         Fits(h, shape, n)
  PROVE  Sole(g, m1, DOMAIN g)
<1>. DEFINE L == Len(shape)
<1>0. L \in Nat /\ L = Len(shape) /\ DOMAIN shape = 1 .. L /\ \A r \in DOMAIN h : r <= n
  BY DEF Fits
<1>. HIDE DEF L
<1>. USE <1>0
<1>1. ASSUME NEW s \in DOMAIN shape, NEW k \in DOMAIN g[s + n], IsContainer(g[s + n][k])
      PROVE  /\ k \in DOMAIN shape[s] /\ IsContainer(shape[s][k])
             /\ shape[s][k].ref \in Nat /\ g[s + n][k].ref = shape[s][k].ref + n
  <2>. DEFINE v == shape[s][k]
              w == g[s + n][k]
  <2>1. k \in DOMAIN shape[s] /\ w = Shift(v, n)
    BY <1>1 DEF LoadedOn
  <2>2. v \in Value
    BY <2>1 DEF Decoded, Typed, IsMap, IsArray
  <2>3. IsContainer(w)
    BY <1>1
  <2>. HIDE DEF v, w
  <2>4. w.kind = v.kind /\ (IsContainer(v) => w.ref = v.ref + n)
    BY <2>1, <2>2, ShiftIs
  <2>5. IsContainer(v) /\ v.ref \in Nat
    BY <2>2, <2>3, <2>4 DEF IsContainer, Value
  <2>. QED  BY <2>1, <2>4, <2>5 DEF v, w
<1>2. ASSUME NEW x \in DOMAIN g \ DOMAIN h
      PROVE  x - n \in DOMAIN shape /\ (x - n) + n = x
  BY DEF LoadedOn
<1>3. Region(g, DOMAIN g)
  BY DEF Region, ClosedIn, HeapOK, Held, ValueIn, IsContainer
<1>4. ASSUME NEW x \in DOMAIN h, NEW j \in DOMAIN g[x], IsContainer(g[x][j])
      PROVE  g[x] = h[x] /\ g[x][j].ref \in DOMAIN h
  <2>1. g[x] = h[x]
    BY DEF LoadedOn
  <2>2. ValueIn(h, m, h[x][j])
    BY <2>1, <1>4 DEF HeapOK
  <2>. QED  BY <2>1, <2>2, <1>4 DEF ValueIn, IsContainer, HeapOK
<1>5. ASSUME NEW x \in DOMAIN g \ DOMAIN h, NEW j \in DOMAIN g[x], IsContainer(g[x][j])
      PROVE  g[x][j].ref \notin DOMAIN h
  BY <1>5 DEF ClosedIn, Held
<1>. SUFFICES ASSUME NEW r \in DOMAIN g, NEW s \in DOMAIN g,
                     NEW j \in DOMAIN g[r], NEW k \in DOMAIN g[s],
                     IsContainer(g[r][j]), IsContainer(g[s][k]), g[r][j].ref = g[s][k].ref
              PROVE  r = s /\ (r \in m1 => j = k)
  BY <1>3 DEF Sole
<1>6. CASE r \in DOMAIN h /\ s \in DOMAIN h
  <2>1. g[r] = h[r] /\ g[s] = h[s]
    BY <1>6 DEF LoadedOn
  <2>. QED  BY <2>1, <1>6 DEF Sole
<1>7. CASE r \in DOMAIN h /\ s \notin DOMAIN h
  BY <1>4, <1>5, <1>7
<1>8. CASE r \notin DOMAIN h /\ s \in DOMAIN h
  BY <1>4, <1>5, <1>8
<1>9. CASE r \notin DOMAIN h /\ s \notin DOMAIN h
  <2>. DEFINE x == r - n
              y == s - n
  <2>1. x \in DOMAIN shape /\ x + n = r /\ y \in DOMAIN shape /\ y + n = s
    BY <1>2, <1>9
  <2>. HIDE DEF x, y
  <2>2. /\ j \in DOMAIN shape[x] /\ IsContainer(shape[x][j])
        /\ k \in DOMAIN shape[y] /\ IsContainer(shape[y][k])
        /\ shape[x][j].ref \in Nat /\ shape[y][k].ref \in Nat
        /\ g[r][j].ref = shape[x][j].ref + n /\ g[s][k].ref = shape[y][k].ref + n
    BY <2>1, <1>1
  <2>3. shape[x][j].ref = shape[y][k].ref
    <3>1. \A p, q \in Nat : p + n = q + n => p = q
      BY SMT
    <3>2. shape[x][j].ref + n = shape[y][k].ref + n
      BY <2>2
    <3>. QED  BY <2>2, <3>1, <3>2, Zenon
  <2>4. x = y /\ j = k
    BY <2>1, <2>2, <2>3 DEF Decoded
  <2>. QED  BY <2>1, <2>4
<1>. QED  BY <1>6, <1>7, <1>8, <1>9

(* Two objects reach nothing in common.                                    *)
Separate(h, r, s) ==
    \E B, C \in SUBSET DOMAIN h :
       ClosedIn(h, B) /\ ClosedIn(h, C) /\ r \in B /\ s \in C /\ B \cap C = {}

(* So many records were loaded on h.                                       *)
BatchOn(h, m, to, i) ==
    /\ DOMAIN h \subseteq DOMAIN to.heap /\ \A r \in DOMAIN h : to.heap[r] = h[r]
    /\ \E m1 : /\ HeapOK(to.heap, m1) /\ m \subseteq m1 /\ m1 \cap DOMAIN h \subseteq m
               /\ to.records \in Seq(m1) /\ Len(to.records) = i
               /\ Sole(h, m, DOMAIN h) => Sole(to.heap, m1, DOMAIN to.heap)
    /\ \A j, k \in 1 .. i : j # k => Separate(to.heap, to.records[j], to.records[k])

(* One more record.                                                        *)
LoadOne(to, shape) ==
    [heap |-> Load(to.heap, shape), records |-> Append(to.records, Max(DOMAIN to.heap) + 1)]

LEMMA ClosedStays ==
  ASSUME NEW h, NEW g, NEW B, ClosedIn(h, B), \A r \in B : g[r] = h[r]
  PROVE  ClosedIn(g, B)
BY DEF ClosedIn, Held

LEMMA SeparateStays ==
  ASSUME NEW h, NEW g, DOMAIN h \subseteq DOMAIN g, \A r \in DOMAIN h : g[r] = h[r],
         NEW r, NEW s, Separate(h, r, s)
  PROVE  Separate(g, r, s)
<1>1. PICK B, C \in SUBSET DOMAIN h :
         ClosedIn(h, B) /\ ClosedIn(h, C) /\ r \in B /\ s \in C /\ B \cap C = {}
  BY DEF Separate
<1>2. ClosedIn(g, B) /\ ClosedIn(g, C)
  BY <1>1, ClosedStays
<1>. QED  BY <1>1, <1>2 DEF Separate

LEMMA LoadOneOn ==
  ASSUME NEW h, NEW m, HeapOK(h, m), DOMAIN h # {}, NEW i \in Nat, NEW to, BatchOn(h, m, to, i),
         NEW shape, Decoded(shape), NEW up, up = LoadOne(to, shape)
  PROVE  BatchOn(h, m, up, i + 1)
<1>1. PICK m1 :
         /\ HeapOK(to.heap, m1) /\ m \subseteq m1 /\ m1 \cap DOMAIN h \subseteq m
         /\ to.records \in Seq(m1) /\ Len(to.records) = i
         /\ Sole(h, m, DOMAIN h) => Sole(to.heap, m1, DOMAIN to.heap)
  BY DEF BatchOn
<1>. DEFINE x == to.heap
            n == Max(DOMAIN x)
            g == Load(x, shape)
            rs == to.records
            us == Append(rs, n + 1)
<1>2. /\ DOMAIN h \subseteq DOMAIN x /\ \A r \in DOMAIN h : x[r] = h[r]
      /\ \A j, k \in 1 .. i : j # k => Separate(x, rs[j], rs[k])
      /\ HeapOK(x, m1) /\ rs \in Seq(m1) /\ Len(rs) = i
      /\ Sole(h, m, DOMAIN h) => Sole(x, m1, DOMAIN x)
  BY <1>1 DEF BatchOn
<1>3. up.heap = g /\ up.records = us
  BY DEF LoadOne
<1>. HIDE DEF x, rs
<1>4. DOMAIN x # {}
  BY <1>2
<1>5. n \in Nat /\ n + 1 \in Nat /\ Fits(x, shape, n) /\ LoadedOn(x, shape, n, g)
  BY <1>2, <1>4, LoadIs
<1>. HIDE DEF n, g
<1>6. PICK maps \in SUBSET DOMAIN shape : 1 \in maps /\ Typed(shape, maps)
  BY DEF Decoded
<1>. DEFINE m2 == m1 \cup Moved(maps, n)
<1>7. HeapOK(g, m2) /\ m2 \cap DOMAIN x \subseteq m1 /\ ClosedIn(g, DOMAIN g \ DOMAIN x)
  <2>1. m2 = m1 \cup Moved(maps, n)
    OBVIOUS
  <2>. HIDE DEF m2
  <2>. QED  BY <1>2, <1>5, <1>6, <2>1, LoadTyped
<1>8. 1 + n \in m2 /\ 1 + n = n + 1
  BY <1>5, <1>6 DEF Moved
<1>9. m1 \subseteq m2
  OBVIOUS
<1>. HIDE DEF m2
<1>10. Sole(h, m, DOMAIN h) => Sole(g, m2, DOMAIN g)
  BY <1>2, <1>5, <1>7, <1>9, LoadSole
<1>11. DOMAIN x \subseteq DOMAIN g /\ \A r \in DOMAIN x : g[r] = x[r]
  BY <1>5 DEF LoadedOn
<1>12. /\ us \in Seq(m2) /\ Len(us) = i + 1 /\ us[i + 1] = n + 1
       /\ \A j \in 1 .. i : us[j] = rs[j] /\ us[j] \in DOMAIN x
  <2>1. rs \in Seq(m2)
    BY <1>2, <1>9
  <2>2. \A j \in 1 .. i : rs[j] \in DOMAIN x
    BY <1>2 DEF HeapOK
  <2>. QED  BY <2>1, <2>2, <1>2, <1>8
<1>13. n + 1 \in DOMAIN g \ DOMAIN x
  BY <1>5, <1>7, <1>8 DEF HeapOK, Fits
<1>14. ClosedIn(g, DOMAIN x)
  <2>1. ClosedIn(x, DOMAIN x)
    BY <1>2 DEF ClosedIn, HeapOK, Held, ValueIn, IsContainer
  <2>. QED  BY <2>1, <1>11, ClosedStays
<1>15. \A j \in 1 .. i : Separate(g, us[j], us[i + 1]) /\ Separate(g, us[i + 1], us[j])
  BY <1>7, <1>11, <1>12, <1>13, <1>14 DEF Separate
<1>16. \A j, k \in 1 .. i : j # k => Separate(g, us[j], us[k])
  BY <1>2, <1>11, <1>12, SeparateStays
<1>. HIDE DEF us
<1>17. \A j, k \in 1 .. i + 1 : j # k => Separate(g, us[j], us[k])
  <2>1. \A j \in 1 .. i + 1 : j \in 1 .. i \/ j = i + 1
    OBVIOUS
  <2>. QED  BY <2>1, <1>15, <1>16
<1>18. DOMAIN h \subseteq DOMAIN g /\ \A r \in DOMAIN h : g[r] = h[r]
  BY <1>2, <1>11
<1>19. m \subseteq m2 /\ m2 \cap DOMAIN h \subseteq m
  BY <1>1, <1>2, <1>7, <1>9
<1>. QED  BY <1>3, <1>7, <1>10, <1>12, <1>17, <1>18, <1>19 DEF BatchOn

(* The recursive function of LoadBatch.                                    *)
Loaded(h, shape) ==
    CHOOSE w : w = [i \in 0 .. BatchSize |->
                      IF i = 0 THEN [heap |-> h, records |-> <<>>]
                      ELSE LoadOne(w[i - 1], shape)]

LEMMA LoadedIs ==
  ASSUME NEW h, NEW shape
  PROVE  /\ LoadBatch(h, shape) = Loaded(h, shape)[BatchSize]
         /\ Loaded(h, shape)[0] = [heap |-> h, records |-> <<>>]
         /\ \A i \in 1 .. BatchSize :
               Loaded(h, shape)[i] = LoadOne(Loaded(h, shape)[i - 1], shape)
<1>. DEFINE b == [heap |-> h, records |-> <<>>]
            Eqn(w, k) == w = [i \in 0 .. k |-> IF i = 0 THEN b ELSE LoadOne(w[i - 1], shape)]
            S == {k \in Nat : \E w : Eqn(w, k)}
<1>1. Loaded(h, shape) = CHOOSE w : Eqn(w, BatchSize)
  BY DEF Loaded
<1>2. LoadBatch(h, shape) = Loaded(h, shape)[BatchSize]
  BY DEF LoadBatch, Loaded, LoadOne
<1>. HIDE DEF b, Loaded
<1>3. 0 \in S
  <2>1. Eqn([i \in 0 .. 0 |-> b], 0)
    BY SMT
  <2>. QED  BY <2>1
<1>4. ASSUME NEW k \in Nat, k \in S  PROVE k + 1 \in S
  <2>1. PICK w : Eqn(w, k)
    BY <1>4
  <2>. DEFINE W == [i \in 0 .. k + 1 |-> IF i = k + 1 THEN LoadOne(w[k], shape) ELSE w[i]]
  <2>2. Eqn(W, k + 1)
    <3>1. W[k + 1] = LoadOne(w[k], shape) /\ \A i \in 0 .. k : W[i] = w[i]
      BY SMT
    <3>2. \A i \in 0 .. k : w[i] = IF i = 0 THEN b ELSE LoadOne(w[i - 1], shape)
      BY <2>1, SMT
    <3>3. W = [i \in 0 .. k + 1 |-> W[i]]
      OBVIOUS
    <3>. HIDE DEF W
    <3>4. \A i \in 0 .. k + 1 : W[i] = IF i = 0 THEN b ELSE LoadOne(W[i - 1], shape)
      <4>. SUFFICES ASSUME NEW i \in 0 .. k + 1
                    PROVE  W[i] = IF i = 0 THEN b ELSE LoadOne(W[i - 1], shape)
        OBVIOUS
      <4>1. CASE i = k + 1
        <5>1. i # 0 /\ i - 1 = k /\ k \in 0 .. k
          BY <4>1
        <5>. QED  BY <4>1, <5>1, <3>1
      <4>2. CASE i = 0
        BY <4>2, <3>1, <3>2
      <4>3. CASE i # 0 /\ i # k + 1
        <5>1. i \in 0 .. k /\ i - 1 \in 0 .. k
          BY <4>3
        <5>. QED  BY <4>3, <5>1, <3>1, <3>2
      <4>. QED  BY <4>1, <4>2, <4>3
    <3>. QED  BY <3>3, <3>4
  <2>3. \E u : Eqn(u, k + 1)
    <3>. HIDE DEF W, Eqn
    <3>. WITNESS W
    <3>. QED  BY <2>2
  <2>4. k + 1 \in Nat
    OBVIOUS
  <2>. HIDE DEF Eqn
  <2>. QED  BY <2>3, <2>4
<1>5. \A k \in Nat : k \in S
  <2>. HIDE DEF S
  <2>. QED  BY <1>3, <1>4, Counting
<1>6. BatchSize \in Nat
  BY RecordEditsAssumption
<1>7. \E w : Eqn(w, BatchSize)
  BY <1>5, <1>6
<1>8. Eqn(Loaded(h, shape), BatchSize)
  <2>. HIDE DEF Eqn
  <2>. QED  BY <1>1, <1>7
<1>9. Loaded(h, shape)[0] = b
  BY <1>6, <1>8, SMT
<1>10. ASSUME NEW i \in 1 .. BatchSize
       PROVE  Loaded(h, shape)[i] = LoadOne(Loaded(h, shape)[i - 1], shape)
  <2>1. i \in 0 .. BatchSize /\ i # 0
    BY <1>6
  <2>. QED  BY <1>8, <2>1
<1>. QED  BY <1>2, <1>9, <1>10 DEF b

(* A batch is loaded.                                                      *)
LEMMA BatchLoaded ==
  ASSUME NEW h, NEW m, HeapOK(h, m), DOMAIN h # {}, NEW shape \in Shapes,
         NEW b, b = LoadBatch(h, shape)
  PROVE  BatchOn(h, m, b, BatchSize)
<1>. DEFINE w == Loaded(h, shape)
            S == {i \in Nat : i <= BatchSize => BatchOn(h, m, w[i], i)}
<1>1. /\ b = w[BatchSize] /\ w[0] = [heap |-> h, records |-> <<>>]
      /\ \A i \in 1 .. BatchSize : w[i] = LoadOne(w[i - 1], shape)
  BY LoadedIs
<1>2. BatchSize \in Nat /\ Decoded(shape)
  BY RecordEditsAssumption
<1>. HIDE DEF w
<1>3. 0 \in S
  <2>1. w[0].heap = h /\ w[0].records = <<>>
    BY <1>1
  <2>2. <<>> \in Seq(m) /\ Len(<<>>) = 0 /\ 1 .. 0 = {}
    OBVIOUS
  <2>3. m \subseteq m /\ m \cap DOMAIN h \subseteq m
    OBVIOUS
  <2>4. BatchOn(h, m, w[0], 0)
    BY <2>1, <2>2, <2>3 DEF BatchOn
  <2>. QED  BY <2>4
<1>4. ASSUME NEW i \in Nat, i \in S  PROVE i + 1 \in S
  <2>. SUFFICES ASSUME i + 1 <= BatchSize  PROVE BatchOn(h, m, w[i + 1], i + 1)
    OBVIOUS
  <2>1. i + 1 \in 1 .. BatchSize /\ (i + 1) - 1 = i /\ i <= BatchSize
    BY <1>2
  <2>2. w[i + 1] = LoadOne(w[i], shape) /\ BatchOn(h, m, w[i], i)
    BY <1>1, <1>4, <2>1
  <2>. QED  BY <2>2, <1>2, LoadOneOn
<1>5. \A i \in Nat : i \in S
  <2>. HIDE DEF S
  <2>. QED  BY <1>3, <1>4, Counting
<1>. QED  BY <1>1, <1>2, <1>5

(* What Live keeps is as it was.                                           *)
Lives(h, g, roots) ==
    /\ DOMAIN g \subseteq DOMAIN h /\ Literals \cup roots \subseteq DOMAIN g
    /\ \A r \in DOMAIN g : g[r] = h[r] /\ Held(g, r) = Held(h, r)
    /\ ClosedIn(h, DOMAIN g)

LEMMA LiveIs ==
  ASSUME NEW h, NEW m, HeapOK(h, m), Literals \subseteq DOMAIN h,
         NEW roots \in SUBSET DOMAIN h, NEW g, g = Live(h, roots)
  PROVE  HeapOK(g, m \cap DOMAIN g) /\ Lives(h, g, roots)
<1>. DEFINE m1 == m \cap DOMAIN g
<1>. DEFINE A == Reach(h, Literals \cup roots)
<1>1. ClosedIn(h, DOMAIN h) /\ IsFiniteSet(DOMAIN h)
  BY DEF ClosedIn, HeapOK, Held, ValueIn, IsContainer
<1>2. Literals \cup roots \subseteq A /\ A \subseteq DOMAIN h /\ ClosedIn(h, A)
  BY <1>1, ReachIsClosed
<1>3. DOMAIN g = A /\ \A r \in A : g[r] = h[r]
  BY DEF Live
<1>. HIDE DEF A
<1>4. \A r \in A : Held(g, r) = Held(h, r)
  BY <1>3 DEF Held
<1>. HIDE DEF m1
<1>5. ASSUME NEW r \in A, NEW k \in DOMAIN g[r]  PROVE ValueIn(g, m1, g[r][k])
  <2>. DEFINE v == g[r][k]
  <2>1. ValueIn(h, m, v) /\ v = h[r][k] /\ k \in DOMAIN h[r]
    BY <1>2, <1>3 DEF HeapOK
  <2>2. IsContainer(v) => v.ref \in A
    BY <2>1, <1>2 DEF ClosedIn, Held
  <2>. HIDE DEF v
  <2>. QED  BY <2>1, <2>2, <1>2, <1>3 DEF ValueIn, IsContainer, m1
<1>6. HeapOK(g, m1)
  <2>1. IsFiniteSet(A)
    BY <1>1, <1>2, FS_Subset
  <2>. QED  BY <2>1, <1>2, <1>3, <1>5 DEF HeapOK, m1
<1>. QED  BY <1>2, <1>3, <1>4, <1>6 DEF A, Lives, m1

LEMMA ClosedLives ==
  ASSUME NEW h, NEW g, \A r \in DOMAIN g : Held(g, r) = Held(h, r), ClosedIn(h, DOMAIN g),
         NEW S, ClosedIn(h, S)
  PROVE  ClosedIn(g, S \cap DOMAIN g)
BY DEF ClosedIn

-----------------------------------------------------------------------------
(* What the records of a batch share.                                      *)

(* Two of the records have nothing in common outside G.                    *)
SharedIn(h, recs, G) ==
    \A i, j \in DOMAIN recs :
       i # j => Reach(h, {recs[i]}) \cap Reach(h, {recs[j]}) \subseteq G

(* Two objects reach nothing in common outside G.                          *)
MeetIn(h, r, s, G) == Reach(h, {r}) \cap Reach(h, {s}) \subseteq G

ReachesIn(h, s, W) == Reach(h, {s}) \subseteq W

LEMMA HeapIsClosed == ASSUME NEW h, NEW m, HeapOK(h, m)  PROVE ClosedIn(h, DOMAIN h)
BY DEF ClosedIn, HeapOK, Held, ValueIn, IsContainer

LEMMA OneReach ==
  ASSUME NEW h, NEW m, HeapOK(h, m), NEW r \in DOMAIN h
  PROVE  r \in Reach(h, {r}) /\ Region(h, Reach(h, {r}))
<1>1. {r} \subseteq DOMAIN h /\ IsFiniteSet(DOMAIN h) /\ ClosedIn(h, DOMAIN h)
  BY HeapIsClosed DEF HeapOK
<1>2. /\ {r} \subseteq Reach(h, {r}) /\ Reach(h, {r}) \subseteq DOMAIN h
      /\ ClosedIn(h, Reach(h, {r}))
  BY <1>1, ReachIsClosed
<1>. QED  BY <1>2 DEF Region

LEMMA UnionIsRegion ==
  ASSUME NEW h, NEW P, NEW Q, Region(h, P), Region(h, Q)
  PROVE  Region(h, P \cup Q)
BY DEF Region, ClosedIn

(* Another record reaches what it did, or what the edit made reachable     *)
(* from G.                                                                 *)
LEMMA OthersReach ==
  ASSUME NEW h, NEW m, HeapOK(h, m), NEW G, Region(h, G), NEW r \in DOMAIN h, NEW s \in DOMAIN h,
         MeetIn(h, r, s, G),
         NEW h1, NEW m1, NEW R, R = Reach(h, {r}) \cup G, Edits(h, m, h1, m1, R),
         NEW G1, G \in SUBSET G1, ClosedIn(h1, G1)
  PROVE  ReachesIn(h1, s, (Reach(h, {s}) \ G) \cup G1)
<1>. DEFINE W == (Reach(h, {s}) \ G) \cup G1
<1>1. s \in Reach(h, {s}) /\ Region(h, Reach(h, {s}))
  BY OneReach
<1>2. {s} \subseteq W
  BY <1>1
<1>3. ASSUME NEW x \in W  PROVE Held(h1, x) \subseteq W
  <2>1. CASE x \in G1
    BY <2>1 DEF ClosedIn
  <2>2. CASE x \notin G1
    <3>1. x \in Reach(h, {s}) /\ x \notin R /\ x \in DOMAIN h
      BY <1>1, <2>2 DEF Region, MeetIn
    <3>2. h1[x] = h[x]
      BY <3>1 DEF Edits
    <3>3. Held(h1, x) = Held(h, x)
      BY <3>2 DEF Held
    <3>. QED  BY <1>1, <3>1, <3>3 DEF Region, ClosedIn
  <2>. QED  BY <2>1, <2>2
<1>4. ClosedIn(h1, W)
  BY <1>3 DEF ClosedIn
<1>5. IsFiniteSet(DOMAIN h1)
  BY DEF Edits, HeapOK
<1>. HIDE DEF W
<1>6. Reach(h1, {s}) \subseteq W
  BY <1>2, <1>4, <1>5, ReachIsLeast
<1>. QED  BY <1>6 DEF W, ReachesIn

(* Record p of a batch, and what its edit may change.                      *)
InBatch(m, recs, p) == recs \in Seq(m) /\ p \in DOMAIN recs

EditRegion(h, recs, p, G) == Reach(h, {recs[p]}) \cup G

LEMMA SharedKept ==
  ASSUME NEW h, NEW m, HeapOK(h, m), NEW G, Region(h, G), NEW recs, NEW p, InBatch(m, recs, p),
         SharedIn(h, recs, G), NEW R, R = EditRegion(h, recs, p, G), NEW h1, NEW m1, Edits(h, m, h1, m1, R),
         NEW G1, G1 = Reach(h1, G)
  PROVE  G \subseteq G1 /\ Region(h1, G1) /\ SharedIn(h1, recs, G1)
<1>. recs \in Seq(m) /\ p \in DOMAIN recs /\ R = Reach(h, {recs[p]}) \cup G
  BY DEF InBatch, EditRegion
<1>1. /\ HeapOK(h1, m1) /\ IsFiniteSet(DOMAIN h1) /\ ClosedIn(h1, DOMAIN h1)
      /\ G \subseteq DOMAIN h1 /\ DOMAIN h \subseteq DOMAIN h1
  BY HeapIsClosed DEF Edits, HeapOK, Grows, Region
<1>2. G \subseteq G1 /\ G1 \subseteq DOMAIN h1 /\ ClosedIn(h1, G1)
  BY <1>1, ReachIsClosed
<1>3. \A i \in DOMAIN recs : recs[i] \in DOMAIN h
  BY DEF HeapOK
<1>4. ASSUME NEW j \in DOMAIN recs, j # p
      PROVE  Reach(h1, {recs[j]}) \subseteq (Reach(h, {recs[j]}) \ G) \cup G1
  <2>. DEFINE r == recs[p]
              s == recs[j]
  <2>1. r \in DOMAIN h /\ s \in DOMAIN h /\ MeetIn(h, r, s, G) /\ R = Reach(h, {r}) \cup G
    BY <1>3, <1>4 DEF SharedIn, MeetIn
  <2>. HIDE DEF r, s
  <2>2. G \in SUBSET G1 /\ ClosedIn(h1, G1)
    BY <1>2
  <2>3. ReachesIn(h1, s, (Reach(h, {s}) \ G) \cup G1)
    BY <2>1, <2>2, OthersReach
  <2>. QED  BY <2>3 DEF s, ReachesIn
<1>5. Reach(h1, {recs[p]}) \subseteq Grown(h, h1, R)
  <2>1. {recs[p]} \subseteq Grown(h, h1, R)
    BY <1>3, OneReach DEF Grown
  <2>2. ClosedIn(h1, Grown(h, h1, R))
    BY DEF Edits
  <2>. QED  BY <1>1, <2>1, <2>2, ReachIsLeast
<1>6. ASSUME NEW j \in DOMAIN recs, j # p
      PROVE  Reach(h1, {recs[p]}) \cap Reach(h1, {recs[j]}) \subseteq G1
  <2>1. Reach(h, {recs[j]}) \subseteq DOMAIN h
    BY <1>3, OneReach DEF Region
  <2>2. Reach(h, {recs[p]}) \cap Reach(h, {recs[j]}) \subseteq G
    BY <1>6 DEF SharedIn
  <2>3. Reach(h1, {recs[j]}) \subseteq (Reach(h, {recs[j]}) \ G) \cup G1
    BY <1>4, <1>6
  <2>. QED  BY <1>5, <2>1, <2>2, <2>3 DEF Grown
<1>7. SharedIn(h1, recs, G1)
  <2>. SUFFICES ASSUME NEW i \in DOMAIN recs, NEW j \in DOMAIN recs, i # j
                PROVE  Reach(h1, {recs[i]}) \cap Reach(h1, {recs[j]}) \subseteq G1
    BY DEF SharedIn
  <2>1. CASE i = p
    BY <1>6, <2>1
  <2>2. CASE j = p
    BY <1>6, <2>2
  <2>3. CASE i # p /\ j # p
    <3>1. /\ Reach(h1, {recs[i]}) \subseteq (Reach(h, {recs[i]}) \ G) \cup G1
          /\ Reach(h1, {recs[j]}) \subseteq (Reach(h, {recs[j]}) \ G) \cup G1
      BY <1>4, <2>3
    <3>2. Reach(h, {recs[i]}) \cap Reach(h, {recs[j]}) \subseteq G
      BY DEF SharedIn
    <3>. QED  BY <3>1, <3>2
  <2>. QED  BY <2>1, <2>2, <2>3
<1>. QED  BY <1>2, <1>7 DEF Region

(* And after what nobody holds is gone.                                    *)
LEMMA SharedLives ==
  ASSUME NEW h, NEW m, HeapOK(h, m), Literals \subseteq DOMAIN h, NEW G, NEW recs, SharedIn(h, recs, G),
         ToSet(recs) \in SUBSET DOMAIN h, NEW g, g = Live(h, ToSet(recs))
  PROVE  SharedIn(g, recs, G \cap DOMAIN g)
<1>. DEFINE roots == ToSet(recs)
            m1 == m \cap DOMAIN g
<1>1. HeapOK(g, m1) /\ Lives(h, g, roots)
  BY LiveIs
<1>. HIDE DEF m1
<1>2. IsFiniteSet(DOMAIN g) /\ IsFiniteSet(DOMAIN h) /\ ClosedIn(h, DOMAIN h)
  BY <1>1, HeapIsClosed DEF HeapOK
<1>. USE DEF Lives
<1>3. ASSUME NEW i \in DOMAIN recs
      PROVE  Reach(g, {recs[i]}) \subseteq Reach(h, {recs[i]}) \cap DOMAIN g
  <2>. DEFINE r == recs[i]
              W == Reach(h, {r})
  <2>1. r \in DOMAIN g
    BY <1>1 DEF ToSet
  <2>2. r \in W /\ ClosedIn(h, W)
    BY <2>1, <1>1, OneReach DEF Region
  <2>. HIDE DEF W, r
  <2>3. ClosedIn(g, W \cap DOMAIN g)
    BY <1>1, <2>2, ClosedLives
  <2>4. {r} \subseteq W \cap DOMAIN g
    BY <2>1, <2>2
  <2>5. Reach(g, {r}) \subseteq W \cap DOMAIN g
    BY <1>2, <2>3, <2>4, ReachIsLeast
  <2>. QED  BY <2>5 DEF W, r
<1>. SUFFICES ASSUME NEW i \in DOMAIN recs, NEW j \in DOMAIN recs, i # j
              PROVE  Reach(g, {recs[i]}) \cap Reach(g, {recs[j]}) \subseteq G \cap DOMAIN g
  BY DEF SharedIn
<1>4. Reach(h, {recs[i]}) \cap Reach(h, {recs[j]}) \subseteq G
  BY DEF SharedIn
<1>. QED  BY <1>3, <1>4

-----------------------------------------------------------------------------
(* An edit that writes no object that is held already holds none twice.    *)

(* The objects F hold nothing and are not among A.                         *)
Bare(h, A, F) == F \subseteq DOMAIN h \ A /\ \A x \in F : Held(h, x) = {}

(* What the object o, in r's place, holds: as r did, or under the key one  *)
(* of F.                                                                   *)
HoldsAs(h, m, r, o, key, F) ==
    \A k \in DOMAIN o : IsContainer(o[k]) =>
       \/ o[k].ref \in F /\ k = key
       \/ /\ o[k].ref \in Held(h, r)
          /\ r \in m => k \in DOMAIN h[r] /\ IsContainer(h[r][k]) /\ h[r][k].ref = o[k].ref

LEMMA SlotOf ==
  ASSUME NEW h, NEW r, NEW x \in Held(h, r)
  PROVE  \E k \in DOMAIN h[r] : IsContainer(h[r][k]) /\ h[r][k].ref = x
BY DEF Held

LEMMA HeldBy ==
  ASSUME NEW h, NEW r, NEW k \in DOMAIN h[r], IsContainer(h[r][k])
  PROVE  h[r][k].ref \in Held(h, r)
BY DEF Held

LEMMA SoleReplaced ==
  ASSUME NEW h, NEW m, NEW A, Sole(h, m, A), NEW r \in A, NEW o, NEW key, NEW F, Bare(h, A, F),
         HoldsAs(h, m, r, o, key, F),
         NEW h1, DOMAIN h1 = DOMAIN h, h1[r] = o, \A s \in DOMAIN h : s # r => h1[s] = h[s]
  PROVE  Sole(h1, m, A \cup F)
<1>1. A \subseteq DOMAIN h /\ ClosedIn(h, A)
  BY DEF Sole, Region
<1>2. \A x \in A : x # r => h1[x] = h[x]
  BY <1>1
<1>3. \A x \in F : h1[x] = h[x] /\ x \notin A /\ x \in DOMAIN h
  BY DEF Bare
<1>4. ASSUME NEW x \in F, NEW k \in DOMAIN h1[x], IsContainer(h1[x][k])  PROVE FALSE
  BY <1>3, <1>4, HeldBy DEF Bare
<1>5. ASSUME NEW x \in A, NEW k \in DOMAIN h1[x], IsContainer(h1[x][k])
      PROVE  \/ x = r /\ k = key /\ h1[x][k].ref \in F
             \/ /\ h1[x][k].ref \in Held(h, x)
                /\ x \in m => k \in DOMAIN h[x] /\ IsContainer(h[x][k]) /\ h[x][k].ref = h1[x][k].ref
  <2>1. CASE x = r
    BY <2>1, <1>5 DEF HoldsAs
  <2>2. CASE x # r
    BY <2>2, <1>2, <1>5, HeldBy
  <2>. QED  BY <2>1, <2>2
<1>6. \A x \in A : Held(h, x) \subseteq A
  BY <1>1 DEF ClosedIn
<1>7. ASSUME NEW x \in A \cup F  PROVE Held(h1, x) \subseteq A \cup F
  <2>1. CASE x \in A
    <3>. DEFINE B == A \cup F
    <3>1. \A k \in DOMAIN h1[x] : IsContainer(h1[x][k]) => h1[x][k].ref \in B
      BY <2>1, <1>5, <1>6
    <3>. HIDE DEF B
    <3>2. Held(h1, x) \subseteq B
      BY <3>1, HeldIs
    <3>. QED  BY <3>2 DEF B
  <2>2. CASE x \in F
    BY <2>2, <1>4, SlotOf
  <2>. QED  BY <2>1, <2>2
<1>8. Region(h1, A \cup F)
  BY <1>1, <1>3, <1>7 DEF Region, ClosedIn
<1>. SUFFICES ASSUME NEW x \in A \cup F, NEW y \in A \cup F,
                     NEW j \in DOMAIN h1[x], NEW k \in DOMAIN h1[y],
                     IsContainer(h1[x][j]), IsContainer(h1[y][k]), h1[x][j].ref = h1[y][k].ref
              PROVE  x = y /\ (x \in m => j = k)
  BY <1>8 DEF Sole
<1>9. x \in A /\ y \in A
  BY <1>4
<1>10. CASE h1[x][j].ref \in F
  <2>1. h1[x][j].ref \notin A
    BY <1>3, <1>10
  <2>2. x = r /\ j = key
    BY <1>5, <1>6, <1>9, <2>1
  <2>3. y = r /\ k = key
    BY <1>5, <1>6, <1>9, <2>1
  <2>. QED  BY <2>2, <2>3
<1>11. CASE h1[x][j].ref \notin F
  <2>1. /\ h1[x][j].ref \in Held(h, x) /\ h1[y][k].ref \in Held(h, y)
        /\ x \in m => j \in DOMAIN h[x] /\ IsContainer(h[x][j]) /\ h[x][j].ref = h1[x][j].ref
        /\ y \in m => k \in DOMAIN h[y] /\ IsContainer(h[y][k]) /\ h[y][k].ref = h1[y][k].ref
    BY <1>5, <1>9, <1>11
  <2>2. PICK j0 \in DOMAIN h[x] : IsContainer(h[x][j0]) /\ h[x][j0].ref = h1[x][j].ref
    BY <2>1, SlotOf
  <2>3. PICK k0 \in DOMAIN h[y] : IsContainer(h[y][k0]) /\ h[y][k0].ref = h1[y][k].ref
    BY <2>1, SlotOf
  <2>4. x = y
    BY <1>9, <2>2, <2>3 DEF Sole
  <2>5. ASSUME x \in m  PROVE j = k
    BY <2>1, <2>4, <2>5, <1>9 DEF Sole
  <2>. QED  BY <2>4, <2>5
<1>. QED  BY <1>10, <1>11

(* Elsewhere nothing matters.                                              *)
LEMMA SoleStays ==
  ASSUME NEW h, NEW m, NEW A, Sole(h, m, A), NEW h1, NEW m1, A \in SUBSET DOMAIN h1,
         \A x \in A : h1[x] = h[x], m1 \cap A \in SUBSET m
  PROVE  Sole(h1, m1, A)
<1>1. A \subseteq DOMAIN h /\ ClosedIn(h, A)
  BY DEF Sole, Region
<1>2. ClosedIn(h1, A)
  BY <1>1, ClosedStays
<1>3. Region(h1, A)
  BY <1>2 DEF Region
<1>4. \A r, s \in A : \A j \in DOMAIN h1[r], k \in DOMAIN h1[s] :
        IsContainer(h1[r][j]) /\ IsContainer(h1[s][k]) /\ h1[r][j].ref = h1[s][k].ref
           => r = s /\ (r \in m1 => j = k)
  BY DEF Sole
<1>. QED  BY <1>3, <1>4 DEF Sole

(* The list at r under the key was copied to f: nobody holds the old array *)
(* any more.                                                               *)
LEMMA SoleCopied ==
  ASSUME NEW h, NEW m, NEW A, Sole(h, m, A), NEW r \in A, r \in m,
         NEW key \in DOMAIN h[r], IsContainer(h[r][key]), NEW a, h[r][key].ref = a, a \notin m,
         NEW f, f \in DOMAIN h \ A, f \notin m, Held(h, f) \subseteq Held(h, a),
         NEW o, DOMAIN o = DOMAIN h[r], o[key].ref = f,
         \A k \in DOMAIN o : k # key => o[k] = h[r][k],
         NEW h1, DOMAIN h1 = DOMAIN h, h1[r] = o, \A s \in DOMAIN h : s # r => h1[s] = h[s]
  PROVE  Sole(h1, m, (A \ {a}) \cup {f})
<1>. DEFINE A1 == (A \ {a}) \cup {f}
<1>1. A \subseteq DOMAIN h /\ \A x \in A : Held(h, x) \subseteq A
  BY DEF Sole, Region, ClosedIn
<1>2. a \in A /\ a # r /\ f # r /\ f # a
  BY <1>1, HeldBy
<1>3. ASSUME NEW x \in A, a \in Held(h, x)  PROVE x = r
  <2>1. PICK k \in DOMAIN h[x] : IsContainer(h[x][k]) /\ h[x][k].ref = a
    BY <1>3, SlotOf
  <2>. QED  BY <2>1 DEF Sole
<1>4. ASSUME NEW k \in DOMAIN h[r], IsContainer(h[r][k]), h[r][k].ref = a  PROVE k = key
  BY <1>4 DEF Sole
<1>5. a \notin Held(h, a)
  BY <1>2, <1>3
(* What x held in h, or for f what a held.                                 *)
<1>. DEFINE Was(x) == IF x = f THEN a ELSE x
<1>6. ASSUME NEW x \in A1, NEW k \in DOMAIN h1[x], IsContainer(h1[x][k]), ~(x = r /\ k = key)
      PROVE  /\ h1[x][k].ref \in Held(h, Was(x)) /\ h1[x][k].ref \in A1 \ {f}
             /\ x # f => k \in DOMAIN h[x] /\ h[x][k] = h1[x][k]
  <2>1. CASE x = f
    <3>1. h1[f] = h[f]
      BY <1>2
    <3>2. h1[x][k].ref \in Held(h, f)
      BY <2>1, <3>1, <1>6, HeldBy
    <3>. QED  BY <2>1, <3>2, <1>1, <1>2, <1>5
  <2>2. CASE x = r
    <3>1. k \in DOMAIN h[r] /\ h1[x][k] = h[r][k] /\ x # f
      BY <2>2, <1>2, <1>6
    <3>2. h1[x][k].ref \in Held(h, r)
      BY <2>2, <3>1, <1>6, HeldBy
    <3>3. h1[x][k].ref # a
      BY <2>2, <3>1, <1>4, <1>6
    <3>. QED  BY <2>2, <3>1, <3>2, <3>3, <1>1
  <2>3. CASE x # f /\ x # r
    <3>1. x \in A /\ h1[x] = h[x]
      BY <2>3, <1>1
    <3>2. h1[x][k].ref \in Held(h, x)
      BY <3>1, <1>6, HeldBy
    <3>. QED  BY <2>3, <3>1, <3>2, <1>1, <1>3
  <2>. QED  BY <2>1, <2>2, <2>3
<1>7. h1[r][key].ref = f
  OBVIOUS
<1>8. Region(h1, A1)
  <2>1. A1 \subseteq DOMAIN h1
    BY <1>1
  <2>2. ASSUME NEW x \in A1  PROVE Held(h1, x) \subseteq A1
    <3>1. \A k \in DOMAIN h1[x] : IsContainer(h1[x][k]) => h1[x][k].ref \in A1
      BY <1>6, <1>7
    <3>. HIDE DEF A1
    <3>. QED  BY <3>1, HeldIs
  <2>. QED  BY <2>1, <2>2 DEF Region, ClosedIn
<1>9. ASSUME NEW x \in A1, NEW y \in A1, NEW j \in DOMAIN h1[x], NEW k \in DOMAIN h1[y],
             IsContainer(h1[x][j]), IsContainer(h1[y][k]), h1[x][j].ref = h1[y][k].ref
      PROVE  x = y /\ (x \in m => j = k)
  <2>1. CASE x = r /\ j = key
    <3>1. y = r /\ k = key
      BY <1>6, <1>7, <1>9, <2>1
    <3>. QED  BY <2>1, <3>1
  <2>2. CASE y = r /\ k = key
    <3>1. x = r /\ j = key
      BY <1>6, <1>7, <1>9, <2>2
    <3>. QED  BY <2>2, <3>1
  <2>3. CASE ~(x = r /\ j = key) /\ ~(y = r /\ k = key)
    <3>1. /\ h1[x][j].ref \in Held(h, Was(x)) /\ h1[y][k].ref \in Held(h, Was(y))
          /\ x # f => j \in DOMAIN h[x] /\ h[x][j] = h1[x][j]
          /\ y # f => k \in DOMAIN h[y] /\ h[y][k] = h1[y][k]
      BY <1>6, <1>9, <2>3
    <3>2. Was(x) \in A /\ Was(y) \in A
      BY <1>2
    <3>3. Was(x) = Was(y)
      <4>. HIDE DEF Was
      <4>1. PICK j0 \in DOMAIN h[Was(x)] :
               IsContainer(h[Was(x)][j0]) /\ h[Was(x)][j0].ref = h1[x][j].ref
        BY <3>1, SlotOf
      <4>2. PICK k0 \in DOMAIN h[Was(y)] :
               IsContainer(h[Was(y)][k0]) /\ h[Was(y)][k0].ref = h1[y][k].ref
        BY <3>1, SlotOf
      <4>. QED  BY <3>2, <4>1, <4>2, <1>9 DEF Sole
    <3>4. x = y
      BY <3>3
    <3>5. ASSUME x \in m  PROVE j = k
      <4>1. x # f /\ x \in A
        BY <3>5
      <4>. QED  BY <3>1, <3>4, <3>5, <4>1, <1>9 DEF Sole
    <3>. QED  BY <3>4, <3>5
  <2>. QED  BY <2>1, <2>2, <2>3
<1>. QED  BY <1>8, <1>9 DEF Sole

(* A value that is no object, one of F or the one there was.               *)
Holds(h, r, key, v, F) ==
    IsContainer(v) => \/ v.ref \in F
                      \/ key \in DOMAIN h[r] /\ IsContainer(h[r][key]) /\ h[r][key].ref = v.ref

LEMMA PutSole ==
  ASSUME NEW h, NEW m, HeapOK(h, m), NEW A, Sole(h, m, A), NEW r \in A, r \in m,
         NEW key \in Keys, NEW F, Bare(h, A, F), NEW v, Holds(h, r, key, v, F),
         NEW h1, h1 = Put(h, r, key, v)
  PROVE  Sole(h1, m, A \cup F)
<1>. DEFINE o == With(h[r], key, v)
<1>1. r \in DOMAIN h
  BY DEF Sole, Region
<1>2. /\ DOMAIN h1 = DOMAIN h /\ h1[r] = o
      /\ \A s \in DOMAIN h : s # r => h1[s] = h[s]
  BY <1>1 DEF Put
<1>3. ASSUME NEW k \in DOMAIN o, IsContainer(o[k])
      PROVE  \/ o[k].ref \in F /\ k = key
             \/ /\ o[k].ref \in Held(h, r)
                /\ r \in m => k \in DOMAIN h[r] /\ IsContainer(h[r][k]) /\ h[r][k].ref = o[k].ref
  <2>1. CASE k = key
    <3>1. o[k] = v
      BY <2>1 DEF With
    <3>. QED  BY <1>3, <2>1, <3>1, HeldBy DEF Holds
  <2>2. CASE k # key
    <3>1. k \in DOMAIN h[r] /\ o[k] = h[r][k]
      BY <2>2 DEF With
    <3>. QED  BY <1>3, <3>1, HeldBy
  <2>. QED  BY <2>1, <2>2
<1>. HIDE DEF o
<1>4. HoldsAs(h, m, r, o, key, F)
  BY <1>3 DEF HoldsAs
<1>. QED  BY <1>2, <1>4, SoleReplaced

(* What becomes of the objects A: maps stay, and some are new.             *)
SoleKept(h, m, A, g, m1, A1) ==
    Sole(g, m1, A1) /\ A \cap m \subseteq A1 /\ A1 \subseteq Grown(h, g, A)

LEMMA SoleAsIs ==
  ASSUME NEW h, NEW m, NEW A, Sole(h, m, A), NEW g, Sole(g, m, A)
  PROVE  SoleKept(h, m, A, g, m, A)
BY DEF SoleKept, Grown

LEMMA NothingBare == ASSUME NEW h, NEW A PROVE Bare(h, A, {})
BY DEF Bare

(* An object that holds nothing is new, and put somewhere.                 *)
Plain(o) == \A k \in DOMAIN o : ~IsContainer(o[k])

FreshlySole(h, g, m1, A, f) ==
    Sole(g, m1, A) /\ Bare(g, A, {f}) /\ DOMAIN g = DOMAIN h \cup {f}

LEMMA FreshSole ==
  ASSUME NEW h, NEW m, HeapOK(h, m), NEW A, Sole(h, m, A), NEW f \in Nat, f \notin DOMAIN h,
         NEW o, Plain(o), NEW m1 \in SUBSET (m \cup {f}), NEW g, g = With(h, f, o)
  PROVE  FreshlySole(h, g, m1, A, f)
<1>1. DOMAIN g = DOMAIN h \cup {f} /\ g[f] = o /\ \A x \in DOMAIN h : g[x] = h[x]
  BY DEF With
<1>2. A \subseteq DOMAIN h
  BY DEF Sole, Region
<1>3. A \in SUBSET DOMAIN g /\ (\A x \in A : g[x] = h[x]) /\ m1 \cap A \in SUBSET m
  BY <1>1, <1>2
<1>4. Sole(g, m1, A)
  BY <1>3, SoleStays
<1>5. Held(g, f) = {}
  BY <1>1 DEF Held, Plain
<1>. QED  BY <1>1, <1>2, <1>4, <1>5 DEF Bare, FreshlySole

LEMMA EnsureMapSole ==
  ASSUME NEW h, NEW m, HeapOK(h, m), NEW A, Sole(h, m, A), NEW r \in A, r \in m,
         NEW key \in Keys, NEW to, to = EnsureMapAtPath(h, r, key)
  PROVE  SoleKept(h, m, A, to.heap, m \cup {to.at}, A \cup {to.at})
<1>. DEFINE next == GetFromMap(h, MapAt(r), key)
<1>1. CASE next.kind = "map"
  <2>1. to.heap = h /\ to.at = next.ref
    BY <1>1 DEF EnsureMapAtPath
  <2>2. key \in DOMAIN h[r] /\ next = h[r][key]
    BY <1>1, FromMap DEF Missing
  <2>3. SlotIn(h, m, A, next)
    BY <2>2, SlotsAreHeld DEF Sole
  <2>4. next.ref \in m /\ next.ref \in A
    BY <2>3, <1>1 DEF SlotIn, ValueIn, IsContainer
  <2>5. m \cup {to.at} = m /\ A \cup {to.at} = A
    BY <2>1, <2>4
  <2>. QED  BY <2>1, <2>5, SoleAsIs
<1>2. CASE next.kind # "map"
  <2>. DEFINE f  == Fresh(h)
              g  == With(h, f, Empty)
              h1 == Put(g, r, key, MapAt(f))
              m1 == m \cup {f}
              v  == MapAt(f)
              F  == {f}
  <2>1. f \in Nat /\ f \notin DOMAIN h
    BY FreshIsNew DEF HeapOK
  <2>2. to.heap = h1 /\ to.at = f
    BY <1>2 DEF EnsureMapAtPath, NewMap, New
  <2>. HIDE DEF f
  <2>3. Sole(g, m1, A) /\ Bare(g, A, F) /\ DOMAIN g = DOMAIN h \cup {f}
    <3>1. Plain(Empty)
      BY EmptyIsMap DEF Plain
    <3>2. g = With(h, f, Empty) /\ m1 \in SUBSET (m \cup {f})
      OBVIOUS
    <3>. HIDE DEF g, m1
    <3>3. FreshlySole(h, g, m1, A, f)
      BY <2>1, <3>1, <3>2, FreshSole
    <3>. QED  BY <3>3 DEF FreshlySole
  <2>4. HeapOK(g, m1)
    <3>1. Region(h, A)
      BY DEF Sole
    <3>2. Edits(h, m, g, m1, A) /\ Grown(h, g, A) = A \cup {f} /\ Region(g, A \cup {f})
      BY <2>1, <3>1, EmptyIsMap, EmptySlots, AllocateEdits DEF MayBe
    <3>. QED  BY <3>2 DEF Edits
  <2>5. Holds(g, r, key, v, F) /\ r \in m1 /\ h1 = Put(g, r, key, v)
    BY DEF Holds, MapAt
  <2>. HIDE DEF g, h1, v, F, m1
  <2>6. Sole(h1, m1, A \cup F)
    BY <2>3, <2>4, <2>5, PutSole
  <2>7. DOMAIN h1 = DOMAIN g
    BY <2>5 DEF Put
  <2>. QED  BY <2>1, <2>2, <2>3, <2>6, <2>7 DEF SoleKept, Grown, m1, F
<1>. QED  BY <1>1, <1>2

LEMMA SoleKeptOn ==
  ASSUME NEW h, NEW m, NEW A, NEW g, NEW m1, NEW A1, NEW x, NEW m2, NEW A2,
         SoleKept(h, m, A, g, m1, A1), SoleKept(g, m1, A1, x, m2, A2), m \in SUBSET m1,
         DOMAIN h \in SUBSET DOMAIN g, DOMAIN g \in SUBSET DOMAIN x
  PROVE  SoleKept(h, m, A, x, m2, A2)
BY DEF SoleKept, Grown

LEMMA EnsureArraySole ==
  ASSUME NEW h, NEW m, HeapOK(h, m), NEW A, Sole(h, m, A), NEW r \in A, r \in m,
         NEW key \in Keys, NEW g, g = EnsureArrayAtPath(h, r, key)
  PROVE  \E A1 : SoleKept(h, m, A, g, m, A1)
<1>. DEFINE next == GetFromMap(h, MapAt(r), key)
<1>1. CASE next.kind = "list"
  <2>1. g = h
    BY <1>1 DEF EnsureArrayAtPath
  <2>. QED  BY <2>1, SoleAsIs
<1>2. CASE next.kind # "list"
  <2>. DEFINE f  == Fresh(h)
              o  == <<>>
              h0 == With(h, f, o)
              v  == SliceAt(f, 0)
              F  == {f}
  <2>1. f \in Nat /\ f \notin DOMAIN h
    BY FreshIsNew DEF HeapOK
  <2>2. g = Put(h0, r, key, v)
    BY <1>2 DEF EnsureArrayAtPath, New
  <2>. HIDE DEF f
  <2>3. Sole(h0, m, A) /\ Bare(h0, A, F) /\ DOMAIN h0 = DOMAIN h \cup {f}
    <3>1. Plain(o)
      BY DEF Plain
    <3>2. m \in SUBSET (m \cup {f})
      OBVIOUS
    <3>3. h0 = With(h, f, o)
      OBVIOUS
    <3>. HIDE DEF o, h0
    <3>4. FreshlySole(h, h0, m, A, f)
      BY <2>1, <3>1, <3>2, <3>3, FreshSole
    <3>. QED  BY <3>4 DEF FreshlySole
  <2>4. HeapOK(h0, m)
    <3>1. Region(h, A)
      BY DEF Sole
    <3>2. MayBe(m, f, o, m) /\ SlotsIn(h, m, A, o)
      BY EmptySlots DEF MayBe
    <3>. HIDE DEF o
    <3>3. Edits(h, m, h0, m, A) /\ Grown(h, h0, A) = A \cup {f} /\ Region(h0, A \cup {f})
      BY <2>1, <3>1, <3>2, AllocateEdits
    <3>. QED  BY <3>3 DEF Edits
  <2>5. Holds(h0, r, key, v, F)
    BY DEF Holds, SliceAt
  <2>. HIDE DEF h0, v, F
  <2>6. Sole(g, m, A \cup F)
    BY <2>2, <2>3, <2>4, <2>5, PutSole
  <2>7. DOMAIN g = DOMAIN h0
    BY <2>2 DEF Put
  <2>8. SoleKept(h, m, A, g, m, A \cup F)
    BY <2>1, <2>3, <2>6, <2>7 DEF SoleKept, Grown, F
  <2>. QED  BY <2>8
<1>. QED  BY <1>1, <1>2

LEMMA ExtendedSole ==
  ASSUME NEW h, NEW m, HeapOK(h, m), NEW A, Sole(h, m, A), NEW r \in A, r \in m,
         NEW key \in Keys, HasList(h, r, key, 0), NEW idx \in Nat, NEW grow,
         NEW g, g = Extended(h, r, key, idx, grow)
  PROVE  \E A1 : SoleKept(h, m, A, g, m, A1)
<1>. DEFINE arr == h[r][key]
            a   == arr.ref
            old == h[a]
<1>0. Region(h, A)
  BY DEF Sole
<1>1. /\ arr \in Value /\ a \in A /\ a \in DOMAIN h \ m /\ arr.len \in Nat
      /\ old \in Seq(Value) /\ arr.len <= Len(old) /\ Len(old) \in Nat
  BY <1>0, ListIs
<1>2. Extension(h, r, key, idx, g)
  BY <1>0, ExtendedIs
<1>3. key \in DOMAIN h[r] /\ IsContainer(arr) /\ r # a /\ r \in DOMAIN h
  BY <1>0, <1>1 DEF HasList, IsContainer, Region
<1>4. ASSUME NEW p, Appended(h, a, idx, p), NEW k \in DOMAIN p, IsContainer(p[k])
      PROVE  p[k].ref \in Held(h, a)
  <2>1. p \in Seq(Value) /\ (p[k] = Null \/ (k \in 1 .. Len(old) /\ p[k] = old[k]))
    BY <1>4 DEF Appended
  <2>2. k \in DOMAIN old /\ p[k] = old[k]
    BY <1>1, <1>4, <2>1 DEF Null, IsContainer
  <2>. QED  BY <1>4, <2>2, HeldBy
<1>5. CASE g = h
  BY <1>5, SoleAsIs
<1>6. ASSUME NEW p, Appended(h, a, idx, p), Len(old) <= Len(p),
             g = Put([h EXCEPT ![a] = p], r, key, SliceAt(a, idx + 1))
      PROVE  \E A1 : SoleKept(h, m, A, g, m, A1)
  <2>. DEFINE h0 == [h EXCEPT ![a] = p]
              v  == SliceAt(a, idx + 1)
              F  == {}
  <2>1. DOMAIN h0 = DOMAIN h /\ h0[a] = p /\ \A s \in DOMAIN h : s # a => h0[s] = h[s]
    BY <1>1
  <2>2. g = Put(h0, r, key, v)
    BY <1>6
  <2>. HIDE DEF h0
  <2>3. HoldsAs(h, m, a, p, key, F)
    BY <1>1, <1>4, <1>6 DEF HoldsAs
  <2>4. Bare(h, A, F) /\ Bare(h0, A, F)
    BY NothingBare
  <2>5. A \cup F = A
    OBVIOUS
  <2>6. Sole(h0, m, A \cup F)
    <3>. HIDE DEF F
    <3>. QED  BY <1>1, <2>1, <2>3, <2>4, SoleReplaced
  <2>7. HeapOK(h0, m)
    <3>1. p \in Seq(Value) /\ SlotsIn(h, m, A, p)
      <4>1. \A i \in 1 .. Len(old) : SlotIn(h, m, A, old[i])
        BY <1>0, <1>1, SlotsAreHeld
      <4>2. p \in Seq(Value) /\ \A i \in 1 .. Len(p) : p[i] = Null \/ (i \in 1 .. Len(old) /\ p[i] = old[i])
        BY <1>6 DEF Appended
      <4>3. \A i \in 1 .. Len(p) : SlotIn(h, m, A, p[i])
        BY <4>1, <4>2, NullIsAnywhere
      <4>. QED  BY <4>2, <4>3 DEF SlotsIn
    <3>2. \A k \in DOMAIN p : SlotIn(h, m, A, p[k])
      BY <3>1 DEF SlotsIn
    <3>3. Edits(h, m, h0, m, A) /\ Grown(h, h0, A) = A /\ Region(h0, A)
      BY <1>0, <1>1, <1>6, <2>1, <3>1, <3>2, ReplaceEdits
    <3>. QED  BY <3>3 DEF Edits
  <2>8. Holds(h0, r, key, v, F)
    BY <1>3, <2>1 DEF Holds, SliceAt
  <2>9. Sole(h0, m, A)
    BY <2>5, <2>6
  <2>. HIDE DEF v, F
  <2>10. Sole(g, m, A \cup F)
    BY <2>2, <2>4, <2>7, <2>8, <2>9, PutSole
  <2>11. Sole(g, m, A)
    BY <2>5, <2>10
  <2>. QED  BY <2>11, SoleAsIs
<1>7. ASSUME NEW p, Appended(h, a, idx, p),
             g = Put(With(h, Fresh(h), p), r, key, SliceAt(Fresh(h), idx + 1))
      PROVE  \E A1 : SoleKept(h, m, A, g, m, A1)
  <2>. DEFINE f  == Fresh(h)
              h0 == With(h, f, p)
              v  == SliceAt(f, idx + 1)
              o  == With(h[r], key, v)
              A1 == (A \ {a}) \cup {f}
  <2>1. f \in Nat /\ f \notin DOMAIN h
    BY FreshIsNew DEF HeapOK
  <2>2. g = Put(h0, r, key, v)
    BY <1>7
  <2>. HIDE DEF f
  <2>3. DOMAIN h0 = DOMAIN h \cup {f} /\ h0[f] = p /\ \A x \in DOMAIN h : h0[x] = h[x]
    BY <2>1 DEF With
  <2>4. A \in SUBSET DOMAIN h0 /\ (\A x \in A : h0[x] = h[x]) /\ m \cap A \in SUBSET m
    BY <1>0, <2>3 DEF Region
  <2>5. Sole(h0, m, A)
    BY <2>4, SoleStays
  <2>6. Held(h0, f) \subseteq Held(h0, a)
    <3>1. \A k \in DOMAIN h0[f] : IsContainer(h0[f][k]) => h0[f][k].ref \in Held(h, a)
      BY <1>4, <1>7, <2>3
    <3>2. Held(h0, f) \subseteq Held(h, a)
      BY <3>1, HeldIs
    <3>. QED  BY <1>1, <2>3, <3>2 DEF Held
  <2>7. f \in DOMAIN h0 \ A /\ f \notin m
    BY <1>0, <2>1, <2>3 DEF Region, HeapOK
  <2>8. g = [h0 EXCEPT ![r] = With(@, key, v)]
    BY <2>2 DEF Put
  <2>. HIDE DEF h0
  <2>9. DOMAIN g = DOMAIN h0 /\ g[r] = o /\ \A s \in DOMAIN h0 : s # r => g[s] = h0[s]
    BY <1>3, <2>3, <2>8
  <2>10. /\ DOMAIN o = DOMAIN h0[r] /\ o[key].ref = f
         /\ \A k \in DOMAIN o : k # key => o[k] = h0[r][k]
    BY <1>3, <2>3 DEF With, SliceAt
  <2>11. key \in DOMAIN h0[r] /\ IsContainer(h0[r][key]) /\ h0[r][key].ref = a /\ a \notin m
    BY <1>1, <1>3, <2>3
  <2>. HIDE DEF o, a, arr
  <2>12. Sole(g, m, A1)
    BY <2>5, <2>6, <2>7, <2>9, <2>10, <2>11, SoleCopied
  <2>13. SoleKept(h, m, A, g, m, A1)
    BY <2>1, <2>3, <2>9, <2>11, <2>12 DEF SoleKept, Grown
  <2>. QED  BY <2>13
<1>. QED  BY <1>2, <1>5, <1>6, <1>7 DEF Extension

(* An edit of some objects is one of a region they are part of.            *)
LEMMA EditsMore ==
  ASSUME NEW g, NEW m, NEW x, NEW m1, NEW A, Edits(g, m, x, m1, A),
         NEW B, Region(g, B), A \in SUBSET B
  PROVE  Edits(g, m, x, m1, B)
<1>1. DOMAIN g \subseteq DOMAIN x /\ B \subseteq DOMAIN g
  BY DEF Edits, Grows, Region
<1>2. ASSUME NEW r \in Grown(g, x, B)  PROVE Held(x, r) \subseteq Grown(g, x, B)
  <2>1. CASE r \in Grown(g, x, A)
    <3>1. Held(x, r) \subseteq Grown(g, x, A)
      BY <2>1 DEF Edits, ClosedIn
    <3>. QED  BY <3>1 DEF Grown
  <2>2. CASE r \notin Grown(g, x, A)
    <3>1. r \in B /\ r \in DOMAIN g \ A
      BY <1>1, <1>2, <2>2 DEF Grown
    <3>2. x[r] = g[r]
      BY <3>1 DEF Edits
    <3>3. Held(x, r) = Held(g, r)
      BY <3>2 DEF Held
    <3>. QED  BY <3>1, <3>3 DEF Region, ClosedIn, Grown
  <2>. QED  BY <2>1, <2>2
<1>3. ClosedIn(x, Grown(g, x, B))
  BY <1>2 DEF ClosedIn
<1>. QED  BY <1>3 DEF Edits

(* An edit of objects held once leaves them held once.                     *)
Kept(h, m, A, g, m1, A1) == Edits(h, m, g, m1, A) /\ SoleKept(h, m, A, g, m1, A1)

LEMMA KeptOn ==
  ASSUME NEW h, NEW m, NEW A, NEW g, NEW m1, NEW A1, NEW x, NEW m2, NEW A2,
         HeapOK(h, m), Sole(h, m, A), Kept(h, m, A, g, m1, A1), Kept(g, m1, A1, x, m2, A2)
  PROVE  Kept(h, m, A, x, m2, A2)
<1>. DEFINE B == Grown(h, g, A)
<1>1. Edits(h, m, g, m1, A) /\ Edits(g, m1, x, m2, A1) /\ A1 \subseteq B
  BY DEF Kept, SoleKept
<1>2. Region(g, B)
  BY <1>1, GrownIsRegion DEF Sole
<1>3. Edits(g, m1, x, m2, B)
  <2>. HIDE DEF B
  <2>. QED  BY <1>1, <1>2, EditsMore
<1>4. Edits(h, m, x, m2, A)
  BY <1>1, <1>3, EditsOn
<1>5. m \in SUBSET m1 /\ DOMAIN h \in SUBSET DOMAIN g /\ DOMAIN g \in SUBSET DOMAIN x
  BY <1>1 DEF Edits, Grows
<1>6. SoleKept(h, m, A, x, m2, A2)
  BY <1>5, SoleKeptOn DEF Kept
<1>. QED  BY <1>4, <1>6 DEF Kept

LEMMA NotKept ==
  ASSUME NEW h, NEW m, NEW A, HeapOK(h, m), Sole(h, m, A)
  PROVE  Kept(h, m, A, h, m, A)
BY NoEditAtAll, SoleAsIs DEF Kept, Sole

(* What is bare, and not of the objects edited, stays so.                  *)
LEMMA BareKept ==
  ASSUME NEW h, NEW m, NEW A, NEW g, NEW m1, NEW A1, Kept(h, m, A, g, m1, A1),
         NEW F, Bare(h, A, F)
  PROVE  Bare(g, A1, F)
<1>1. DOMAIN h \subseteq DOMAIN g /\ A1 \subseteq Grown(h, g, A) /\ \A r \in DOMAIN h \ A : g[r] = h[r]
  BY DEF Kept, SoleKept, Edits, Grows
<1>2. F \subseteq DOMAIN g \ A1
  BY <1>1 DEF Bare, Grown
<1>3. ASSUME NEW x \in F  PROVE Held(g, x) = {}
  <2>1. g[x] = h[x]
    BY <1>1 DEF Bare
  <2>. QED  BY <2>1 DEF Bare, Held
<1>. QED  BY <1>2, <1>3 DEF Bare

LEMMA IndexedSole ==
  ASSUME NEW h, NEW m, HeapOK(h, m), NEW A, Sole(h, m, A), NEW r \in A, r \in m,
         NEW key \in Keys, NEW idx \in Nat, NEW grow,
         NEW g, g = Indexed(h, r, key, idx, grow)
  PROVE  \E A1 : Kept(h, m, A, g, m, A1)
<1>. DEFINE g0 == EnsureArrayAtPath(h, r, key)
<1>0. Region(h, A)
  BY DEF Sole
<1>1. Edits(h, m, g0, m, A) /\ HasList(g0, r, key, 0)
  BY <1>0, EnsureArrayEdits
<1>2. g = Extended(g0, r, key, idx, grow)
  BY DEF Indexed
<1>3. PICK A0 : SoleKept(h, m, A, g0, m, A0)
  BY EnsureArraySole
<1>. HIDE DEF g0
<1>4. HeapOK(g0, m) /\ Sole(g0, m, A0) /\ r \in A0 /\ DOMAIN h \in SUBSET DOMAIN g0
  BY <1>1, <1>3 DEF SoleKept, Edits, Grows
<1>5. PICK A1 : SoleKept(g0, m, A0, g, m, A1)
  BY <1>1, <1>2, <1>4, ExtendedSole
<1>6. Edits(h, m, g, m, A)
  BY <1>0, IndexedEdits
<1>7. Region(g0, A0)
  BY <1>4 DEF Sole
<1>8. Edits(g0, m, g, m, A0)
  BY <1>1, <1>2, <1>4, <1>7, ExtendedEdits
<1>9. DOMAIN g0 \in SUBSET DOMAIN g /\ m \in SUBSET m
  BY <1>8 DEF Edits, Grows
<1>10. SoleKept(h, m, A, g, m, A1)
  BY <1>3, <1>4, <1>5, <1>9, SoleKeptOn
<1>. QED  BY <1>6, <1>10 DEF Kept

LEMMA ElementSole ==
  ASSUME NEW h, NEW m, HeapOK(h, m), NEW A, Sole(h, m, A), NEW r \in A, r \in m,
         NEW key, NEW idx \in Nat, HasList(h, r, key, idx + 1),
         NEW F, Bare(h, A, F), NEW v, IsContainer(v) => v.ref \in F,
         NEW h1, h1 = PutAt(h, h[r][key].ref, idx + 1, v)
  PROVE  Sole(h1, m, A \cup F) /\ DOMAIN h1 = DOMAIN h
<1>. DEFINE arr == h[r][key]
            a   == arr.ref
            old == h[a]
            pos == idx + 1
            o   == [old EXCEPT ![pos] = v]
<1>0. Region(h, A)
  BY DEF Sole
<1>1. a \in A /\ a \in DOMAIN h \ m
  <2>1. HasList(h, r, key, 0)
    <3>1. arr \in Value
      BY <1>0 DEF HasList, HeapOK, Region, ValueIn
    <3>. QED  BY <3>1 DEF HasList, Value
  <2>. QED  BY <1>0, <2>1, ListIs
<1>2. DOMAIN h1 = DOMAIN h /\ h1[a] = o /\ \A s \in DOMAIN h : s # a => h1[s] = h[s]
  BY <1>1 DEF PutAt
<1>3. ASSUME NEW k \in DOMAIN o, IsContainer(o[k])
      PROVE  (o[k].ref \in F /\ k = pos) \/ o[k].ref \in Held(h, a)
  <2>1. k \in DOMAIN old /\ (k = pos => o[k] = v) /\ (k # pos => o[k] = old[k])
    OBVIOUS
  <2>. QED  BY <1>3, <2>1, HeldBy
<1>4. HoldsAs(h, m, a, o, pos, F)
  <2>. HIDE DEF o, pos
  <2>. QED  BY <1>1, <1>3 DEF HoldsAs
<1>. HIDE DEF a, o, pos
<1>. QED  BY <1>1, <1>2, <1>4, SoleReplaced

SoleStill(h1, m, A) == \E A1 : Sole(h1, m, A1) /\ A \cap m \subseteq A1

LEMMA SetArrayElementSole ==
  ASSUME NEW h, NEW m, HeapOK(h, m), NEW A, Sole(h, m, A), NEW r \in A, r \in m,
         NEW key \in Keys, NEW idx \in Nat, NEW grow,
         NEW F, Bare(h, A, F), NEW v, IsContainer(v) => v.ref \in F,
         NEW h1, h1 = SetArrayElement(h, r, key, idx, v, grow)
  PROVE  SoleStill(h1, m, A)
<1>. DEFINE g == Indexed(h, r, key, idx, grow)
<1>0. Region(h, A)
  BY DEF Sole
<1>1. Edits(h, m, g, m, A) /\ HasList(g, r, key, idx + 1)
  BY <1>0, IndexedEdits
<1>2. h1 = PutAt(g, g[r][key].ref, idx + 1, v)
  BY DEF SetArrayElement
<1>3. PICK A0 : Kept(h, m, A, g, m, A0)
  BY IndexedSole
<1>. HIDE DEF g
<1>4. HeapOK(g, m) /\ Sole(g, m, A0) /\ r \in A0 /\ A \cap m \subseteq A0
  BY <1>3 DEF Kept, SoleKept, Edits
<1>5. Bare(g, A0, F)
  BY <1>3, BareKept
<1>6. Sole(h1, m, A0 \cup F)
  BY <1>1, <1>2, <1>4, <1>5, ElementSole
<1>. QED  BY <1>4, <1>6 DEF SoleStill

LEMMA EnsureMapInArraySole ==
  ASSUME NEW h, NEW m, HeapOK(h, m), NEW A, Sole(h, m, A), NEW r \in A, r \in m,
         NEW key \in Keys, NEW idx \in Nat, NEW grow,
         NEW to, to = EnsureMapInArray(h, r, key, idx, grow)
  PROVE  \E A1 : SoleKept(h, m, A, to.heap, m \cup {to.at}, A1) /\ to.at \in A1
<1>. DEFINE g    == Indexed(h, r, key, idx, grow)
            list == g[r][key].ref
            next == g[list][idx + 1]
<1>0. Region(h, A)
  BY DEF Sole
<1>1. Edits(h, m, g, m, A) /\ HasList(g, r, key, idx + 1)
  BY <1>0, IndexedEdits
<1>2. to = IF next.kind = "map" THEN [heap |-> g, at |-> next.ref, ok |-> TRUE]
           ELSE [heap |-> PutAt(New(g, Empty), list, idx + 1, MapAt(Fresh(g))),
                 at |-> Fresh(g), ok |-> TRUE]
  BY DEF EnsureMapInArray
<1>3. PICK A0 : Kept(h, m, A, g, m, A0)
  BY IndexedSole
<1>. HIDE DEF g
<1>4. /\ HeapOK(g, m) /\ Sole(g, m, A0) /\ r \in A0 /\ A \cap m \subseteq A0
      /\ A0 \subseteq Grown(h, g, A) /\ Region(g, A0) /\ DOMAIN h \subseteq DOMAIN g
  BY <1>3 DEF Kept, SoleKept, Edits, Sole, Grows
<1>5. g[r][key] \in Value /\ HasList(g, r, key, 0)
  BY <1>1, <1>4 DEF HasList, HeapOK, Region, ValueIn, Value
<1>6. /\ list \in A0 /\ list \in DOMAIN g \ m /\ idx + 1 \in DOMAIN g[list]
  <2>. DEFINE arr == g[r][key]
  <2>1. idx + 1 <= arr.len
    BY <1>1 DEF HasList
  <2>2. /\ arr \in Value /\ arr.ref \in A0 /\ arr.ref \in DOMAIN g \ m /\ arr.len \in Nat
        /\ g[arr.ref] \in Seq(Value) /\ arr.len <= Len(g[arr.ref]) /\ Len(g[arr.ref]) \in Nat
    <3>1. arr = g[r][key]
      OBVIOUS
    <3>. HIDE DEF arr
    <3>. QED  BY <1>4, <1>5, <3>1, ListIs
  <2>. QED  BY <2>1, <2>2
<1>7. CASE next.kind = "map"
  <2>1. to.heap = g /\ to.at = next.ref
    BY <1>2, <1>7
  <2>2. SlotIn(g, m, A0, next)
    BY <1>4, <1>6, SlotsAreHeld
  <2>3. next.ref \in m /\ next.ref \in A0
    BY <2>2, <1>7 DEF SlotIn, ValueIn, IsContainer
  <2>4. m \cup {to.at} = m
    BY <2>1, <2>3
  <2>. QED  BY <1>3, <2>1, <2>3, <2>4 DEF Kept
<1>8. CASE next.kind # "map"
  <2>. DEFINE f  == Fresh(g)
              g0 == With(g, f, Empty)
              v  == MapAt(f)
              h1 == PutAt(g0, list, idx + 1, v)
              m1 == m \cup {f}
              F  == {f}
  <2>1. f \in Nat /\ f \notin DOMAIN g
    BY <1>4, FreshIsNew DEF HeapOK
  <2>2. to.heap = h1 /\ to.at = f
    BY <1>2, <1>8 DEF New
  <2>. HIDE DEF f
  <2>3. Sole(g0, m1, A0) /\ Bare(g0, A0, F) /\ DOMAIN g0 = DOMAIN g \cup {f}
    <3>1. Plain(Empty)
      BY EmptyIsMap DEF Plain
    <3>2. g0 = With(g, f, Empty) /\ m1 \in SUBSET (m \cup {f})
      OBVIOUS
    <3>3. HeapOK(g, m) /\ Sole(g, m, A0)
      BY <1>4
    <3>. HIDE DEF g, g0, m1
    <3>4. FreshlySole(g, g0, m1, A0, f)
      BY <2>1, <3>1, <3>2, <3>3, FreshSole
    <3>. QED  BY <3>4 DEF FreshlySole
  <2>4. HeapOK(g0, m1) /\ r \in m1
    <3>1. Edits(g, m, g0, m \cup {f}, A0) /\ Grown(g, g0, A0) = A0 \cup {f} /\ Region(g0, A0 \cup {f})
      BY <2>1, <1>4, EmptyIsMap, EmptySlots, AllocateEdits DEF MayBe
    <3>. QED  BY <3>1 DEF Edits
  <2>5. g0[r] = g[r]
    BY <2>1, <1>4 DEF With, Region
  <2>. HIDE DEF g0
  <2>6. HasList(g0, r, key, idx + 1) /\ h1 = PutAt(g0, g0[r][key].ref, idx + 1, v)
    BY <2>5, <1>1 DEF HasList
  <2>7. IsContainer(v) => v.ref \in F
    BY DEF MapAt
  <2>. HIDE DEF h1, v, F, m1
  <2>8. Sole(h1, m1, A0 \cup F) /\ DOMAIN h1 = DOMAIN g0
    <3>1. r \in A0 /\ Sole(g0, m1, A0) /\ Bare(g0, A0, F)
      BY <1>4, <2>3
    <3>2. /\ HeapOK(g0, m1) /\ r \in m1 /\ HasList(g0, r, key, idx + 1)
          /\ h1 = PutAt(g0, g0[r][key].ref, idx + 1, v)
      BY <2>4, <2>6
    <3>3. Sole(h1, m1, A0 \cup F)
      BY <3>1, <3>2, <2>7, ElementSole
    <3>. QED  BY <3>2, <3>3 DEF PutAt
  <2>9. SoleKept(h, m, A, h1, m1, A0 \cup F)
    BY <1>4, <2>1, <2>3, <2>8 DEF SoleKept, Grown, F
  <2>. QED  BY <2>2, <2>9 DEF m1, F
<1>. QED  BY <1>7, <1>8

LEMMA DescendSole ==
  ASSUME NEW h, NEW m, HeapOK(h, m), NEW A, Sole(h, m, A), NEW r \in A, r \in m,
         NEW part \in Segment, NEW grow, NEW to, to = DescendFrom(h, r, part, grow)
  PROVE  \E A1 : Kept(h, m, A, to.heap, m \cup {to.at}, A1) /\ to.at \in A1
<1>0. Region(h, A)
  BY DEF Sole
<1>1. Edits(h, m, to.heap, m \cup {to.at}, A)
  BY <1>0, DescendArrives DEF Arrives
<1>2. part.key \in Keys /\ part.idx \in Nat \cup {NoIndex, Malformed}
  BY DEF Segment
<1>3. \E A1 : SoleKept(h, m, A, to.heap, m \cup {to.at}, A1) /\ to.at \in A1
  <2>1. CASE part.idx = Malformed
    <3>1. to.heap = h /\ to.at = r
      BY <2>1 DEF DescendFrom
    <3>2. m \cup {r} = m
      OBVIOUS
    <3>. QED  BY <3>1, <3>2, SoleAsIs
  <2>2. CASE part.idx = NoIndex
    <3>1. to = EnsureMapAtPath(h, r, part.key)
      BY <2>2 DEF DescendFrom, NoIndex, Malformed
    <3>2. SoleKept(h, m, A, to.heap, m \cup {to.at}, A \cup {to.at})
      BY <1>2, <3>1, EnsureMapSole
    <3>. QED  BY <3>2
  <2>3. CASE part.idx \in Nat
    <3>1. to = EnsureMapInArray(h, r, part.key, part.idx, grow)
      BY <2>3 DEF DescendFrom, NoIndex, Malformed
    <3>. DEFINE key == part.key
                idx == part.idx
    <3>2. key \in Keys /\ idx \in Nat /\ to = EnsureMapInArray(h, r, key, idx, grow)
      BY <1>2, <2>3, <3>1
    <3>. HIDE DEF key, idx
    <3>. QED  BY <3>2, EnsureMapInArraySole
  <2>. QED  BY <1>2, <2>1, <2>2, <2>3
<1>. QED  BY <1>1, <1>3 DEF Kept

(* The map to write into is one of the objects held once.                  *)
SoleArrived(h, m, A, to) ==
    \E m1, A1 : Kept(h, m, A, to.heap, m1, A1) /\ to.at \in m1 /\ to.at \in A1

LEMMA DescentSole ==
  ASSUME NEW h, NEW m, HeapOK(h, m), NEW A, Sole(h, m, A), NEW r \in A, r \in m,
         NEW path \in Path, NEW grow, NEW n \in Nat, n <= Len(path),
         NEW to, to = Descent(h, r, path, grow, n)
  PROVE  SoleArrived(h, m, A, to) /\ to.ok \in BOOLEAN
<1>. DEFINE w == Down(h, r, path, grow, n)
            S == {i \in Nat : i <= n => SoleArrived(h, m, A, w[i]) /\ w[i].ok \in BOOLEAN}
<1>1. /\ to = w[n] /\ w[0] = [heap |-> h, at |-> r, ok |-> TRUE]
      /\ \A i \in 1 .. n : w[i] = Descend(w[i - 1], path[i], grow)
  BY DownIs
<1>. HIDE DEF w
<1>2. 0 \in S
  <2>1. Kept(h, m, A, h, m, A)
    BY NotKept
  <2>2. w[0].heap = h /\ w[0].at = r /\ w[0].ok = TRUE
    BY <1>1
  <2>. QED  BY <2>1, <2>2 DEF SoleArrived
<1>3. ASSUME NEW i \in Nat, i \in S  PROVE i + 1 \in S
  <2>. SUFFICES ASSUME i + 1 <= n
                PROVE  SoleArrived(h, m, A, w[i + 1]) /\ w[i + 1].ok \in BOOLEAN
    OBVIOUS
  <2>. DEFINE x == w[i]
              y == w[i + 1]
              part == path[i + 1]
  <2>1. y = Descend(x, part, grow)
    <3>1. i + 1 \in 1 .. n /\ (i + 1) - 1 = i
      OBVIOUS
    <3>. QED  BY <3>1, <1>1
  <2>2. part \in Segment
    BY DEF Path
  <2>3. SoleArrived(h, m, A, x) /\ x.ok \in BOOLEAN
    BY <1>3
  <2>. HIDE DEF x, y, part
  <2>4. CASE ~x.ok
    <3>1. y = [heap |-> x.heap, at |-> x.at, ok |-> FALSE]
      <4>1. x.ok = FALSE
        BY <2>3, <2>4
      <4>. QED  BY <4>1, <2>1, DescendStays
    <3>2. y.heap = x.heap /\ y.at = x.at /\ y.ok = FALSE
      BY <3>1
    <3>3. SoleArrived(h, m, A, y)
      BY <2>3, <3>2 DEF SoleArrived
    <3>. QED  BY <3>2, <3>3 DEF y
  <2>5. CASE x.ok
    <3>. DEFINE g == x.heap
    <3>1. PICK m0, A0 : Kept(h, m, A, g, m0, A0) /\ x.at \in m0 /\ x.at \in A0
      BY <2>3 DEF SoleArrived
    <3>2. HeapOK(g, m0) /\ Sole(g, m0, A0) /\ Region(g, A0)
      BY <3>1 DEF Kept, SoleKept, Edits, Sole
    <3>3. y = DescendFrom(g, x.at, part, grow)
      <4>1. x.ok = TRUE
        BY <2>3, <2>5
      <4>. QED  BY <4>1, <2>1, DescendGoesOn
    <3>. HIDE DEF g
    <3>4. y.ok \in BOOLEAN
      BY <2>2, <3>1, <3>2, <3>3, DescendArrives
    <3>5. PICK A1 : Kept(g, m0, A0, y.heap, m0 \cup {y.at}, A1) /\ y.at \in A1
      BY <2>2, <3>1, <3>2, <3>3, DescendSole
    <3>. DEFINE m1 == m0 \cup {y.at}
    <3>6. Kept(g, m0, A0, y.heap, m1, A1) /\ y.at \in m1
      BY <3>5
    <3>. HIDE DEF m1
    <3>7. Kept(h, m, A, y.heap, m1, A1)
      BY <3>1, <3>6, KeptOn
    <3>8. SoleArrived(h, m, A, y)
      BY <3>5, <3>6, <3>7 DEF SoleArrived
    <3>. QED  BY <3>4, <3>8 DEF y
  <2>. QED  BY <2>4, <2>5, <2>3
<1>4. \A i \in Nat : i \in S
  <2>. HIDE DEF S
  <2>. QED  BY <1>2, <1>3, Counting
<1>5. SoleArrived(h, m, A, w[n]) /\ w[n].ok \in BOOLEAN
  BY <1>4
<1>. QED  BY <1>1, <1>5

(* In g there are objects held once, among them those of A that are maps.  *)
SoleFrom(m, A, g) ==
    \E m1, A1 : HeapOK(g, m1) /\ Sole(g, m1, A1) /\ m \subseteq m1 /\ A \cap m \subseteq A1

(* What is written is no object, or one that nobody holds.                 *)
LEMMA SetSole ==
  ASSUME NEW h, NEW m, HeapOK(h, m), NEW A, Sole(h, m, A), NEW r \in A, r \in m,
         NEW path \in Path, NEW grow,
         NEW F, Bare(h, A, F), NEW v, IsContainer(v) => v.ref \in F, ValueIn(h, m, v),
         NEW s, s = Set(h, r, path, v, grow)
  PROVE  SoleFrom(m, A, s.heap)
<1>. SUFFICES \E m1, A1 : HeapOK(s.heap, m1) /\ Sole(s.heap, m1, A1) /\ m \subseteq m1 /\ A \cap m \subseteq A1
  BY DEF SoleFrom
<1>. DEFINE n    == Len(path) - 1
            to   == Descent(h, r, path, grow, n)
            last == Last(path)
            g    == to.heap
            B    == A \cup F
<1>1. n \in Nat /\ n <= Len(path) /\ last \in Segment
  BY DEF Path, Last
<1>2. s = CASE ~to.ok \/ last.idx = Malformed -> [heap |-> g, ok |-> FALSE]
            [] to.ok /\ last.idx = NoIndex -> [heap |-> Put(g, to.at, last.key, v), ok |-> TRUE]
            [] OTHER -> [heap |-> SetArrayElement(g, to.at, last.key, last.idx, v, grow), ok |-> TRUE]
  BY DEF Set
<1>3. PICK m2 : Edits(h, m, s.heap, m2, B)
  <2>1. Region(h, B) /\ r \in B
    BY DEF Sole, Region, ClosedIn, Bare
  <2>2. SlotIn(h, m, B, v)
    BY DEF SlotIn
  <2>. HIDE DEF B
  <2>. QED  BY <2>1, <2>2, SetEdits
<1>. HIDE DEF n, last
<1>4. SoleArrived(h, m, A, to) /\ to.ok \in BOOLEAN
  BY <1>1, DescentSole
<1>. HIDE DEF to
<1>5. PICK m0, A0 : Kept(h, m, A, g, m0, A0) /\ to.at \in m0 /\ to.at \in A0
  BY <1>4 DEF SoleArrived
<1>6. /\ HeapOK(g, m0) /\ Sole(g, m0, A0) /\ m \subseteq m0 /\ A \cap m \subseteq A0
      /\ Region(g, A0) /\ Grows(h, m, g, m0)
  BY <1>5 DEF Kept, SoleKept, Edits, Grows, Sole
<1>7. Bare(g, A0, F) /\ \A x \in F : g[x] = h[x]
  <2>1. Bare(g, A0, F)
    BY <1>5, BareKept
  <2>. QED  BY <2>1, <1>5 DEF Bare, Kept, Edits
<1>8. last.key \in Keys /\ last.idx \in Nat \cup {NoIndex, Malformed}
  BY <1>1 DEF Segment
<1>. DEFINE C == A0 \cup F
<1>9. Region(g, C) /\ to.at \in C /\ SlotIn(g, m0, C, v)
  <2>1. ValueIn(g, m0, v)
    BY <1>6, ValueKept
  <2>. QED  BY <1>5, <1>6, <1>7, <2>1 DEF Region, ClosedIn, Bare, SlotIn
<1>. HIDE DEF g
<1>10. CASE ~to.ok \/ last.idx = Malformed
  <2>1. s.heap = g
    BY <1>2, <1>4, <1>10 DEF NoIndex, Malformed
  <2>. QED  BY <2>1, <1>6
<1>11. CASE to.ok /\ last.idx = NoIndex
  <2>. DEFINE key == last.key
              a   == to.at
  <2>1. s.heap = Put(g, a, key, v)
    BY <1>2, <1>11 DEF NoIndex, Malformed
  <2>2. key \in Keys /\ a \in A0 /\ a \in m0 /\ a \in C
    BY <1>5, <1>8, <1>9
  <2>3. Holds(g, a, key, v, F)
    BY DEF Holds
  <2>. HIDE DEF key, a, C
  <2>4. HeapOK(s.heap, m0)
    BY <1>6, <1>9, <2>1, <2>2, PutEdits DEF Edits
  <2>5. Sole(s.heap, m0, A0 \cup F)
    BY <1>6, <1>7, <2>1, <2>2, <2>3, PutSole
  <2>. QED  BY <1>6, <2>4, <2>5
<1>12. CASE to.ok /\ last.idx \in Nat
  <2>. DEFINE key == last.key
              idx == last.idx
              a   == to.at
  <2>1. s.heap = SetArrayElement(g, a, key, idx, v, grow)
    BY <1>2, <1>12 DEF NoIndex, Malformed
  <2>2. key \in Keys /\ idx \in Nat /\ a \in A0 /\ a \in m0 /\ a \in C
    BY <1>5, <1>8, <1>9, <1>12
  <2>. HIDE DEF key, a, idx, C
  <2>4. HeapOK(s.heap, m0)
    BY <1>6, <1>9, <2>1, <2>2, SetArrayElementEdits DEF Edits
  <2>5. SoleStill(s.heap, m0, A0)
    BY <1>6, <1>7, <2>1, <2>2, SetArrayElementSole
  <2>6. PICK A1 : Sole(s.heap, m0, A1) /\ A0 \cap m0 \subseteq A1
    BY <2>5 DEF SoleStill
  <2>. QED  BY <1>6, <2>4, <2>6
<1>. QED  BY <1>4, <1>8, <1>10, <1>11, <1>12

LEMMA DropSole ==
  ASSUME NEW h, NEW m, HeapOK(h, m), NEW A, Sole(h, m, A), NEW r \in A, r \in m, NEW key,
         NEW h1, h1 = Drop(h, r, key)
  PROVE  Sole(h1, m, A)
<1>. DEFINE o == h1[r]
            F == {}
<1>0. Region(h, A)
  BY DEF Sole
<1>1. /\ DOMAIN h1 = DOMAIN h /\ DOMAIN h1[r] = DOMAIN h[r] \ {key}
      /\ \A k \in DOMAIN h1[r] : h1[r][k] = h[r][k]
      /\ \A s \in DOMAIN h : s # r => h1[s] = h[s]
  BY <1>0, DropEdits
<1>2. Bare(h, A, F) /\ A \cup F = A
  BY NothingBare
<1>3. HoldsAs(h, m, r, o, key, F)
  BY <1>1, HeldBy DEF HoldsAs
<1>. HIDE DEF o, F
<1>4. h1[r] = o
  BY DEF o
<1>. QED  BY <1>1, <1>2, <1>3, <1>4, SoleReplaced

LEMMA DeleteFromMapSole ==
  ASSUME NEW h, NEW m, HeapOK(h, m), NEW A, Sole(h, m, A), NEW r \in A, r \in m,
         NEW part \in Segment, part.idx # Malformed,
         NEW h1, h1 = DeleteFromMap(h, r, part)
  PROVE  Sole(h1, m, A)
<1>. DEFINE arr == GetFromMap(h, MapAt(r), part.key)
            a   == arr.ref
            old == h[a]
            moved == [i \in DOMAIN old |-> IF part.idx < i /\ i < arr.len THEN old[i + 1] ELSE old[i]]
            e   == GetFromArray(h, arr, part.idx)
<1>0. Region(h, A)
  BY DEF Sole
<1>1. part.key \in Keys /\ part.idx \in Nat \cup {NoIndex}
  BY DEF Segment
<1>2. CASE part.idx = NoIndex
  <2>1. h1 = Drop(h, r, part.key)
    BY <1>2 DEF DeleteFromMap
  <2>. QED  BY <2>1, DropSole
<1>3. CASE part.idx # NoIndex /\ e = Missing
  <2>1. h1 = h
    BY <1>3 DEF DeleteFromMap
  <2>. QED  BY <2>1
<1>4. CASE part.idx # NoIndex /\ e # Missing
  <2>. DEFINE key == part.key
  <2>1. part.idx \in Nat /\ arr.kind = "list" /\ part.idx < arr.len
    BY <1>1, <1>4 DEF GetFromArray
  <2>2. key \in DOMAIN h[r] /\ arr = h[r][key] /\ r \in DOMAIN h
    BY <1>0, <2>1, FromMap DEF Missing, Region
  <2>3. /\ arr \in Value /\ a \in A /\ a \in DOMAIN h \ m /\ arr.len \in Nat
        /\ old \in Seq(Value) /\ arr.len <= Len(old) /\ Len(old) \in Nat
    <3>1. arr \in Value
      BY <1>0, <2>2 DEF HeapOK, Region, ValueIn
    <3>2. HasList(h, r, key, 0)
      BY <2>1, <2>2, <3>1 DEF HasList, Value
    <3>. HIDE DEF arr, key
    <3>. QED  BY <1>0, <2>2, <3>2, ListIs
  <2>4. h1 = [Put(h, r, key, SliceAt(a, arr.len - 1)) EXCEPT ![a] = moved]
    BY <1>4 DEF DeleteFromMap
  <2>. HIDE DEF e
  <2>5. DOMAIN moved = DOMAIN old /\ \A i \in DOMAIN old : \E j \in DOMAIN old : moved[i] = old[j]
    <3>. HIDE DEF arr, key, old
    <3>1. \A i \in 1 .. Len(old) :
             LET j == IF part.idx < i /\ i < arr.len THEN i + 1 ELSE i
             IN  j \in 1 .. Len(old) /\ moved[i] = old[j]
      BY <2>1, <2>3, SMT
    <3>. QED  BY <3>1, <2>3
  <2>. HIDE DEF moved
  <2>6. \A k \in DOMAIN moved : IsContainer(moved[k]) => moved[k].ref \in Held(h, a)
    BY <2>5, HeldBy
  <2>. DEFINE h0 == [h EXCEPT ![a] = moved]
              F  == {}
              v  == SliceAt(a, arr.len - 1)
  <2>8. /\ DOMAIN h0 = DOMAIN h /\ h0[a] = moved /\ r # a
        /\ \A s \in DOMAIN h : s # a => h0[s] = h[s]
    BY <2>3
  <2>9. h1 = Put(h0, r, key, v)
    BY <2>4, <2>2, <2>3, <2>8 DEF Put
  <2>10. Bare(h, A, F) /\ HoldsAs(h, m, a, moved, key, F) /\ A \cup F = A
    BY <2>3, <2>6, NothingBare DEF HoldsAs
  <2>11. Holds(h0, r, key, v, F)
    BY <2>1, <2>2, <2>8 DEF Holds, SliceAt, IsContainer
  <2>. HIDE DEF h0, arr, old, F, v, key
  <2>12. Sole(h0, m, A)
    <3>1. Sole(h0, m, A \cup F)
      BY <2>3, <2>8, <2>10, SoleReplaced
    <3>. QED  BY <2>10, <3>1
  <2>13. key \in Keys /\ Bare(h0, A, F)
    BY <1>1, NothingBare DEF key, F
  <2>14. HeapOK(h0, m)
    <3>1. moved \in Seq(Value) /\ Len(old) <= Len(moved)
      <4>1. \A i \in 1 .. Len(old) : moved[i] \in Value
        BY <2>3, <2>5
      <4>2. moved = [i \in 1 .. Len(old) |-> moved[i]]
        BY <2>3 DEF moved
      <4>3. moved \in [1 .. Len(old) -> Value]
        BY <4>1, <4>2
      <4>4. moved \in Seq(Value) /\ Len(moved) = Len(old)
        BY <4>3, <2>3
      <4>. QED  BY <4>4, <2>3
    <3>2. \A k \in DOMAIN moved : SlotIn(h, m, A, moved[k])
      <4>1. \A k \in DOMAIN old : SlotIn(h, m, A, old[k])
        BY <1>0, <2>3, SlotsAreHeld DEF old
      <4>. QED  BY <4>1, <2>5
    <3>3. h[a] = old
      BY DEF old
    <3>. HIDE DEF a
    <3>4. Edits(h, m, h0, m, A)
      BY <1>0, <2>3, <2>8, <3>1, <3>2, <3>3, ReplaceEdits
    <3>. QED  BY <3>4 DEF Edits
  <2>15. Sole(h1, m, A \cup F)
    BY <2>9, <2>11, <2>12, <2>13, <2>14, PutSole
  <2>. QED  BY <2>10, <2>15
<1>. QED  BY <1>2, <1>3, <1>4

LEMMA DeleteFromArraySole ==
  ASSUME NEW h, NEW m, HeapOK(h, m), NEW A, Sole(h, m, A), NEW list, SlotIn(h, m, A, list),
         NEW part \in Segment, NEW h1, h1 = DeleteFromArray(h, list, part), part.idx # Malformed
  PROVE  Sole(h1, m, A)
<1>. DEFINE elem == GetFromArray(h, list, part.idx)
<1>0. Region(h, A)
  BY DEF Sole
<1>1. CASE part.idx # NoIndex /\ elem.kind = "map"
  <2>1. h1 = Drop(h, elem.ref, part.key)
    BY <1>1 DEF DeleteFromArray
  <2>2. part.idx \in Nat /\ list.kind = "list" /\ part.idx < list.len /\ elem = h[list.ref][part.idx + 1]
    BY <1>1 DEF GetFromArray, Missing, Segment
  <2>3. list.ref \in A /\ list.ref \in DOMAIN h \ m /\ list.len <= Len(h[list.ref]) /\ list.len \in Nat
    BY <2>2 DEF SlotIn, ValueIn, IsContainer, Value
  <2>4. h[list.ref] \in Seq(Value)
    BY <2>3 DEF HeapOK
  <2>5. Len(h[list.ref]) \in Nat /\ DOMAIN h[list.ref] = 1 .. Len(h[list.ref])
    BY <2>4
  <2>6. part.idx + 1 \in DOMAIN h[list.ref]
    BY <2>2, <2>3, <2>5
  <2>7. SlotIn(h, m, A, elem)
    BY <1>0, <2>2, <2>3, <2>6, SlotsAreHeld
  <2>8. elem.ref \in A /\ elem.ref \in m
    BY <2>7, <1>1 DEF SlotIn, ValueIn, IsContainer
  <2>. QED  BY <2>1, <2>8, DropSole
<1>2. CASE ~(part.idx # NoIndex /\ elem.kind = "map")
  <2>1. h1 = h
    BY <1>2 DEF DeleteFromArray
  <2>. QED  BY <2>1
<1>. QED  BY <1>1, <1>2

LEMMA DeleteSole ==
  ASSUME NEW h, NEW m, HeapOK(h, m), NEW A, Sole(h, m, A), NEW r \in A, r \in m,
         NEW path \in Path, NEW h1, h1 = Delete(h, r, path)
  PROVE  Sole(h1, m, A)
<1>. DEFINE n      == Len(path) - 1
            parent == Navigate(h, r, path, n)
            last   == Last(path)
<1>0. Region(h, A)
  BY DEF Sole
<1>1. n \in Nat /\ n <= Len(path) /\ last \in Segment /\ path \in Seq(Segment)
  BY DEF Path, Last
<1>2. h1 = CASE last.idx = Malformed -> h
             [] last.idx # Malformed /\ parent.kind = "map" -> DeleteFromMap(h, parent.ref, last)
             [] last.idx # Malformed /\ parent.kind = "list" -> DeleteFromArray(h, parent, last)
             [] OTHER -> h
  BY DEF Delete
<1>. HIDE DEF n, last
<1>3. parent = Missing \/ SlotIn(h, m, A, parent)
  BY <1>0, <1>1, NavigateReads
<1>. HIDE DEF parent
<1>4. CASE last.idx # Malformed /\ parent.kind = "map"
  <2>1. h1 = DeleteFromMap(h, parent.ref, last)
    BY <1>2, <1>4
  <2>2. parent.ref \in m /\ parent.ref \in A
    BY <1>3, <1>4 DEF SlotIn, ValueIn, IsContainer, Missing
  <2>. QED  BY <1>1, <1>4, <2>1, <2>2, DeleteFromMapSole
<1>5. CASE last.idx # Malformed /\ parent.kind = "list"
  <2>1. h1 = DeleteFromArray(h, parent, last)
    BY <1>2, <1>5
  <2>2. SlotIn(h, m, A, parent)
    BY <1>3, <1>5 DEF Missing
  <2>. QED  BY <1>1, <1>5, <2>1, <2>2, DeleteFromArraySole
<1>6. CASE last.idx = Malformed \/ parent.kind \notin {"map", "list"}
  <2>1. h1 = h
    BY <1>2, <1>6
  <2>. QED  BY <2>1
<1>. QED  BY <1>4, <1>5, <1>6

LEMMA DeleteAllSole ==
  ASSUME NEW h, NEW m, HeapOK(h, m), NEW A, Sole(h, m, A), NEW r \in A, r \in m,
         NEW paths \in Seq(Path), NEW h1, h1 = DeleteAll(h, r, paths)
  PROVE  Sole(h1, m, A)
<1>. DEFINE w == Left(h, r, paths)
            S == {i \in Nat : i <= Len(paths) => HeapOK(w[i], m) /\ Sole(w[i], m, A)}
<1>1. /\ h1 = w[Len(paths)] /\ w[0] = h
      /\ \A i \in 1 .. Len(paths) : w[i] = Delete(w[i - 1], r, paths[i])
  BY LeftIs
<1>. HIDE DEF w
<1>2. 0 \in S
  BY <1>1
<1>3. ASSUME NEW i \in Nat, i \in S  PROVE i + 1 \in S
  <2>. SUFFICES ASSUME i + 1 <= Len(paths)  PROVE HeapOK(w[i + 1], m) /\ Sole(w[i + 1], m, A)
    OBVIOUS
  <2>1. i + 1 \in 1 .. Len(paths) /\ (i + 1) - 1 = i
    OBVIOUS
  <2>. DEFINE x == w[i]
              y == w[i + 1]
              p == paths[i + 1]
  <2>2. y = Delete(x, r, p) /\ p \in Path
    BY <1>1, <2>1
  <2>3. HeapOK(x, m) /\ Sole(x, m, A) /\ Region(x, A)
    BY <1>3 DEF Sole
  <2>. HIDE DEF x, y, p
  <2>4. Edits(x, m, y, m, A)
    BY <2>2, <2>3, DeleteEdits
  <2>5. Sole(y, m, A)
    BY <2>2, <2>3, DeleteSole
  <2>. QED  BY <2>4, <2>5 DEF Edits, y
<1>4. \A i \in Nat : i \in S
  <2>. HIDE DEF S
  <2>. QED  BY <1>2, <1>3, Counting
<1>. QED  BY <1>1, <1>4

-----------------------------------------------------------------------------
(* A value that is no object becomes none that is held.                    *)

(* What was made of it: no object, or a new list of what is none.          *)
MadeBare(h, o) ==
    IsContainer(o.value) => o.value.kind = "list" /\ Bare(o.heap, DOMAIN h, {o.value.ref})

LEMMA OperationMadeBare ==
  ASSUME NEW h, NEW p, MadeBare(h, p), NEW m, HeapOK(p.heap, m), DOMAIN h \in SUBSET DOMAIN p.heap,
         NEW op, NEW o \in ApplyTransformOp(p.heap, p.value, op)
  PROVE  MadeBare(h, o)
<1>. DEFINE g == p.heap
            v == p.value
<1>1. \/ o.heap = g /\ (o.value = v \/ o.value = Scalar)
      \/ o = ListOf(g, <<v>>) /\ v.kind # "list"
  BY DEF ApplyTransformOp, Scalar
<1>2. HeapOK(g, m) /\ DOMAIN h \subseteq DOMAIN g
  OBVIOUS
<1>3. IsContainer(v) => v.kind = "list" /\ Bare(g, DOMAIN h, {v.ref})
  BY DEF MadeBare
<1>. HIDE DEF g, v
<1>4. CASE o.heap = g /\ (o.value = v \/ o.value = Scalar)
  <2>1. ASSUME o.value = v  PROVE MadeBare(h, o)
    BY <1>3, <1>4, <2>1 DEF MadeBare
  <2>2. ASSUME o.value = Scalar  PROVE MadeBare(h, o)
    <3>1. ~IsContainer(Scalar)
      BY DEF Scalar, IsContainer
    <3>. QED  BY <2>2, <3>1 DEF MadeBare
  <2>. QED  BY <1>4, <2>1, <2>2
<1>5. CASE o = ListOf(g, <<v>>) /\ v.kind # "list"
  <2>. DEFINE f == Fresh(g)
              u == <<v>>
  <2>1. f \in Nat /\ f \notin DOMAIN g
    BY <1>2, FreshIsNew DEF HeapOK
  <2>2. o.value.ref = f /\ o.value.kind = "list" /\ o.heap = With(g, f, u)
    BY <1>5 DEF ListOf, New, SliceAt
  <2>3. \A k \in DOMAIN u : ~IsContainer(u[k])
    BY <1>3, <1>5
  <2>. HIDE DEF f, u
  <2>4. DOMAIN o.heap = DOMAIN g \cup {f} /\ o.heap[f] = u
    BY <2>2 DEF With
  <2>5. Held(o.heap, f) = {}
    BY <2>3, <2>4 DEF Held
  <2>. QED  BY <1>2, <2>1, <2>2, <2>4, <2>5 DEF MadeBare, Bare
<1>. QED  BY <1>1, <1>4, <1>5

LEMMA TransformsMadeBare ==
  ASSUME NEW h, NEW m, NEW R, HeapOK(h, m), Region(h, R), NEW v, SlotIn(h, m, R, v), ~IsContainer(v),
         NEW ops \in Seq(Operations), NEW t \in ApplyTransforms(h, v, ops)
  PROVE  MadeBare(h, t)
<1>. DEFINE w == Outs(h, v, ops)
            L == Len(ops)
            S == {i \in Nat : i <= L => \A o \in w[i] : Transformed(h, m, R, o) /\ MadeBare(h, o)}
<1>1. /\ ApplyTransforms(h, v, ops) = w[L] /\ w[0] = {[ok |-> TRUE, value |-> v, heap |-> h]}
      /\ \A i \in 1 .. L : w[i] = Applied(w[i - 1], ops[i])
  BY OutsIs
<1>2. L \in Nat
  OBVIOUS
<1>. HIDE DEF w, L
<1>3. 0 \in S
  <2>. DEFINE o == [ok |-> TRUE, value |-> v, heap |-> h]
  <2>1. Transformed(h, m, R, o)
    <3>1. TRUE \in BOOLEAN
      OBVIOUS
    <3>. QED  BY <3>1, SameTransformed
  <2>2. MadeBare(h, o)
    <3>1. o.value = v
      OBVIOUS
    <3>. QED  BY <3>1 DEF MadeBare
  <2>3. \A p \in w[0] : p = o
    BY <1>1
  <2>. HIDE DEF o
  <2>4. \A p \in w[0] : Transformed(h, m, R, p) /\ MadeBare(h, p)
    BY <2>1, <2>2, <2>3
  <2>. QED  BY <2>4
<1>4. ASSUME NEW i \in Nat, i \in S  PROVE i + 1 \in S
  <2>. SUFFICES ASSUME i + 1 <= L, NEW o \in w[i + 1]  PROVE Transformed(h, m, R, o) /\ MadeBare(h, o)
    OBVIOUS
  <2>1. i + 1 \in 1 .. L /\ (i + 1) - 1 = i /\ i <= L
    BY <1>2
  <2>2. o \in Applied(w[i], ops[i + 1])
    BY <1>1, <2>1
  <2>3. PICK p \in w[i] : o \in IF p.ok THEN ApplyTransformOp(p.heap, p.value, ops[i + 1]) ELSE {p}
    BY <2>2 DEF Applied
  <2>4. Transformed(h, m, R, p) /\ MadeBare(h, p)
    BY <1>4, <2>1, <2>3
  <2>5. CASE p.ok
    <3>1. PICK m1 : Edits(h, m, p.heap, m1, R)
      BY <2>4 DEF Transformed
    <3>2. HeapOK(p.heap, m1) /\ DOMAIN h \in SUBSET DOMAIN p.heap
      BY <3>1 DEF Edits, Grows
    <3>3. MadeBare(h, o)
      BY <2>3, <2>4, <2>5, <3>2, OperationMadeBare
    <3>. QED  BY <2>3, <2>4, <2>5, <3>3, TransformsOn
  <2>6. CASE ~p.ok
    BY <2>3, <2>4, <2>6
  <2>. QED  BY <2>5, <2>6
<1>5. \A i \in Nat : i \in S
  <2>. HIDE DEF S
  <2>. QED  BY <1>3, <1>4, Counting
<1>. QED  BY <1>1, <1>2, <1>5

-----------------------------------------------------------------------------
(* What is true of the heap between two steps, the objects m its maps.     *)

State(h, m, recs, G) ==
    /\ HeapOK(h, m) /\ Literals \subseteq m /\ recs \in Seq(m)
    /\ Region(h, G) /\ Literals \subseteq G
    /\ SharedIn(h, recs, G)

(* Until a map or a list is written without a copy.                        *)
Alone(h, m, recs) ==
    HeapOK(h, m) /\ Literals \subseteq m /\ recs \in Seq(m) /\ Sole(h, m, DOMAIN h)

LEMMA SeqInto ==
  ASSUME NEW A, NEW s \in Seq(A), NEW B, \A x \in ToSet(s) : x \in B
  PROVE  s \in Seq(B)
BY DEF ToSet

LEMMA RootsIn ==
  ASSUME NEW A, NEW s \in Seq(A)
  PROVE  ToSet(s) \subseteq A
BY DEF ToSet

LEMMA EditedState ==
  ASSUME NEW h, NEW m, NEW recs, NEW G, State(h, m, recs, G), NEW p \in DOMAIN recs,
         NEW R, R = EditRegion(h, recs, p, G), NEW h1, NEW m1, Edits(h, m, h1, m1, R),
         NEW g, g = Live(h1, ToSet(recs))
  PROVE  State(g, m1 \cap DOMAIN g, recs, Reach(h1, G) \cap DOMAIN g)
<1>. DEFINE G1 == Reach(h1, G)
            m2 == m1 \cap DOMAIN g
            roots == ToSet(recs)
<1>1. /\ HeapOK(h, m) /\ Literals \subseteq m /\ recs \in Seq(m) /\ Region(h, G)
      /\ Literals \subseteq G /\ SharedIn(h, recs, G)
  BY DEF State
<1>2. G \subseteq G1 /\ Region(h1, G1) /\ SharedIn(h1, recs, G1)
  <2>1. G1 = Reach(h1, G) /\ InBatch(m, recs, p)
    BY <1>1 DEF InBatch
  <2>. HIDE DEF G1
  <2>. QED  BY <1>1, <2>1, SharedKept
<1>3. HeapOK(h1, m1) /\ m \subseteq m1 /\ m1 \subseteq DOMAIN h1
  BY DEF Edits, Grows, HeapOK
<1>4. roots \subseteq m /\ roots \in SUBSET DOMAIN h1 /\ Literals \subseteq DOMAIN h1
  <2>1. roots \subseteq m
    BY <1>1, RootsIn
  <2>. QED  BY <2>1, <1>1, <1>3
<1>5. HeapOK(g, m2) /\ Lives(h1, g, roots)
  BY <1>3, <1>4, LiveIs
<1>. HIDE DEF G1
<1>6. SharedIn(g, recs, G1 \cap DOMAIN g)
  BY <1>2, <1>3, <1>4, SharedLives
<1>7. Region(g, G1 \cap DOMAIN g)
  <2>1. ClosedIn(g, G1 \cap DOMAIN g)
    BY <1>2, <1>5, ClosedLives DEF Lives, Region
  <2>. QED  BY <2>1 DEF Region
<1>8. Literals \subseteq m2 /\ \A x \in roots : x \in m2
  BY <1>1, <1>3, <1>4, <1>5 DEF Lives
<1>9. recs \in Seq(m2)
  <2>. HIDE DEF m2
  <2>. QED  BY <1>1, <1>8, SeqInto
<1>. QED  BY <1>1, <1>2, <1>5, <1>6, <1>7, <1>8, <1>9 DEF State, G1, Lives

LEMMA EditedAlone ==
  ASSUME NEW h, NEW m, HeapOK(h, m), NEW A, Sole(h, m, A), NEW M, NEW recs \in Seq(M),
         Literals \in SUBSET A, Literals \in SUBSET m, ToSet(recs) \in SUBSET A, ToSet(recs) \in SUBSET m,
         NEW g, g = Live(h, ToSet(recs))
  PROVE  Alone(g, m \cap DOMAIN g, recs)
<1>. DEFINE roots == ToSet(recs)
            m2 == m \cap DOMAIN g
            D  == DOMAIN g
<1>1. A \subseteq DOMAIN h /\ ClosedIn(h, A) /\ IsFiniteSet(DOMAIN h)
  BY DEF Sole, Region, HeapOK
<1>2. HeapOK(g, m2) /\ Lives(h, g, roots)
  <2>1. roots \in SUBSET DOMAIN h /\ Literals \subseteq DOMAIN h
    BY <1>1
  <2>. QED  BY <2>1, LiveIs
<1>3. D \subseteq A
  <2>1. D = Reach(h, Literals \cup roots)
    BY DEF Live
  <2>2. Literals \cup roots \subseteq A
    OBVIOUS
  <2>. HIDE DEF D
  <2>. QED  BY <1>1, <2>1, <2>2, ReachIsLeast
<1>4. ClosedIn(g, D)
  BY <1>2, HeapIsClosed
<1>5. Region(g, D)
  BY <1>4 DEF Region
<1>6. \A r, s \in D : \A j \in DOMAIN g[r], k \in DOMAIN g[s] :
         IsContainer(g[r][j]) /\ IsContainer(g[s][k]) /\ g[r][j].ref = g[s][k].ref
            => r = s /\ (r \in m2 => j = k)
  BY <1>2, <1>3 DEF Sole, Lives
<1>7. Sole(g, m2, D)
  BY <1>5, <1>6 DEF Sole
<1>8. Literals \subseteq m2 /\ \A x \in roots : x \in m2
  BY <1>2 DEF Lives
<1>9. recs \in Seq(m2)
  <2>. HIDE DEF m2
  <2>. QED  BY <1>8, SeqInto
<1>. QED  BY <1>2, <1>7, <1>8, <1>9 DEF Alone

-----------------------------------------------------------------------------
(* The inductive invariant.                                                *)

Control ==
    /\ pipeline \in Seq(Filters) /\ Len(pipeline) <= MaxFilters /\ stage \in 0 .. Len(pipeline)
    /\ at \in 1 .. BatchSize + 1 /\ batches \in 1 .. MaxBatches /\ aliased \in BOOLEAN
    /\ Len(records) <= BatchSize

(* Some objects are the maps, the others arrays; what the configuration or *)
(* the attachments have held is closed, and all that two records share.    *)
Typing == \E m \in SUBSET DOMAIN heap : State(heap, m, records, given)

Unshared == ~aliased => \E m \in SUBSET DOMAIN heap : Alone(heap, m, records)

Inv == Control /\ Typing /\ Unshared

LEMMA ObjectIsTyped ==
  ASSUME NEW h, NEW m, HeapOK(h, m), NEW v, ValueIn(h, m, v)
  PROVE  /\ v \in Value
         /\ v.kind = "map" => v.ref \in DOMAIN h /\ DOMAIN h[v.ref] \subseteq Keys
         /\ v.kind = "list" => v.ref \in DOMAIN h /\ h[v.ref] \in Seq(Value) /\ v.len <= Len(h[v.ref])
<1>1. v \in Value
  BY DEF ValueIn
<1>2. ASSUME v.kind = "map"  PROVE v.ref \in DOMAIN h /\ DOMAIN h[v.ref] \subseteq Keys
  BY <1>2 DEF ValueIn, HeapOK, IsMap
<1>3. ASSUME v.kind = "list"
      PROVE  v.ref \in DOMAIN h /\ h[v.ref] \in Seq(Value) /\ v.len <= Len(h[v.ref])
  BY <1>3 DEF ValueIn, HeapOK
<1>. QED  BY <1>1, <1>2, <1>3

LEMMA InvIsTyped == Inv => RecordsType
<1>. SUFFICES ASSUME Inv  PROVE RecordsType
  OBVIOUS
<1>1. PICK m \in SUBSET DOMAIN heap : State(heap, m, records, given)
  BY DEF Inv, Typing
<1>2. HeapOK(heap, m) /\ records \in Seq(m) /\ given \subseteq DOMAIN heap
  BY <1>1 DEF State, Region
<1>3. ASSUME NEW r \in DOMAIN heap, NEW k \in DOMAIN heap[r]  PROVE WellTyped(heap[r][k])
  <2>. DEFINE v == heap[r][k]
  <2>1. ValueIn(heap, m, v)
    BY <1>2 DEF HeapOK
  <2>. HIDE DEF v
  <2>2. WellTyped(v)
    BY <1>2, <2>1, ObjectIsTyped DEF WellTyped
  <2>. QED  BY <2>2 DEF v
<1>4. ASSUME NEW r \in ToSet(records)  PROVE WellTyped(MapAt(r))
  <2>1. r \in m /\ r \in DOMAIN heap /\ r \in Nat
    BY <1>2, RootsIn DEF HeapOK
  <2>2. IsMap(heap[r])
    BY <1>2, <2>1 DEF HeapOK
  <2>3. MapAt(r) \in Value /\ MapAt(r).kind = "map" /\ MapAt(r).ref = r
    BY <2>1 DEF MapAt, Value
  <2>. QED  BY <2>1, <2>2, <2>3 DEF WellTyped, IsMap
<1>5. Control
  BY DEF Inv
<1>. QED  BY <1>2, <1>3, <1>4, <1>5 DEF RecordsType, Control

LEMMA InvIsShared == Inv => SharingIsKnown
<1>. SUFFICES ASSUME Inv  PROVE SharingIsKnown
  OBVIOUS
<1>1. PICK m \in SUBSET DOMAIN heap : State(heap, m, records, given)
  BY DEF Inv, Typing
<1>2. \A i, j \in DOMAIN records :
         i # j => Reach(heap, {records[i]}) \cap Reach(heap, {records[j]}) \subseteq given
  BY <1>1 DEF State, SharedIn
<1>3. ASSUME ~aliased, NEW r \in DOMAIN heap, NEW s \in DOMAIN heap, r # s
      PROVE  Held(heap, r) \cap Held(heap, s) = {}
  <2>1. PICK n \in SUBSET DOMAIN heap : Alone(heap, n, records)
    BY <1>3 DEF Inv, Unshared
  <2>2. ASSUME NEW x \in Held(heap, r), x \in Held(heap, s)  PROVE FALSE
    <3>1. PICK j \in DOMAIN heap[r] : IsContainer(heap[r][j]) /\ heap[r][j].ref = x
      BY SlotOf
    <3>2. PICK k \in DOMAIN heap[s] : IsContainer(heap[s][k]) /\ heap[s][k].ref = x
      BY <2>2, SlotOf
    <3>. QED  BY <1>3, <2>1, <3>1, <3>2 DEF Alone, Sole
  <2>. QED  BY <2>2
<1>. QED  BY <1>2, <1>3 DEF SharingIsKnown

(* A batch that has been loaded.                                           *)
LEMMA BatchState ==
  ASSUME NEW h, NEW m, HeapOK(h, m), Literals \in SUBSET m, NEW G, Region(h, G), Literals \in SUBSET G,
         NEW b, BatchOn(h, m, b, BatchSize)
  PROVE  \E m1 : /\ State(b.heap, m1, b.records, G)
                 /\ Sole(h, m, DOMAIN h) => Alone(b.heap, m1, b.records)
<1>. DEFINE g == b.heap
            recs == b.records
<1>1. DOMAIN h \subseteq DOMAIN g /\ \A r \in DOMAIN h : g[r] = h[r]
  BY DEF BatchOn
<1>2. PICK m1 : /\ HeapOK(g, m1) /\ m \subseteq m1 /\ recs \in Seq(m1) /\ Len(recs) = BatchSize
                /\ Sole(h, m, DOMAIN h) => Sole(g, m1, DOMAIN g)
  BY DEF BatchOn
<1>3. \A j, k \in 1 .. BatchSize : j # k => Separate(g, recs[j], recs[k])
  BY DEF BatchOn
<1>. HIDE DEF g, recs
<1>4. IsFiniteSet(DOMAIN g)
  BY <1>2 DEF HeapOK
<1>5. SharedIn(g, recs, G)
  <2>. SUFFICES ASSUME NEW i \in DOMAIN recs, NEW j \in DOMAIN recs, i # j
                PROVE  Reach(g, {recs[i]}) \cap Reach(g, {recs[j]}) \subseteq G
    BY DEF SharedIn
  <2>. DEFINE r == recs[i]
              s == recs[j]
  <2>1. Separate(g, r, s)
    <3>1. DOMAIN recs = 1 .. BatchSize
      BY <1>2
    <3>. QED  BY <1>3, <3>1
  <2>2. PICK B, C \in SUBSET DOMAIN g :
          ClosedIn(g, B) /\ ClosedIn(g, C) /\ r \in B /\ s \in C /\ B \cap C = {}
    BY <2>1 DEF Separate
  <2>. HIDE DEF r, s
  <2>3. Reach(g, {r}) \subseteq B /\ Reach(g, {s}) \subseteq C
    <3>1. {r} \subseteq B /\ {s} \subseteq C
      BY <2>2
    <3>. QED  BY <1>4, <2>2, <3>1, ReachIsLeast
  <2>. QED  BY <2>2, <2>3 DEF r, s
<1>6. Region(g, G)
  <2>1. \A r \in G : g[r] = h[r]
    BY <1>1 DEF Region
  <2>2. ClosedIn(g, G)
    BY <2>1, ClosedStays DEF Region
  <2>. QED  BY <1>1, <2>2 DEF Region
<1>7. State(g, m1, recs, G)
  BY <1>2, <1>5, <1>6 DEF State
<1>8. Sole(h, m, DOMAIN h) => Alone(g, m1, recs)
  BY <1>2 DEF Alone
<1>. QED  BY <1>7, <1>8 DEF g, recs

(* The attachments of an answer are loaded once and put into every record: *)
(* they are what any two records have in common then.                      *)
LEMMA AttachedState ==
  ASSUME NEW h, NEW m, NEW recs, NEW G, State(h, m, recs, G), NEW att, Decoded(att),
         NEW in, in.heap = h, in.records = recs, NEW out, out = Attached(in, att)
  PROVE  /\ out.records = recs /\ out.shared # {}
         /\ \E m2 : State(out.heap, m2, recs, G \cup out.shared)
<1>. DEFINE n == Max(DOMAIN h)
            g == Load(h, att)
            A == DOMAIN g \ DOMAIN h
            F == [r \in DOMAIN g |-> IF r \in ToSet(recs)
                                     THEN With(g[r], AttachmentsKey, MapAt(n + 1)) ELSE g[r]]
<1>1. /\ HeapOK(h, m) /\ Literals \subseteq m /\ recs \in Seq(m) /\ Region(h, G)
      /\ Literals \subseteq G /\ SharedIn(h, recs, G)
  BY DEF State
<1>2. out.heap = F /\ out.records = recs /\ out.shared = A
  BY DEF Attached
<1>3. DOMAIN F = DOMAIN g /\ \A r \in DOMAIN g : r \notin ToSet(recs) => F[r] = g[r]
  OBVIOUS
<1>4. \A r \in DOMAIN g : r \in ToSet(recs) => F[r] = With(g[r], AttachmentsKey, MapAt(n + 1))
  OBVIOUS
<1>. HIDE DEF F
<1>5. DOMAIN h # {}
  BY <1>1 DEF HeapOK, Literals
<1>6. n \in Nat /\ n + 1 \in Nat /\ Fits(h, att, n) /\ LoadedOn(h, att, n, g)
  BY <1>1, <1>5, LoadIs
<1>. HIDE DEF n, g
<1>7. PICK maps \in SUBSET DOMAIN att : 1 \in maps /\ Typed(att, maps)
  BY DEF Decoded
<1>. DEFINE m1 == m \cup Moved(maps, n)
<1>8. HeapOK(g, m1) /\ m1 \cap DOMAIN h \subseteq m /\ ClosedIn(g, A)
  <2>1. m1 = m \cup Moved(maps, n)
    OBVIOUS
  <2>. HIDE DEF m1
  <2>. QED  BY <1>1, <1>6, <1>7, <2>1, LoadTyped
<1>9. m \subseteq m1 /\ n + 1 \in m1
  <2>1. 1 + n \in Moved(maps, n) /\ 1 + n = n + 1
    BY <1>6, <1>7 DEF Moved
  <2>. QED  BY <2>1
<1>. HIDE DEF m1
<1>10. /\ DOMAIN h \subseteq DOMAIN g /\ n + 1 \in A
       /\ \A r \in DOMAIN h : g[r] = h[r] /\ Held(g, r) = Held(h, r)
  <2>1. n + 1 \in DOMAIN g /\ n + 1 \notin DOMAIN h
    BY <1>6, <1>8, <1>9 DEF HeapOK, Fits
  <2>2. \A r \in DOMAIN h : g[r] = h[r]
    BY <1>6 DEF LoadedOn
  <2>3. \A r \in DOMAIN h : Held(g, r) = Held(h, r)
    BY <2>2 DEF Held
  <2>. QED  BY <1>6, <2>1, <2>2, <2>3 DEF LoadedOn
<1>11. ToSet(recs) \subseteq m /\ m \subseteq DOMAIN h
  BY <1>1, RootsIn DEF HeapOK
<1>. DEFINE v == MapAt(n + 1)
<1>12. v \in Value /\ v.kind = "map" /\ v.ref = n + 1 /\ IsContainer(v)
  BY <1>6 DEF MapAt, Value, IsContainer
<1>. HIDE DEF v
<1>13. ASSUME NEW r \in ToSet(recs)
       PROVE  /\ IsMap(F[r]) /\ Held(F, r) \subseteq Held(g, r) \cup {n + 1}
              /\ \A k \in DOMAIN F[r] : F[r][k] = v \/ (k \in DOMAIN g[r] /\ F[r][k] = g[r][k])
  <2>. DEFINE o == g[r]
              p == F[r]
  <2>1. p = With(o, AttachmentsKey, v) /\ r \in DOMAIN g /\ r \in m1
    BY <1>4, <1>9, <1>10, <1>11 DEF v
  <2>2. IsMap(o)
    BY <1>8, <2>1 DEF HeapOK
  <2>. HIDE DEF o, p
  <2>3. /\ DOMAIN p = DOMAIN o \cup {AttachmentsKey} /\ p[AttachmentsKey] = v
        /\ \A k \in DOMAIN o : k # AttachmentsKey => p[k] = o[k]
        /\ p = [k \in DOMAIN p |-> p[k]]
    BY <2>1 DEF With
  <2>4. \A k \in DOMAIN p : p[k] = v \/ (k \in DOMAIN o /\ p[k] = o[k])
    BY <2>3
  <2>5. \A k \in DOMAIN p : p[k] \in Value
    BY <2>2, <2>4, <1>12 DEF IsMap
  <2>6. DOMAIN p \subseteq Keys
    BY <2>2, <2>3, RecordEditsAssumption DEF IsMap
  <2>7. IsMap(p)
    BY <2>3, <2>5, <2>6 DEF IsMap
  <2>8. ASSUME NEW x \in Held(F, r)  PROVE x \in Held(g, r) \cup {n + 1}
    <3>1. PICK k \in DOMAIN p : IsContainer(p[k]) /\ p[k].ref = x
      BY SlotOf DEF p
    <3>2. CASE p[k] = v
      BY <3>1, <3>2, <1>12
    <3>3. CASE k \in DOMAIN o /\ p[k] = o[k]
      BY <3>1, <3>3 DEF Held, o
    <3>. QED  BY <2>4, <3>2, <3>3
  <2>. QED  BY <2>4, <2>7, <2>8 DEF o, p
<1>14. \A r \in DOMAIN g : Held(F, r) \subseteq Held(g, r) \cup {n + 1}
  <2>. SUFFICES ASSUME NEW r \in DOMAIN g, r \notin ToSet(recs)  PROVE Held(F, r) = Held(g, r)
    BY <1>13
  <2>. QED  BY <1>3 DEF Held
<1>15. HeapOK(F, m1)
  <2>1. \A r \in DOMAIN g \ m1 : F[r] = g[r]
    BY <1>3, <1>9, <1>11
  <2>2. ASSUME NEW w, ValueIn(g, m1, w)  PROVE ValueIn(F, m1, w)
    BY <2>1, <2>2, <1>3 DEF ValueIn
  <2>3. ValueIn(F, m1, v)
    BY <1>9, <1>12 DEF ValueIn
  <2>4. ASSUME NEW r \in DOMAIN g, NEW k \in DOMAIN F[r]  PROVE ValueIn(F, m1, F[r][k])
    <3>1. CASE r \in ToSet(recs)
      <4>1. F[r][k] = v \/ (k \in DOMAIN g[r] /\ F[r][k] = g[r][k])
        BY <1>13, <3>1
      <4>2. k \in DOMAIN g[r] => ValueIn(g, m1, g[r][k])
        BY <1>8 DEF HeapOK
      <4>. QED  BY <4>1, <4>2, <2>2, <2>3
    <3>2. CASE r \notin ToSet(recs)
      <4>1. F[r] = g[r]
        BY <1>3, <3>2
      <4>2. ValueIn(g, m1, g[r][k])
        BY <1>8, <4>1 DEF HeapOK
      <4>. QED  BY <4>1, <4>2, <2>2
    <3>. QED  BY <3>1, <3>2
  <2>5. \A r \in m1 : IsMap(F[r])
    BY <1>3, <1>8, <1>13 DEF HeapOK
  <2>. QED  BY <1>3, <1>8, <2>1, <2>4, <2>5 DEF HeapOK
<1>16. ASSUME NEW B, B \in SUBSET DOMAIN h, ClosedIn(h, B)  PROVE Region(F, B \cup A)
  <2>1. \A r \in B : Held(F, r) \subseteq B \cup {n + 1}
    BY <1>10, <1>14, <1>16 DEF ClosedIn
  <2>2. \A r \in A : Held(F, r) \subseteq A
    BY <1>8, <1>10, <1>14 DEF ClosedIn
  <2>3. B \cup A \subseteq DOMAIN F
    BY <1>3, <1>10, <1>16
  <2>. HIDE DEF A
  <2>. QED  BY <1>10, <2>1, <2>2, <2>3 DEF Region, ClosedIn
<1>17. Region(F, G \cup A)
  <2>. HIDE DEF A
  <2>. QED  BY <1>1, <1>16 DEF Region
<1>18. SharedIn(F, recs, G \cup A)
  <2>1. ASSUME NEW r \in ToSet(recs)  PROVE Reach(F, {r}) \subseteq Reach(h, {r}) \cup A
    <3>. DEFINE B == Reach(h, {r})
                S == B \cup A
                one == {r}
    <3>1. r \in B /\ Region(h, B)
      BY <1>1, <1>11, OneReach
    <3>. HIDE DEF B, A
    <3>2. ClosedIn(F, S) /\ one \subseteq S /\ IsFiniteSet(DOMAIN F)
      BY <1>15, <1>16, <3>1 DEF Region, HeapOK
    <3>3. Reach(F, one) \subseteq S
      <4>. HIDE DEF S, one
      <4>. QED  BY <3>2, ReachIsLeast
    <3>. QED  BY <3>3 DEF B
  <2>2. \A i \in DOMAIN recs : recs[i] \in ToSet(recs)
    BY DEF ToSet
  <2>. HIDE DEF A
  <2>. QED  BY <1>1, <2>1, <2>2 DEF SharedIn
<1>19. Literals \subseteq m1 /\ recs \in Seq(m1)
  BY <1>1, <1>9
<1>. HIDE DEF A
<1>20. State(F, m1, recs, G \cup A)
  BY <1>1, <1>15, <1>17, <1>18, <1>19 DEF State
<1>. QED  BY <1>2, <1>10, <1>20

LEMMA ConfiguredIs ==
  HeapOK(Configured, Literals) /\ Sole(Configured, Literals, DOMAIN Configured) /\ DOMAIN Configured = Literals
<1>. DEFINE key == CHOOSE k \in Keys : TRUE
            one == With(Empty, key, Scalar)
<1>1. key \in Keys
  BY RecordEditsAssumption
<1>2. DOMAIN Configured = Literals /\ Configured[1] = one /\ Configured[2] = Empty
  BY DEF Configured, Literals
<1>. HIDE DEF key
<1>3. DOMAIN one = {key} /\ one[key] = Scalar
  BY EmptyIsMap DEF With
<1>4. Scalar \in Value /\ ~IsContainer(Scalar)
  BY DEF Scalar, Value, IsContainer
<1>5. IsMap(one)
  <2>1. one = [k \in {key} |-> one[k]]
    BY EmptyIsMap DEF With
  <2>. HIDE DEF one
  <2>2. \A k \in DOMAIN one : one[k] \in Value
    BY <1>3, <1>4
  <2>3. one \in [DOMAIN one -> Value]
    BY <1>3, <2>1, <2>2
  <2>. QED  BY <1>1, <1>3, <2>3 DEF IsMap
<1>. HIDE DEF one
<1>6. \A r \in Literals : \A k \in DOMAIN Configured[r] : Configured[r][k] = Scalar
  BY <1>2, <1>3, EmptyIsMap DEF Literals
<1>7. IsFiniteSet(Literals) /\ Literals \subseteq Nat
  <2>1. Literals = {1} \cup {2}
    BY DEF Literals
  <2>2. IsFiniteSet({1}) /\ IsFiniteSet({2})
    BY FS_Singleton
  <2>3. IsFiniteSet(Literals)
    BY <2>1, <2>2, FS_Union
  <2>4. Literals \subseteq Nat
    BY DEF Literals
  <2>. QED  BY <2>3, <2>4
<1>8. \A r \in Literals : IsMap(Configured[r])
  BY <1>2, <1>5, EmptyIsMap DEF Literals
<1>9. HeapOK(Configured, Literals)
  <2>1. \A r \in Literals : \A k \in DOMAIN Configured[r] : ValueIn(Configured, Literals, Configured[r][k])
    BY <1>4, <1>6 DEF ValueIn, Scalar
  <2>. QED  BY <1>2, <1>7, <1>8, <2>1 DEF HeapOK
<1>10. Sole(Configured, Literals, DOMAIN Configured)
  <2>1. \A r \in DOMAIN Configured : \A k \in DOMAIN Configured[r] : ~IsContainer(Configured[r][k])
    BY <1>2, <1>4, <1>6
  <2>2. ClosedIn(Configured, DOMAIN Configured)
    BY <1>9, HeapIsClosed
  <2>. QED  BY <2>1, <2>2 DEF Sole, Region
<1>. QED  BY <1>2, <1>9, <1>10

(* What is fetched: a batch, or a batch with attachments.                  *)
FetchedFrom(in, b) ==
    /\ in.records = b.records
    /\ \A m, G : State(b.heap, m, b.records, G)
         => /\ \E k : State(in.heap, k, in.records, G \cup in.shared)
            /\ in.shared = {} => in.heap = b.heap

LEMMA FetchedState ==
  ASSUME NEW h, NEW shape, NEW in \in Fetched(h, shape)
  PROVE  FetchedFrom(in, LoadBatch(h, shape))
<1>. DEFINE b == LoadBatch(h, shape)
<1>. DEFINE plain == [heap |-> b.heap, records |-> b.records, shared |-> {}]
<1>1. in = plain \/ \E att \in Attachments : in = Attached(b, att)
  BY DEF Fetched
<1>2. plain.heap = b.heap /\ plain.records = b.records /\ plain.shared = {}
  OBVIOUS
<1>. HIDE DEF b
<1>. SUFFICES FetchedFrom(in, b)
  BY DEF b
<1>3. CASE in = plain
  <2>1. in.heap = b.heap /\ in.records = b.records /\ in.shared = {}
    BY <1>2, <1>3
  <2>2. ASSUME NEW m, NEW G, State(b.heap, m, b.records, G)
        PROVE  \E k : State(in.heap, k, in.records, G \cup in.shared)
    <3>1. G \cup in.shared = G
      BY <2>1
    <3>. QED  BY <2>1, <2>2, <3>1
  <2>. QED  BY <2>1, <2>2 DEF FetchedFrom
<1>4. ASSUME NEW att \in Attachments, in = Attached(b, att)  PROVE FetchedFrom(in, b)
  <2>1. Decoded(att)
    BY RecordEditsAssumption
  <2>2. ASSUME NEW m, NEW G, State(b.heap, m, b.records, G)
        PROVE  /\ in.records = b.records /\ in.shared # {}
               /\ \E k : State(in.heap, k, in.records, G \cup in.shared)
    <3>. DEFINE g == b.heap
                recs == b.records
    <3>1. State(g, m, recs, G) /\ b.heap = g /\ b.records = recs
      BY <2>2
    <3>. HIDE DEF g, recs
    <3>2. /\ in.records = recs /\ in.shared # {}
          /\ \E m2 : State(in.heap, m2, recs, G \cup in.shared)
      BY <2>1, <3>1, <1>4, AttachedState
    <3>. QED  BY <3>2 DEF recs
  <2>3. in.records = b.records
    BY <1>4 DEF Attached
  <2>. QED  BY <2>2, <2>3 DEF FetchedFrom
<1>. QED  BY <1>1, <1>3, <1>4

LEMMA InitInv == Init => Inv
<1>. SUFFICES ASSUME Init  PROVE Inv
  OBVIOUS
<1>1. PICK shape \in Shapes : \E in \in Fetched(Configured, shape) :
         /\ heap = in.heap /\ records = in.records
         /\ given = Literals \cup in.shared /\ aliased = (in.shared # {})
  BY DEF Init
<1>2. PICK in \in Fetched(Configured, shape) :
         /\ heap = in.heap /\ records = in.records
         /\ given = Literals \cup in.shared /\ aliased = (in.shared # {})
  BY <1>1
<1>. DEFINE b == LoadBatch(Configured, shape)
            G == Literals
            h == Configured
            m == Literals
<1>3. HeapOK(h, m) /\ Sole(h, m, DOMAIN h) /\ DOMAIN h = m /\ DOMAIN h # {}
  BY ConfiguredIs DEF Literals
<1>4. b = LoadBatch(h, shape) /\ in \in Fetched(h, shape)
  OBVIOUS
<1>5. BatchOn(h, m, b, BatchSize)
  <2>. HIDE DEF b, h, m
  <2>. QED  BY <1>3, <1>4, BatchLoaded
<1>6. Region(h, G) /\ Literals \in SUBSET m /\ Literals \in SUBSET G
  BY <1>3 DEF Sole
<1>7. given = G \cup in.shared
  BY <1>2
<1>. HIDE DEF b, G, h, m
<1>8. PICK m1 : State(b.heap, m1, b.records, G) /\ Alone(b.heap, m1, b.records)
  BY <1>3, <1>5, <1>6, BatchState
<1>9. /\ in.records = b.records
      /\ \E k : State(in.heap, k, in.records, G \cup in.shared)
      /\ in.shared = {} => in.heap = b.heap
  <2>1. FetchedFrom(in, b)
    BY <1>4, FetchedState
  <2>. QED  BY <2>1, <1>8 DEF FetchedFrom
<1>10. Typing
  <2>1. PICK k : State(in.heap, k, in.records, G \cup in.shared)
    BY <1>9
  <2>2. k \in SUBSET DOMAIN in.heap
    BY <2>1 DEF State, HeapOK
  <2>. QED  BY <1>2, <1>7, <2>1, <2>2 DEF Typing
<1>11. Unshared
  <2>1. m1 \in SUBSET DOMAIN b.heap
    BY <1>8 DEF State, HeapOK
  <2>. QED  BY <1>2, <1>8, <1>9, <2>1 DEF Unshared
<1>12. Control
  <2>1. Len(records) = BatchSize
    BY <1>2, <1>5, <1>9 DEF BatchOn
  <2>2. BatchSize \in Nat \ {0} /\ MaxFilters \in Nat /\ MaxBatches \in Nat \ {0}
    BY RecordEditsAssumption
  <2>3. pipeline = <<>> /\ stage = 0 /\ at = BatchSize + 1 /\ batches = 1 /\ aliased \in BOOLEAN
    BY <1>2 DEF Init
  <2>4. pipeline \in Seq(Filters) /\ Len(pipeline) = 0
    BY <2>3
  <2>5. Len(pipeline) <= MaxFilters /\ stage \in 0 .. Len(pipeline)
    BY <2>2, <2>3, <2>4
  <2>6. at \in 1 .. BatchSize + 1 /\ batches \in 1 .. MaxBatches /\ Len(records) <= BatchSize
    BY <2>1, <2>2, <2>3
  <2>. QED  BY <2>3, <2>4, <2>5, <2>6 DEF Control
<1>. QED  BY <1>10, <1>11, <1>12 DEF Inv

(* The filter an edit runs, and the record it is at.                       *)
LEMMA FilterIs ==
  ASSUME Control, NEW m, records \in Seq(m), NEW op, AtRecord(op)
  PROVE  /\ filter \in Filters /\ filter.op = op /\ at \in DOMAIN records
         /\ op = "set" => filter.targets[1] \in Path /\ filter.literal \in {0, 1}
         /\ op = "remove" => filter.targets \in Seq(Path)
         /\ op = "mapping" => /\ filter.targets[1] \in Path /\ filter.source \in Seq(Segment)
                              /\ filter.literal \in {0, 2} /\ filter.transforms \in Seq(Operations)
<1>1. stage \in 1 .. Len(pipeline) /\ at \in DOMAIN records
  BY DEF Control, AtRecord
<1>2. filter \in Filters /\ filter.op = op
  BY <1>1 DEF Control, filter, AtRecord
<1>. DEFINE f == filter
<1>3. /\ f \in SetFilters \/ f \in RemoveFilters \/ f \in MappingFilters
      /\ f.op # "remove" => Len(f.targets) = 1
  BY <1>2, RecordEditsAssumption
<1>4. f.op = op
  BY <1>2
<1>. HIDE DEF f
<1>5. CASE f \in SetFilters
  <2>1. f.op = "set" /\ f.targets \in Seq(Path) /\ f.literal \in {0, 1}
    BY <1>5 DEF SetFilters
  <2>2. f.targets[1] \in Path
    BY <1>3, <2>1
  <2>. QED  BY <1>1, <1>2, <1>4, <2>1, <2>2 DEF f
<1>6. CASE f \in RemoveFilters
  <2>1. f.op = "remove" /\ f.targets \in Seq(Path)
    BY <1>6 DEF RemoveFilters
  <2>. QED  BY <1>1, <1>2, <1>4, <2>1 DEF f
<1>7. CASE f \in MappingFilters
  <2>1. /\ f.op = "mapping" /\ f.targets \in Seq(Path) /\ f.source \in Seq(Segment)
        /\ f.literal \in {0, 2} /\ f.transforms \in Seq(Operations)
    BY <1>7 DEF MappingFilters
  <2>2. f.targets[1] \in Path
    BY <1>3, <2>1
  <2>. QED  BY <1>1, <1>2, <1>4, <2>1, <2>2 DEF f
<1>. QED  BY <1>3, <1>5, <1>6, <1>7

(* The objects of some records are held once each.                         *)
Lone(h, recs) ==
    \E m, A : /\ HeapOK(h, m) /\ Sole(h, m, A)
              /\ Literals \subseteq A \cap m /\ ToSet(recs) \subseteq A \cap m

LEMMA LoneLives ==
  ASSUME NEW h, NEW M, NEW recs \in Seq(M), Lone(h, recs), NEW g, g = Live(h, ToSet(recs))
  PROVE  \E m \in SUBSET DOMAIN g : Alone(g, m, recs)
<1>1. PICK m, A : /\ HeapOK(h, m) /\ Sole(h, m, A)
                  /\ Literals \subseteq A \cap m /\ ToSet(recs) \subseteq A \cap m
  BY DEF Lone
<1>2. /\ Literals \in SUBSET A /\ Literals \in SUBSET m
      /\ ToSet(recs) \in SUBSET A /\ ToSet(recs) \in SUBSET m
  BY <1>1
<1>3. Alone(g, m \cap DOMAIN g, recs)
  BY <1>1, <1>2, EditedAlone
<1>. QED  BY <1>3

(* A step that edits a record.                                             *)
LEMMA EditedKeeps ==
  ASSUME Inv, NEW m, State(heap, m, records, given), at \in DOMAIN records,
         NEW h1, NEW m1, Edits(heap, m, h1, m1, EditRegion(heap, records, at, given)),
         NEW paths, NEW ok, NEW value, Edited(h1, paths, ok, value),
         aliased' \in BOOLEAN, ~aliased' => Lone(h1, records)
  PROVE  Inv'
<1>. DEFINE g == heap'
            G1 == given'
            m2 == m1 \cap DOMAIN g
<1>1. /\ g = Live(h1, ToSet(records)) /\ G1 = Reach(h1, given) \cap DOMAIN g /\ at' = at + 1
      /\ records' = records /\ pipeline' = pipeline /\ stage' = stage /\ batches' = batches
  BY DEF Edited
<1>2. records \in Seq(m)
  BY DEF State
<1>. HIDE DEF g, G1
<1>3. State(g, m2, records, G1)
  <2>. DEFINE R == EditRegion(heap, records, at, given)
  <2>1. R = EditRegion(heap, records, at, given) /\ Edits(heap, m, h1, m1, R)
    OBVIOUS
  <2>. HIDE DEF R
  <2>2. State(g, m1 \cap DOMAIN g, records, Reach(h1, given) \cap DOMAIN g)
    BY <1>1, <2>1, EditedState
  <2>. QED  BY <1>1, <2>2
<1>4. Typing'
  BY <1>1, <1>3 DEF Typing, g, G1
<1>5. Unshared'
  <2>1. ASSUME ~aliased'  PROVE \E n \in SUBSET DOMAIN g : Alone(g, n, records)
    BY <1>1, <1>2, <2>1, LoneLives
  <2>. QED  BY <1>1, <2>1 DEF Unshared, g
<1>6. Control'
  <2>1. at + 1 \in 1 .. BatchSize + 1
    BY <1>2, RecordEditsAssumption DEF Inv, Control
  <2>. QED  BY <1>1, <2>1 DEF Inv, Control
<1>. QED  BY <1>4, <1>5, <1>6 DEF Inv

(* The record is part of what its edit may change, and so are the objects  *)
(* of the configuration.                                                   *)
LEMMA RegionIs ==
  ASSUME NEW h, NEW m, NEW recs, NEW G, State(h, m, recs, G), NEW p \in DOMAIN recs,
         NEW R, R = EditRegion(h, recs, p, G)
  PROVE  Region(h, R) /\ recs[p] \in R /\ recs[p] \in m /\ Literals \subseteq R
<1>1. recs[p] \in m /\ recs[p] \in DOMAIN h
  BY DEF State, HeapOK
<1>2. recs[p] \in Reach(h, {recs[p]}) /\ Region(h, Reach(h, {recs[p]}))
  BY <1>1, OneReach DEF State
<1>3. Region(h, G) /\ Literals \subseteq G
  BY DEF State
<1>4. Region(h, R)
  BY <1>2, <1>3, UnionIsRegion DEF EditRegion
<1>. QED  BY <1>1, <1>2, <1>3, <1>4 DEF EditRegion

(* Without a copy written so far, an edit starts from objects held once.   *)
LEMMA LoneSoFar ==
  ASSUME Inv, ~aliased
  PROVE  \E n : /\ HeapOK(heap, n) /\ Sole(heap, n, DOMAIN heap) /\ records \in Seq(n)
                /\ Literals \subseteq n \cap DOMAIN heap /\ ToSet(records) \subseteq n \cap DOMAIN heap
<1>1. PICK n \in SUBSET DOMAIN heap : Alone(heap, n, records)
  BY DEF Inv, Unshared
<1>2. ToSet(records) \subseteq n
  BY <1>1, RootsIn DEF Alone
<1>. QED  BY <1>1, <1>2 DEF Alone

(* What is written is no object, or one that holds nothing and is new.     *)
LEMMA SetLone ==
  ASSUME NEW h, NEW m, HeapOK(h, m), NEW A, Sole(h, m, A), NEW recs,
         Literals \subseteq A \cap m, ToSet(recs) \subseteq A \cap m, NEW r \in ToSet(recs),
         NEW path \in Path, NEW grow, NEW F, Bare(h, A, F), NEW v, IsContainer(v) => v.ref \in F,
         ValueIn(h, m, v), NEW s, s = Set(h, r, path, v, grow)
  PROVE  Lone(s.heap, recs)
<1>1. r \in A /\ r \in m
  OBVIOUS
<1>2. SoleFrom(m, A, s.heap)
  BY <1>1, SetSole
<1>. QED  BY <1>2 DEF Lone, SoleFrom

(* Where Set fails it has not come to its value.                           *)
LEMMA SetFails ==
  ASSUME NEW h, NEW r, NEW path, NEW v, NEW grow, ~Set(h, r, path, v, grow).ok
  PROVE  Set(h, r, path, v, grow).heap = Set(h, r, path, Scalar, grow).heap
<1>. DEFINE to   == Descent(h, r, path, grow, Len(path) - 1)
            last == Last(path)
            s(u) == CASE ~to.ok \/ last.idx = Malformed -> [heap |-> to.heap, ok |-> FALSE]
                      [] to.ok /\ last.idx = NoIndex -> [heap |-> Put(to.heap, to.at, last.key, u), ok |-> TRUE]
                      [] OTHER -> [heap |-> SetArrayElement(to.heap, to.at, last.key, last.idx, u, grow), ok |-> TRUE]
<1>1. \A u : Set(h, r, path, u, grow) = s(u)
  BY DEF Set
<1>. HIDE DEF to, last
<1>2. ~s(v).ok
  BY <1>1
<1>3. ~to.ok \/ last.idx = Malformed
  BY <1>2
<1>4. \A u : s(u) = [heap |-> to.heap, ok |-> FALSE]
  BY <1>3 DEF NoIndex, Malformed
<1>. QED  BY <1>1, <1>4

LEMMA SetRecordInv == Inv /\ SetRecord => Inv'
<1>. SUFFICES ASSUME Inv, SetRecord  PROVE Inv'
  OBVIOUS
<1>1. PICK m \in SUBSET DOMAIN heap : State(heap, m, records, given)
  BY DEF Inv, Typing
<1>2. Control /\ records \in Seq(m) /\ HeapOK(heap, m) /\ AtRecord("set")
  BY <1>1 DEF Inv, State, SetRecord
<1>3. at \in DOMAIN records /\ filter.targets[1] \in Path /\ filter.literal \in {0, 1}
  BY <1>2, FilterIs
<1>. DEFINE v == IF filter.literal = 0 THEN Scalar ELSE Literal[filter.literal]
            path == filter.targets[1]
            R == EditRegion(heap, records, at, given)
<1>4. PICK grow \in BOOLEAN :
         LET s == Set(heap, record, path, v, grow)
         IN  IF s.ok
             THEN /\ Edited(s.heap, filter.targets, TRUE, v)
                  /\ aliased' = (aliased \/ IsContainer(v))
             ELSE /\ records' = <<>> /\ heap' = Live(s.heap, {}) /\ edit' = NoEdit
                  /\ given' = Reach(s.heap, given) \cap DOMAIN heap'
                  /\ UNCHANGED <<pipeline, stage, at, batches, aliased>>
  BY DEF SetRecord
<1>. DEFINE s == Set(heap, record, path, v, grow)
            g == s.heap
<1>5. Region(heap, R) /\ record \in R /\ record \in m /\ Literals \subseteq R
  <2>1. R = EditRegion(heap, records, at, given)
    OBVIOUS
  <2>. HIDE DEF R
  <2>. QED  BY <1>1, <1>3, <2>1, RegionIs DEF record
<1>6. v = Scalar \/ v = MapAt(1)
  BY <1>3 DEF Literal, Literals
<1>7. SlotIn(heap, m, R, v)
  <2>. HIDE DEF v, R
  <2>1. 1 \in m /\ 1 \in R
    BY <1>1, <1>5 DEF State, Literals
  <2>. QED  BY <1>6, <2>1 DEF SlotIn, ValueIn, Scalar, MapAt, Value, IsContainer
<1>8. path \in Path
  BY <1>3
<1>. HIDE DEF v, path, R
<1>9. PICK m1 : Edits(heap, m, g, m1, R)
  <2>1. s = Set(heap, record, path, v, grow)
    OBVIOUS
  <2>. HIDE DEF s
  <2>. QED  BY <1>2, <1>5, <1>7, <1>8, <2>1, SetEdits
<1>10. ASSUME ~aliased, NEW u \in {v, Scalar}, ~IsContainer(u)
       PROVE  Lone(Set(heap, record, path, u, grow).heap, records)
  <2>1. PICK n : /\ HeapOK(heap, n) /\ Sole(heap, n, DOMAIN heap) /\ records \in Seq(n)
                 /\ Literals \subseteq n \cap DOMAIN heap /\ ToSet(records) \subseteq n \cap DOMAIN heap
    BY <1>10, LoneSoFar
  <2>. DEFINE A == DOMAIN heap
              F == {}
              x == Set(heap, record, path, u, grow)
  <2>2. Bare(heap, A, F) /\ (IsContainer(u) => u.ref \in F)
    BY <1>10, NothingBare
  <2>3. ValueIn(heap, n, u)
    BY <1>6, <1>10 DEF ValueIn, Scalar, Value, MapAt, IsContainer
  <2>4. record \in ToSet(records)
    BY <1>3 DEF ToSet, record
  <2>5. /\ HeapOK(heap, n) /\ Sole(heap, n, A) /\ Literals \subseteq A \cap n /\ ToSet(records) \subseteq A \cap n
        /\ x = Set(heap, record, path, u, grow)
    BY <2>1
  <2>. HIDE DEF A, F, x
  <2>6. Lone(x.heap, records)
    BY <1>8, <2>2, <2>3, <2>4, <2>5, SetLone
  <2>. QED  BY <2>6 DEF x
<1>11. CASE s.ok
  <2>1. Edited(g, filter.targets, TRUE, v) /\ aliased' = (aliased \/ IsContainer(v))
    BY <1>4, <1>11
  <2>2. aliased \in BOOLEAN /\ IsContainer(v) \in BOOLEAN
    BY <1>2 DEF Control, IsContainer
  <2>3. aliased' \in BOOLEAN /\ (~aliased' => Lone(g, records))
    BY <1>10, <2>1, <2>2
  <2>4. Edits(heap, m, g, m1, EditRegion(heap, records, at, given))
    BY <1>9 DEF R
  <2>. HIDE DEF s
  <2>. QED  BY <1>1, <1>3, <2>1, <2>3, <2>4, EditedKeeps
<1>12. CASE ~s.ok
  <2>1. /\ records' = <<>> /\ heap' = Live(g, {}) /\ given' = Reach(g, given) \cap DOMAIN heap'
        /\ UNCHANGED <<pipeline, stage, at, batches, aliased>>
    BY <1>4, <1>12
  <2>. DEFINE h1 == heap'
              m2 == m1 \cap DOMAIN h1
              G1 == Reach(g, given)
              none == <<>>
  <2>2. HeapOK(g, m1) /\ Literals \subseteq m1 /\ m1 \subseteq DOMAIN g /\ given \subseteq DOMAIN g
    BY <1>1, <1>9 DEF State, Edits, Grows, HeapOK, Region
  <2>3. HeapOK(h1, m2) /\ Lives(g, h1, {})
    <3>1. Literals \subseteq DOMAIN g /\ {} \in SUBSET DOMAIN g
      BY <2>2
    <3>. QED  BY <2>1, <2>2, <3>1, LiveIs
  <2>4. given \subseteq G1 /\ ClosedIn(g, G1)
    BY <2>2, HeapIsClosed, ReachIsClosed DEF HeapOK
  <2>. HIDE DEF s, G1
  <2>5. Region(h1, G1 \cap DOMAIN h1)
    <3>1. ClosedIn(h1, G1 \cap DOMAIN h1)
      BY <2>3, <2>4, ClosedLives DEF Lives
    <3>. QED  BY <3>1 DEF Region
  <2>6. Literals \subseteq m2 /\ Literals \subseteq G1 \cap DOMAIN h1
    BY <1>1, <2>2, <2>3, <2>4 DEF Lives, State
  <2>7. none \in Seq(m2) /\ SharedIn(h1, none, G1 \cap DOMAIN h1)
    BY DEF SharedIn
  <2>8. State(h1, m2, none, G1 \cap DOMAIN h1)
    BY <2>3, <2>5, <2>6, <2>7 DEF State
  <2>9. Typing'
    BY <2>1, <2>8 DEF Typing, G1
  <2>10. ASSUME ~aliased'  PROVE \E n \in SUBSET DOMAIN h1 : Alone(h1, n, none)
    <3>1. ~aliased
      BY <2>1, <2>10
    <3>2. Lone(g, records)
      <4>1. ~IsContainer(Scalar)
        BY DEF Scalar, IsContainer
      <4>2. Lone(Set(heap, record, path, Scalar, grow).heap, records)
        BY <1>10, <3>1, <4>1
      <4>3. g = Set(heap, record, path, Scalar, grow).heap
        BY <1>12, SetFails DEF s
      <4>. QED  BY <4>2, <4>3
    <3>3. PICK n1, A : HeapOK(g, n1) /\ Sole(g, n1, A) /\ Literals \subseteq A \cap n1
      BY <3>2 DEF Lone
    <3>4. /\ ToSet(none) = {} /\ none \in Seq(n1)
      BY DEF ToSet
    <3>5. /\ Literals \in SUBSET A /\ Literals \in SUBSET n1 /\ ToSet(none) \in SUBSET A
          /\ ToSet(none) \in SUBSET n1 /\ h1 = Live(g, ToSet(none))
      BY <2>1, <3>3, <3>4
    <3>. HIDE DEF none, h1
    <3>6. Alone(h1, n1 \cap DOMAIN h1, none)
      BY <3>3, <3>4, <3>5, EditedAlone
    <3>. QED  BY <3>6
  <2>11. Unshared'
    BY <2>1, <2>10 DEF Unshared
  <2>12. Control'
    BY <1>2, <2>1, RecordEditsAssumption DEF Control
  <2>. QED  BY <2>9, <2>11, <2>12 DEF Inv
<1>. QED  BY <1>11, <1>12

(* What an edit that removes needs.                                        *)
LEMMA RemovedKeeps ==
  ASSUME Inv, NEW m, State(heap, m, records, given), at \in DOMAIN records, NEW h1,
         \A n, R : HeapOK(heap, n) /\ Region(heap, R) /\ record \in R /\ record \in n
                     => Edits(heap, n, h1, n, R),
         \A n : HeapOK(heap, n) /\ Sole(heap, n, DOMAIN heap) /\ record \in n
                     => Sole(h1, n, DOMAIN heap),
         NEW paths, Edited(h1, paths, TRUE, Missing), aliased' = aliased
  PROVE  Inv'
<1>. DEFINE R == EditRegion(heap, records, at, given)
<1>1. Region(heap, R) /\ record \in R /\ record \in m
  <2>1. R = EditRegion(heap, records, at, given)
    OBVIOUS
  <2>. HIDE DEF R
  <2>. QED  BY <2>1, RegionIs DEF record
<1>2. Edits(heap, m, h1, m, R)
  BY <1>1 DEF State
<1>3. ASSUME ~aliased  PROVE Lone(h1, records)
  <2>1. PICK n : /\ HeapOK(heap, n) /\ Sole(heap, n, DOMAIN heap) /\ records \in Seq(n)
                 /\ Literals \subseteq n \cap DOMAIN heap /\ ToSet(records) \subseteq n \cap DOMAIN heap
    BY <1>3, LoneSoFar
  <2>2. record \in n /\ record \in DOMAIN heap
    BY <2>1 DEF record, HeapOK
  <2>3. Region(heap, DOMAIN heap)
    BY <2>1 DEF Sole
  <2>4. Edits(heap, n, h1, n, DOMAIN heap)
    BY <2>1, <2>2, <2>3
  <2>5. Sole(h1, n, DOMAIN heap)
    BY <2>1, <2>2
  <2>6. HeapOK(h1, n)
    BY <2>4 DEF Edits
  <2>. QED  BY <2>1, <2>5, <2>6 DEF Lone
<1>4. aliased' \in BOOLEAN /\ (~aliased' => Lone(h1, records))
  BY <1>3 DEF Inv, Control
<1>. QED  BY <1>2, <1>4, EditedKeeps

LEMMA RemoveRecordInv == Inv /\ RemoveRecord => Inv'
<1>. SUFFICES ASSUME Inv, RemoveRecord  PROVE Inv'
  OBVIOUS
<1>1. PICK m \in SUBSET DOMAIN heap : State(heap, m, records, given)
  BY DEF Inv, Typing
<1>2. Control /\ records \in Seq(m) /\ AtRecord("remove")
  BY <1>1 DEF Inv, State, RemoveRecord
<1>. DEFINE paths == filter.targets
            h1    == DeleteAll(heap, record, paths)
<1>3. at \in DOMAIN records /\ paths \in Seq(Path)
  BY <1>2, FilterIs
<1>4. Edited(h1, paths, TRUE, Missing) /\ aliased' = aliased
  BY DEF RemoveRecord
<1>. HIDE DEF paths
<1>5. \A n, R : HeapOK(heap, n) /\ Region(heap, R) /\ record \in R /\ record \in n
                  => Edits(heap, n, h1, n, R)
  BY <1>3, DeleteAllEdits
<1>6. \A n : HeapOK(heap, n) /\ Sole(heap, n, DOMAIN heap) /\ record \in n
                  => Sole(h1, n, DOMAIN heap)
  BY <1>3, DeleteAllSole DEF HeapOK
<1>. HIDE DEF h1
<1>. QED  BY <1>1, <1>3, <1>4, <1>5, <1>6, RemovedKeeps

LEMMA DeleteMappedInv == Inv /\ DeleteMapped => Inv'
<1>. SUFFICES ASSUME Inv, DeleteMapped  PROVE Inv'
  OBVIOUS
<1>1. PICK m \in SUBSET DOMAIN heap : State(heap, m, records, given)
  BY DEF Inv, Typing
<1>2. Control /\ records \in Seq(m) /\ AtRecord("mapping")
  BY <1>1 DEF Inv, State, DeleteMapped
<1>. DEFINE paths == filter.targets
            path  == filter.targets[1]
            h1    == Delete(heap, record, path)
<1>3. at \in DOMAIN records /\ path \in Path
  BY <1>2, FilterIs
<1>4. Edited(h1, paths, TRUE, Missing) /\ aliased' = aliased
  BY DEF DeleteMapped
<1>. HIDE DEF paths, path
<1>5. \A n, R : HeapOK(heap, n) /\ Region(heap, R) /\ record \in R /\ record \in n
                  => Edits(heap, n, h1, n, R)
  BY <1>3, DeleteEdits
<1>6. \A n : HeapOK(heap, n) /\ Sole(heap, n, DOMAIN heap) /\ record \in n
                  => Sole(h1, n, DOMAIN heap)
  BY <1>3, DeleteSole DEF HeapOK
<1>. HIDE DEF h1
<1>. QED  BY <1>1, <1>3, <1>4, <1>5, <1>6, RemovedKeeps

(* What a mapping reads, or writes when there is nothing to read.          *)
Sourced(f) == f.source \in Seq(Segment) /\ f.literal \in {0, 2}

LEMMA SourceIs ==
  ASSUME NEW m, HeapOK(heap, m), Literals \in SUBSET m, NEW R, Region(heap, R), Literals \in SUBSET R,
         record \in R, record \in m, Sourced(filter), GetSourceValue # Missing
  PROVE  SlotIn(heap, m, R, GetSourceValue)
<1>. filter.source \in Seq(Segment) /\ filter.literal \in {0, 2}
  BY DEF Sourced
<1>. DEFINE v == Get(heap, record, filter.source)
            d == IF filter.literal = 0 THEN Scalar ELSE Literal[filter.literal]
<1>1. v = Missing \/ SlotIn(heap, m, R, v)
  <2>. DEFINE path == filter.source
              n == Len(path)
              r == record
  <2>1. path \in Seq(Segment) /\ n \in Nat /\ n <= Len(path) /\ v = Navigate(heap, r, path, n)
    BY DEF Get
  <2>2. r \in R /\ r \in m
    OBVIOUS
  <2>. HIDE DEF path, n, v, r
  <2>. QED  BY <2>1, <2>2, NavigateReads
<1>2. SlotIn(heap, m, R, d)
  <2>1. d = Scalar \/ d = MapAt(2)
    BY DEF Literal, Literals
  <2>2. 2 \in m /\ 2 \in R
    BY DEF Literals
  <2>. HIDE DEF d
  <2>. QED  BY <2>1, <2>2 DEF SlotIn, ValueIn, Scalar, MapAt, Value, IsContainer
<1>3. GetSourceValue \in {v, Null, d, Missing}
  BY DEF GetSourceValue
<1>. HIDE DEF v, d
<1>. QED  BY <1>1, <1>2, <1>3, NullIsAnywhere

LEMMA MapFieldInv == Inv /\ MapField => Inv'
<1>. SUFFICES ASSUME Inv, MapField  PROVE Inv'
  OBVIOUS
<1>1. PICK m \in SUBSET DOMAIN heap : State(heap, m, records, given)
  BY DEF Inv, Typing
<1>2. /\ Control /\ records \in Seq(m) /\ HeapOK(heap, m) /\ Literals \subseteq m
      /\ AtRecord("mapping") /\ GetSourceValue # Missing
  BY <1>1 DEF Inv, State, MapField
<1>. DEFINE v    == GetSourceValue
            path == filter.targets[1]
            ops  == filter.transforms
            R    == EditRegion(heap, records, at, given)
<1>3. /\ at \in DOMAIN records /\ path \in Path /\ filter.source \in Seq(Segment)
      /\ filter.literal \in {0, 2} /\ ops \in Seq(Operations)
  BY <1>2, FilterIs
<1>4. PICK grow \in BOOLEAN, t \in ApplyTransforms(heap, v, ops) :
         LET s == Set(t.heap, record, path, t.value, grow)
         IN  /\ t.ok
             /\ Edited(s.heap, filter.targets, s.ok, t.value)
             /\ aliased' = (aliased \/ (IsContainer(v) /\ IsContainer(t.value)))
  BY DEF MapField
<1>. DEFINE s == Set(t.heap, record, path, t.value, grow)
            g == s.heap
<1>5. Region(heap, R) /\ record \in R /\ record \in m /\ Literals \subseteq R
  <2>1. R = EditRegion(heap, records, at, given)
    OBVIOUS
  <2>. HIDE DEF R
  <2>. QED  BY <1>1, <1>3, <2>1, RegionIs DEF record
<1>6. \A n, Q : (/\ HeapOK(heap, n) /\ Literals \subseteq n /\ Region(heap, Q) /\ Literals \subseteq Q
                 /\ record \in Q /\ record \in n)
                   => SlotIn(heap, n, Q, v)
  <2>1. Sourced(filter) /\ v # Missing
    BY <1>2, <1>3 DEF Sourced
  <2>. SUFFICES ASSUME NEW n, NEW Q, HeapOK(heap, n), Literals \in SUBSET n, Region(heap, Q),
                       Literals \in SUBSET Q, record \in Q, record \in n
                PROVE  SlotIn(heap, n, Q, v)
    OBVIOUS
  <2>. QED  BY <2>1, SourceIs
<1>7. t \in ApplyTransforms(heap, v, ops)
  BY <1>4
<1>. HIDE DEF v, path, R, ops
<1>8. SlotIn(heap, m, R, v)
  BY <1>2, <1>5, <1>6
<1>9. Transformed(heap, m, R, t)
  BY <1>2, <1>3, <1>5, <1>7, <1>8, TransformsTyped
<1>10. PICK m0 : Edits(heap, m, t.heap, m0, R) /\ SlotIn(t.heap, m0, Grown(heap, t.heap, R), t.value)
  BY <1>9 DEF Transformed
<1>11. PICK m1 : Edits(heap, m, g, m1, R)
  <2>. DEFINE x  == t.heap
              w  == t.value
              R0 == Grown(heap, x, R)
  <2>1. HeapOK(x, m0) /\ Region(x, R0) /\ record \in R0 /\ record \in m0 /\ SlotIn(x, m0, R0, w)
    BY <1>5, <1>10, GrownIsRegion DEF Edits, Grows, Grown
  <2>2. s = Set(x, record, path, w, grow)
    OBVIOUS
  <2>3. Edits(heap, m, x, m0, R)
    BY <1>10
  <2>. HIDE DEF s, R0, x, w
  <2>4. PICK m2 : Edits(x, m0, g, m2, R0)
    BY <1>3, <2>1, <2>2, SetEdits
  <2>5. Edits(heap, m, g, m2, R)
    BY <1>2, <2>3, <2>4, EditsOn DEF R0
  <2>. QED  BY <2>5
<1>12. ASSUME ~aliased, ~(IsContainer(v) /\ IsContainer(t.value))  PROVE Lone(g, records)
  <2>. DEFINE x == t.heap
              w == t.value
              A == DOMAIN heap
              F == IF IsContainer(w) THEN {w.ref} ELSE {}
  <2>1. PICK n : /\ HeapOK(heap, n) /\ Sole(heap, n, A) /\ records \in Seq(n)
                 /\ Literals \subseteq n \cap A /\ ToSet(records) \subseteq n \cap A
    BY <1>12, LoneSoFar
  <2>2. record \in ToSet(records) /\ record \in n /\ record \in A
    <3>1. record \in ToSet(records)
      BY <1>3 DEF ToSet, record
    <3>. QED  BY <3>1, <2>1
  <2>3. SlotIn(heap, n, A, v) /\ Region(heap, A)
    <3>1. Region(heap, A) /\ Literals \subseteq n /\ Literals \subseteq A
      BY <2>1 DEF Sole
    <3>2. \A Q : Region(heap, Q) /\ Literals \subseteq Q /\ record \in Q => SlotIn(heap, n, Q, v)
      BY <2>1, <2>2, <1>6
    <3>. HIDE DEF A
    <3>. QED  BY <3>1, <3>2, <2>2
  <2>. HIDE DEF A
  <2>4. PICK n1 : Edits(heap, n, x, n1, A) /\ SlotIn(x, n1, Grown(heap, x, A), w)
    <3>1. Transformed(heap, n, A, t)
      BY <1>3, <1>7, <2>1, <2>3, TransformsTyped
    <3>. QED  BY <3>1 DEF Transformed
  <2>5. \A r \in A : x[r] = heap[r]
    BY <1>9 DEF Transformed, A
  <2>6. Sole(x, n1, A)
    <3>1. A \in SUBSET DOMAIN x /\ n1 \cap A \in SUBSET n
      BY <2>4 DEF Edits, Grows, A
    <3>. HIDE DEF x
    <3>. QED  BY <2>1, <2>5, <3>1, SoleStays
  <2>7. MadeBare(heap, t) \/ ~IsContainer(w)
    <3>1. CASE ~IsContainer(v)
      BY <1>3, <1>7, <2>1, <2>3, <3>1, TransformsMadeBare
    <3>2. CASE IsContainer(v)
      BY <3>2, <1>12
    <3>. QED  BY <3>1, <3>2
  <2>8. Bare(x, A, F) /\ (IsContainer(w) => w.ref \in F)
    <3>1. CASE IsContainer(w)
      BY <3>1, <2>7 DEF MadeBare, A
    <3>2. CASE ~IsContainer(w)
      BY <3>2, NothingBare
    <3>. QED  BY <3>1, <3>2
  <2>9. /\ HeapOK(x, n1) /\ ValueIn(x, n1, w) /\ Literals \subseteq A \cap n1
        /\ ToSet(records) \subseteq A \cap n1
    BY <2>1, <2>4 DEF Edits, Grows, SlotIn
  <2>10. s = Set(x, record, path, w, grow)
    OBVIOUS
  <2>. HIDE DEF x, w, F, s
  <2>. QED  BY <1>3, <2>2, <2>6, <2>8, <2>9, <2>10, SetLone
<1>13. /\ Edited(g, filter.targets, s.ok, t.value)
       /\ aliased' = (aliased \/ (IsContainer(v) /\ IsContainer(t.value)))
  BY <1>4 DEF path
<1>14. aliased' \in BOOLEAN /\ (~aliased' => Lone(g, records))
  <2>1. IsContainer(v) \in BOOLEAN /\ IsContainer(t.value) \in BOOLEAN /\ aliased \in BOOLEAN
    BY <1>2 DEF IsContainer, Control
  <2>2. aliased' = (aliased \/ (IsContainer(v) /\ IsContainer(t.value)))
    BY <1>13
  <2>. QED  BY <2>1, <2>2, <1>12
<1>15. Edits(heap, m, g, m1, EditRegion(heap, records, at, given))
  BY <1>11 DEF R
<1>. HIDE DEF s
<1>. QED  BY <1>1, <1>3, <1>13, <1>14, <1>15, EditedKeeps

(* A step that leaves the heap and the records as they are.                *)
LEMMA NothingEdited ==
  ASSUME Inv, UNCHANGED <<heap, records, given, aliased>>, Control'
  PROVE  Inv'
<1>1. Typing' /\ Unshared'
  BY DEF Inv, Typing, Unshared
<1>. QED  BY <1>1 DEF Inv

LEMMA RecordPassedInv == Inv /\ (MapNothing \/ TransformFails) => Inv'
<1>. SUFFICES ASSUME Inv, MapNothing \/ TransformFails  PROVE Inv'
  OBVIOUS
<1>1. /\ at' = at + 1 /\ at <= Len(records)
      /\ UNCHANGED <<heap, records, pipeline, stage, batches, given, aliased>>
  BY DEF MapNothing, TransformFails, AtRecord
<1>2. Control'
  <2>1. PICK m \in SUBSET DOMAIN heap : records \in Seq(m)
    BY DEF Inv, Typing, State
  <2>2. at \in 1 .. BatchSize + 1 /\ Len(records) <= BatchSize /\ Len(records) \in Nat /\ BatchSize \in Nat
    BY <2>1, RecordEditsAssumption DEF Inv, Control
  <2>3. at + 1 \in 1 .. BatchSize + 1
    BY <1>1, <2>2
  <2>. QED  BY <1>1, <2>3 DEF Inv, Control
<1>. QED  BY <1>1, <1>2, NothingEdited

LEMMA NextFilterInv == ASSUME Inv, NEW f \in Filters, NextFilter(f)  PROVE Inv'
<1>1. stage' = stage + 1 /\ at' = 1 /\ UNCHANGED <<heap, records, batches, given, aliased>>
  BY DEF NextFilter
<1>2. \/ stage < Len(pipeline) /\ pipeline' = pipeline
      \/ stage >= Len(pipeline) /\ stage < MaxFilters /\ pipeline' = Append(pipeline, f)
  <2>1. stage \in 0 .. Len(pipeline) /\ Len(pipeline) \in Nat
    BY DEF Inv, Control
  <2>. QED  BY <2>1 DEF NextFilter
<1>3. /\ pipeline \in Seq(Filters) /\ Len(pipeline) <= MaxFilters /\ stage \in 0 .. Len(pipeline)
      /\ MaxFilters \in Nat /\ BatchSize \in Nat /\ Len(pipeline) \in Nat
  BY RecordEditsAssumption DEF Inv, Control
<1>4. pipeline' \in Seq(Filters) /\ Len(pipeline') <= MaxFilters /\ stage + 1 \in 0 .. Len(pipeline')
  <2>1. CASE stage < Len(pipeline) /\ pipeline' = pipeline
    BY <1>3, <2>1
  <2>2. CASE stage >= Len(pipeline) /\ stage < MaxFilters /\ pipeline' = Append(pipeline, f)
    <3>1. pipeline' \in Seq(Filters) /\ Len(pipeline') = Len(pipeline) + 1
      BY <1>3, <2>2
    <3>. QED  BY <1>3, <2>2, <3>1
  <2>. QED  BY <1>2, <2>1, <2>2
<1>5. 1 \in 1 .. BatchSize + 1
  BY <1>3
<1>6. Control'
  BY <1>1, <1>4, <1>5 DEF Inv, Control
<1>. QED  BY <1>1, <1>6, NothingEdited

LEMMA NextBatchInv == ASSUME Inv, NEW shape \in Shapes, NextBatch(shape)  PROVE Inv'
<1>1. PICK m \in SUBSET DOMAIN heap : State(heap, m, records, given)
  BY DEF Inv, Typing
<1>. DEFINE h == Live(heap, {})
            b == LoadBatch(h, shape)
            G == given \cap DOMAIN h
            n == m \cap DOMAIN h
            none == <<>>
<1>2. /\ batches < MaxBatches /\ batches' = batches + 1 /\ stage' = 0 /\ at' = BatchSize + 1
      /\ UNCHANGED pipeline
      /\ \E in \in Fetched(h, shape) :
            /\ heap' = in.heap /\ records' = in.records
            /\ given' = G \cup in.shared /\ aliased' = (aliased \/ in.shared # {})
  BY DEF NextBatch
<1>3. HeapOK(heap, m) /\ Literals \subseteq m /\ Region(heap, given) /\ Literals \subseteq given
  BY <1>1 DEF State
<1>4. HeapOK(h, n) /\ Lives(heap, h, {})
  <2>1. Literals \subseteq DOMAIN heap /\ {} \in SUBSET DOMAIN heap
    BY <1>3 DEF HeapOK
  <2>2. h = Live(heap, {})
    OBVIOUS
  <2>. HIDE DEF h
  <2>. QED  BY <1>3, <2>1, <2>2, LiveIs
<1>5. ToSet(none) = {} /\ \A M : none \in Seq(M)
  BY DEF ToSet
<1>6. h = Live(heap, ToSet(none)) /\ b = LoadBatch(h, shape)
  BY <1>5
<1>. HIDE DEF b, h, none
<1>7. Region(h, G) /\ Literals \in SUBSET G /\ Literals \in SUBSET n
  <2>1. ClosedIn(h, given \cap DOMAIN h)
    BY <1>3, <1>4, ClosedLives DEF Lives, Region
  <2>. QED  BY <2>1, <1>3, <1>4 DEF Region, Lives
<1>8. DOMAIN h # {}
  BY <1>7 DEF Literals
<1>. HIDE DEF G, n
<1>9. BatchOn(h, n, b, BatchSize)
  BY <1>4, <1>6, <1>8, BatchLoaded
<1>10. PICK m1 : State(b.heap, m1, b.records, G)
  BY <1>4, <1>7, <1>9, BatchState
<1>11. PICK in \in Fetched(h, shape) :
         /\ heap' = in.heap /\ records' = in.records
         /\ given' = G \cup in.shared /\ aliased' = (aliased \/ in.shared # {})
  BY <1>2
<1>12. /\ in.records = b.records
       /\ \E k : State(in.heap, k, in.records, G \cup in.shared)
       /\ in.shared = {} => in.heap = b.heap
  <2>1. FetchedFrom(in, b)
    BY <1>6, FetchedState
  <2>. QED  BY <2>1, <1>10 DEF FetchedFrom
<1>13. Typing'
  <2>1. PICK k : State(in.heap, k, in.records, G \cup in.shared)
    BY <1>12
  <2>2. k \in SUBSET DOMAIN in.heap
    BY <2>1 DEF State, HeapOK
  <2>. QED  BY <1>11, <2>1, <2>2 DEF Typing
<1>14. ASSUME ~aliased  PROVE \E k \in SUBSET DOMAIN b.heap : Alone(b.heap, k, b.records)
  <2>1. PICK p : /\ HeapOK(heap, p) /\ Sole(heap, p, DOMAIN heap) /\ records \in Seq(p)
                 /\ Literals \subseteq p \cap DOMAIN heap /\ ToSet(records) \subseteq p \cap DOMAIN heap
    BY <1>14, LoneSoFar
  <2>. DEFINE A == DOMAIN heap
              q == p \cap DOMAIN h
  <2>2. /\ HeapOK(heap, p) /\ Sole(heap, p, A) /\ none \in Seq(p)
        /\ Literals \in SUBSET A /\ Literals \in SUBSET p
        /\ ToSet(none) \in SUBSET A /\ ToSet(none) \in SUBSET p
    BY <2>1, <1>5
  <2>. HIDE DEF A
  <2>3. Alone(h, p \cap DOMAIN h, none)
    BY <1>6, <2>2, EditedAlone
  <2>4. HeapOK(h, q) /\ Literals \in SUBSET q /\ Sole(h, q, DOMAIN h)
    BY <2>3 DEF Alone
  <2>. HIDE DEF q
  <2>5. BatchOn(h, q, b, BatchSize)
    BY <1>6, <1>8, <2>4, BatchLoaded
  <2>6. PICK k : /\ State(b.heap, k, b.records, G)
                 /\ Sole(h, q, DOMAIN h) => Alone(b.heap, k, b.records)
    BY <1>7, <2>4, <2>5, BatchState
  <2>7. k \in SUBSET DOMAIN b.heap
    BY <2>6 DEF State, HeapOK
  <2>. QED  BY <2>4, <2>6, <2>7
<1>15. Unshared'
  <2>1. ASSUME ~aliased'  PROVE heap' = b.heap /\ records' = b.records /\ ~aliased
    BY <1>11, <1>12, <2>1
  <2>. QED  BY <2>1, <1>14 DEF Unshared
<1>16. Control'
  <2>1. Len(records') = BatchSize
    BY <1>9, <1>11, <1>12 DEF BatchOn
  <2>2. BatchSize \in Nat /\ MaxBatches \in Nat /\ batches \in 1 .. MaxBatches
    BY RecordEditsAssumption DEF Inv, Control
  <2>3. Len(records') <= BatchSize /\ at' \in 1 .. BatchSize + 1 /\ batches' \in 1 .. MaxBatches
    BY <1>2, <2>1, <2>2
  <2>4. stage' \in 0 .. Len(pipeline')
    <3>1. Len(pipeline) \in Nat
      BY DEF Inv, Control
    <3>. QED  BY <1>2, <3>1
  <2>5. aliased' \in BOOLEAN
    BY <1>11
  <2>. QED  BY <1>2, <2>3, <2>4, <2>5 DEF Inv, Control
<1>. QED  BY <1>13, <1>15, <1>16 DEF Inv

LEMMA NextInv == Inv /\ [Next]_vars => Inv'
<1>. SUFFICES ASSUME Inv, [Next]_vars  PROVE Inv'
  OBVIOUS
<1>1. CASE SetRecord
  BY <1>1, SetRecordInv
<1>2. CASE RemoveRecord
  BY <1>2, RemoveRecordInv
<1>3. CASE DeleteMapped
  BY <1>3, DeleteMappedInv
<1>4. CASE MapNothing \/ TransformFails
  BY <1>4, RecordPassedInv
<1>5. CASE MapField
  BY <1>5, MapFieldInv
<1>6. ASSUME NEW f \in Filters, NextFilter(f)  PROVE Inv'
  BY <1>6, NextFilterInv
<1>7. ASSUME NEW shape \in Shapes, NextBatch(shape)  PROVE Inv'
  BY <1>7, NextBatchInv
<1>8. CASE UNCHANGED vars
  BY <1>8 DEF vars, Inv, Control, Typing, Unshared
<1>. QED  BY <1>1, <1>2, <1>3, <1>4, <1>5, <1>6, <1>7, <1>8 DEF Next

(* The invariant holds throughout: what is checked of the objects, and     *)
(* with it which of them are maps and which arrays, and which the          *)
(* configuration or an answer with attachments has given to the records.   *)
THEOREM RecordsInvariant == Spec => []Inv
<1>. QED  BY InitInv, NextInv, PTL DEF Spec

(* Whatever the filters, the records and the paths: no edit loses an       *)
(* object that is still referred to, none makes a list longer than its     *)
(* array, and no object is a map for one holder and an array for another   *)
(* (recordpath.Set, Delete, the mapping's transforms).                     *)
THEOREM RecordsTyped == Spec => []RecordsType
<1>. QED  BY RecordsInvariant, InvIsTyped, PTL

(* Two records of a batch share only what the configuration, or a SOAP     *)
(* answer with attachments (soap_polling.go recordsFromSOAPResponse), has  *)
(* given to them, and what was written below that; and until a map or a    *)
(* list is written without a copy no object is held twice in the whole heap*)
(* (set.go, mapping.go: the value written is the one that was read).       *)
THEOREM RecordsShareTheKnown == Spec => []SharingIsKnown
<1>. QED  BY RecordsInvariant, InvIsShared, PTL

-----------------------------------------------------------------------------
(* What was removed is gone.                                               *)

(* One segment after the other.                                            *)
LEMMA NavigateOn ==
  ASSUME NEW h, NEW r, NEW path, NEW n \in Nat
  PROVE  /\ Navigate(h, r, path, 0) = MapAt(r)
         /\ Navigate(h, r, path, n + 1) = NavigateStep(h, Navigate(h, r, path, n), path[n + 1])
<1>1. Navigate(h, r, path, 0) = MapAt(r)
  <2>1. 0 \in Nat
    OBVIOUS
  <2>. QED  BY <2>1, TrailIs
<1>. DEFINE w == Trail(h, r, path, n)
            u == Trail(h, r, path, n + 1)
            S == {i \in Nat : i <= n => u[i] = w[i]}
<1>2. /\ Navigate(h, r, path, n) = w[n] /\ w[0] = MapAt(r)
      /\ \A i \in 1 .. n : w[i] = NavigateStep(h, w[i - 1], path[i])
  BY TrailIs
<1>3. /\ Navigate(h, r, path, n + 1) = u[n + 1] /\ u[0] = MapAt(r)
      /\ \A i \in 1 .. n + 1 : u[i] = NavigateStep(h, u[i - 1], path[i])
  <2>1. n + 1 \in Nat
    OBVIOUS
  <2>. QED  BY <2>1, TrailIs
<1>. HIDE DEF w, u
<1>4. 0 \in S
  BY <1>2, <1>3
<1>5. ASSUME NEW i \in Nat, i \in S  PROVE i + 1 \in S
  <2>. SUFFICES ASSUME i + 1 <= n  PROVE u[i + 1] = w[i + 1]
    OBVIOUS
  <2>1. i + 1 \in 1 .. n /\ i + 1 \in 1 .. n + 1 /\ (i + 1) - 1 = i /\ i <= n
    OBVIOUS
  <2>2. u[i] = w[i]
    BY <1>5, <2>1
  <2>. QED  BY <1>2, <1>3, <2>1, <2>2
<1>6. \A i \in Nat : i \in S
  <2>. HIDE DEF S
  <2>. QED  BY <1>4, <1>5, Counting
<1>7. u[n] = w[n]
  BY <1>6
<1>8. n + 1 \in 1 .. n + 1 /\ (n + 1) - 1 = n
  OBVIOUS
<1>. QED  BY <1>1, <1>2, <1>3, <1>7, <1>8

(* A step depends on the map, and on the list when there is one.           *)
Looked(h, v, key) ==
    {w.ref : w \in {x \in {v} : x.kind = "map"} \cup {x \in {GetFromMap(h, v, key)} : x.kind = "list"}}

LEMMA StepAgrees ==
  ASSUME NEW h, NEW g, NEW v, NEW part \in Segment, \A o \in Looked(h, v, part.key) : g[o] = h[o]
  PROVE  NavigateStep(g, v, part) = NavigateStep(h, v, part)
<1>. DEFINE key == part.key
            u == GetFromMap(h, v, key)
<1>1. v.kind = "map" => g[v.ref] = h[v.ref]
  BY DEF Looked
<1>2. u.kind = "list" => g[u.ref] = h[u.ref]
  BY DEF Looked
<1>3. GetFromMap(g, v, key) = u
  <2>1. CASE v.kind = "map"
    BY <1>1, <2>1 DEF GetFromMap
  <2>2. CASE v.kind # "map"
    BY <2>2 DEF GetFromMap
  <2>. QED  BY <2>1, <2>2
<1>. HIDE DEF u, key
<1>4. \A idx : GetFromArray(g, u, idx) = GetFromArray(h, u, idx)
  <2>1. CASE u.kind = "list"
    BY <1>2, <2>1 DEF GetFromArray
  <2>2. CASE u.kind # "list"
    BY <2>2 DEF GetFromArray
  <2>. QED  BY <2>1, <2>2
<1>5. part.idx \in Nat \cup {NoIndex, Malformed}
  BY DEF Segment
<1>6. CASE part.idx = Malformed
  BY <1>6 DEF NavigateStep, NoIndex, Malformed
<1>7. CASE part.idx = NoIndex
  BY <1>7, <1>3 DEF NavigateStep, NoIndex, Malformed, u, key
<1>8. CASE part.idx \in Nat
  <2>1. /\ NavigateStep(g, v, part) = GetFromArray(g, GetFromMap(g, v, key), part.idx)
        /\ NavigateStep(h, v, part) = GetFromArray(h, u, part.idx)
    BY <1>8 DEF NavigateStep, NoIndex, Malformed, u, key
  <2>. QED  BY <2>1, <1>3, <1>4
<1>. QED  BY <1>5, <1>6, <1>7, <1>8

LEMMA LookedIn ==
  ASSUME NEW h, NEW m, NEW R, HeapOK(h, m), Region(h, R), NEW v, v = Missing \/ SlotIn(h, m, R, v),
         NEW key
  PROVE  \A o \in Looked(h, v, key) : o \in R
<1>. DEFINE u == GetFromMap(h, v, key)
<1>1. v.kind = "map" => v.ref \in R
  BY DEF Missing, SlotIn, IsContainer
<1>2. u.kind = "list" => u.ref \in R
  <2>1. CASE v.kind = "map" /\ key \in DOMAIN h[v.ref]
    <3>1. v.ref \in R /\ u = h[v.ref][key]
      BY <1>1, <2>1 DEF GetFromMap
    <3>2. SlotIn(h, m, R, u)
      BY <2>1, <3>1, SlotsAreHeld
    <3>. QED  BY <3>2 DEF SlotIn, IsContainer
  <2>2. CASE ~(v.kind = "map" /\ key \in DOMAIN h[v.ref])
    BY <2>2 DEF GetFromMap, Missing
  <2>. QED  BY <2>1, <2>2
<1>. QED  BY <1>1, <1>2 DEF Looked

(* What is not reached does not matter.                                    *)
LEMMA NavigateLives ==
  ASSUME NEW h, NEW m, NEW R, HeapOK(h, m), Region(h, R), NEW r \in R, r \in m,
         NEW path \in Seq(Segment), NEW n \in Nat, n <= Len(path),
         NEW g, \A x \in R : g[x] = h[x]
  PROVE  Navigate(g, r, path, n) = Navigate(h, r, path, n)
<1>. DEFINE S == {i \in Nat : i <= n => Navigate(g, r, path, i) = Navigate(h, r, path, i)}
<1>1. 0 \in S
  <2>1. 0 \in Nat
    OBVIOUS
  <2>2. Navigate(g, r, path, 0) = MapAt(r)
    BY <2>1, NavigateOn
  <2>3. Navigate(h, r, path, 0) = MapAt(r)
    BY <2>1, NavigateOn
  <2>. QED  BY <2>2, <2>3
<1>2. ASSUME NEW i \in Nat, i \in S  PROVE i + 1 \in S
  <2>. SUFFICES ASSUME i + 1 <= n
                PROVE  Navigate(g, r, path, i + 1) = Navigate(h, r, path, i + 1)
    OBVIOUS
  <2>. DEFINE v == Navigate(h, r, path, i)
              part == path[i + 1]
  <2>1. part \in Segment /\ i <= Len(path)
    OBVIOUS
  <2>2. v = Missing \/ SlotIn(h, m, R, v)
    BY <2>1, NavigateReads
  <2>3. Navigate(g, r, path, i) = v
    BY <1>2
  <2>4. /\ Navigate(g, r, path, i + 1) = NavigateStep(g, v, part)
        /\ Navigate(h, r, path, i + 1) = NavigateStep(h, v, part)
    <3>1. Navigate(g, r, path, i + 1) = NavigateStep(g, Navigate(g, r, path, i), part)
      BY NavigateOn
    <3>2. Navigate(h, r, path, i + 1) = NavigateStep(h, v, part)
      BY NavigateOn
    <3>. QED  BY <2>3, <3>1, <3>2
  <2>. HIDE DEF v, part
  <2>5. \A o \in Looked(h, v, part.key) : g[o] = h[o]
    <3>1. \A key : \A o \in Looked(h, v, key) : o \in R
      BY <2>2, LookedIn
    <3>. QED  BY <3>1
  <2>6. NavigateStep(g, v, part) = NavigateStep(h, v, part)
    BY <2>1, <2>5, StepAgrees
  <2>. QED  BY <2>4, <2>6
<1>3. \A i \in Nat : i \in S
  <2>. HIDE DEF S
  <2>. QED  BY <1>1, <1>2, Counting
<1>. QED  BY <1>3

(* A value as it was, gone, or a list that was one: what deletions make of *)
(* what is found along keys.                                               *)
Less(v, w) == w = Missing \/ w = v \/ (v.kind = "list" /\ w.kind = "list")

LEMMA StepShrinks ==
  ASSUME NEW h, NEW m, NEW R, HeapOK(h, m), Region(h, R), NEW v, v = Missing \/ SlotIn(h, m, R, v),
         NEW g, Shrinks(h, m, g), NEW w, Less(v, w), NEW part \in Segment, part.idx = NoIndex
  PROVE  Less(NavigateStep(h, v, part), NavigateStep(g, w, part))
<1>. DEFINE key == part.key
<1>1. /\ NavigateStep(h, v, part) = GetFromMap(h, v, key)
      /\ NavigateStep(g, w, part) = GetFromMap(g, w, key)
  BY DEF NavigateStep, NoIndex, Malformed
<1>. HIDE DEF key
<1>2. CASE w.kind # "map"
  <2>1. GetFromMap(g, w, key) = Missing
    BY <1>2 DEF GetFromMap
  <2>. QED  BY <1>1, <2>1 DEF Less
<1>3. CASE w.kind = "map"
  <2>1. w = v /\ v.ref \in m
    BY <1>3 DEF Less, Missing, SlotIn, ValueIn
  <2>2. CASE key \in DOMAIN g[v.ref]
    <3>1. key \in DOMAIN h[v.ref] /\ Less(h[v.ref][key], g[v.ref][key])
      BY <2>1, <2>2 DEF Shrinks, Less
    <3>2. GetFromMap(h, v, key) = h[v.ref][key] /\ GetFromMap(g, w, key) = g[v.ref][key]
      BY <1>3, <2>1, <2>2, <3>1 DEF GetFromMap
    <3>. QED  BY <1>1, <3>1, <3>2
  <2>3. CASE key \notin DOMAIN g[v.ref]
    <3>1. GetFromMap(g, w, key) = Missing
      BY <2>1, <2>3 DEF GetFromMap
    <3>. QED  BY <1>1, <3>1 DEF Less
  <2>. QED  BY <2>2, <2>3
<1>. QED  BY <1>2, <1>3

(* Paths without an index.                                                 *)
LEMMA NavigateShrinks ==
  ASSUME NEW h, NEW m, NEW R, HeapOK(h, m), Region(h, R), NEW r \in R, r \in m,
         NEW path \in Seq(Segment), ~HasIndex(path), NEW n \in Nat, n <= Len(path),
         NEW g, Shrinks(h, m, g)
  PROVE  Less(Navigate(h, r, path, n), Navigate(g, r, path, n))
<1>. DEFINE S == {i \in Nat : i <= n => Less(Navigate(h, r, path, i), Navigate(g, r, path, i))}
<1>1. 0 \in S
  BY NavigateOn DEF Less
<1>2. ASSUME NEW i \in Nat, i \in S  PROVE i + 1 \in S
  <2>. SUFFICES ASSUME i + 1 <= n
                PROVE  Less(Navigate(h, r, path, i + 1), Navigate(g, r, path, i + 1))
    OBVIOUS
  <2>. DEFINE v == Navigate(h, r, path, i)
              w == Navigate(g, r, path, i)
              part == path[i + 1]
  <2>1. part \in Segment /\ i <= Len(path) /\ part.idx = NoIndex
    <3>1. i + 1 \in DOMAIN path
      OBVIOUS
    <3>. QED  BY <3>1 DEF HasIndex
  <2>2. v = Missing \/ SlotIn(h, m, R, v)
    BY <2>1, NavigateReads
  <2>3. Less(v, w)
    BY <1>2
  <2>4. /\ Navigate(h, r, path, i + 1) = NavigateStep(h, v, part)
        /\ Navigate(g, r, path, i + 1) = NavigateStep(g, w, part)
    BY NavigateOn
  <2>. HIDE DEF v, w, part
  <2>5. Less(NavigateStep(h, v, part), NavigateStep(g, w, part))
    BY <2>1, <2>2, <2>3, StepShrinks
  <2>. QED  BY <2>4, <2>5
<1>3. \A i \in Nat : i \in S
  <2>. HIDE DEF S
  <2>. QED  BY <1>1, <1>2, Counting
<1>. QED  BY <1>3

LEMMA MissingThen ==
  ASSUME NEW h, NEW m, NEW R, HeapOK(h, m), Region(h, R), NEW r \in R, r \in m,
         NEW path \in Path, ~HasIndex(path), Get(h, r, path) = Missing, NEW g, Shrinks(h, m, g)
  PROVE  Get(g, r, path) = Missing
<1>. DEFINE n == Len(path)
<1>1. path \in Seq(Segment) /\ n \in Nat /\ n <= Len(path)
  BY DEF Path
<1>2. Navigate(h, r, path, n) = Missing
  BY DEF Get
<1>3. Get(g, r, path) = Navigate(g, r, path, n)
  BY DEF Get
<1>. HIDE DEF n
<1>4. Less(Navigate(h, r, path, n), Navigate(g, r, path, n))
  BY <1>1, NavigateShrinks
<1>. QED  BY <1>2, <1>3, <1>4 DEF Less, Missing

LEMMA DeleteMisses ==
  ASSUME NEW h, NEW m, NEW R, HeapOK(h, m), Region(h, R), NEW r \in R, r \in m,
         NEW path \in Path, ~HasIndex(path), NEW g, g = Delete(h, r, path)
  PROVE  Get(g, r, path) = Missing
<1>. DEFINE n      == Len(path) - 1
            part   == path[n + 1]
            parent == Navigate(h, r, path, n)
            after  == Navigate(g, r, path, n)
<1>1. path \in Seq(Segment) /\ n \in Nat /\ n <= Len(path) /\ n + 1 = Len(path) /\ n + 1 \in DOMAIN path
  BY DEF Path
<1>2. part \in Segment /\ part.idx = NoIndex /\ Last(path) = part
  <2>1. part \in Segment /\ part.idx = NoIndex
    BY <1>1 DEF HasIndex
  <2>2. Last(path) = part
    BY <1>1 DEF Last
  <2>. QED  BY <2>1, <2>2
<1>3. /\ Get(g, r, path) = Navigate(g, r, path, n + 1)
      /\ Navigate(g, r, path, n + 1) = NavigateStep(g, after, part)
  BY <1>1, NavigateOn DEF Get
<1>4. NavigateStep(g, after, part) = GetFromMap(g, after, part.key)
  BY <1>2 DEF NavigateStep, NoIndex, Malformed
<1>5. g = CASE parent.kind = "map" -> DeleteFromMap(h, parent.ref, part)
            [] parent.kind = "list" -> DeleteFromArray(h, parent, part)
            [] OTHER -> h
  BY <1>2 DEF Delete, NoIndex, Malformed
<1>6. Less(parent, after)
  <2>1. Shrinks(h, m, g)
    BY DeleteEdits
  <2>. HIDE DEF n
  <2>. QED  BY <1>1, <2>1, NavigateShrinks
<1>7. parent = Missing \/ SlotIn(h, m, R, parent)
  <2>. HIDE DEF n
  <2>. QED  BY <1>1, NavigateReads
<1>. HIDE DEF parent, after, part, n
<1>8. CASE after.kind # "map"
  BY <1>3, <1>4, <1>8 DEF GetFromMap
<1>9. CASE after.kind = "map"
  <2>1. after = parent /\ parent.kind = "map" /\ parent.ref \in DOMAIN h
    BY <1>6, <1>7, <1>9 DEF Less, Missing, SlotIn, ValueIn, HeapOK
  <2>2. g = Drop(h, parent.ref, part.key)
    BY <1>2, <1>5, <2>1 DEF DeleteFromMap
  <2>3. part.key \notin DOMAIN g[parent.ref]
    BY <2>1, <2>2 DEF Drop
  <2>. QED  BY <1>3, <1>4, <2>1, <2>3 DEF GetFromMap
<1>. QED  BY <1>8, <1>9

LEMMA DeleteAllMisses ==
  ASSUME NEW h, NEW m, NEW R, HeapOK(h, m), Region(h, R), NEW r \in R, r \in m,
         NEW paths \in Seq(Path), NEW g, g = DeleteAll(h, r, paths),
         NEW p \in ToSet(paths), ~HasIndex(p)
  PROVE  Get(g, r, p) = Missing
<1>. DEFINE w == Left(h, r, paths)
            N == Len(paths)
<1>1. /\ g = w[N] /\ w[0] = h
      /\ \A i \in 1 .. N : w[i] = Delete(w[i - 1], r, paths[i])
  BY LeftIs
<1>. DEFINE S == {i \in Nat : i <= N => /\ Edits(h, m, w[i], m, R)
                                        /\ \A j \in 1 .. i : paths[j] = p => Get(w[i], r, p) = Missing}
<1>. HIDE DEF w
<1>2. 0 \in S
  <2>1. Edits(h, m, h, m, R)
    BY NoEditAtAll
  <2>. QED  BY <1>1, <2>1
<1>3. ASSUME NEW i \in Nat, i \in S  PROVE i + 1 \in S
  <2>. SUFFICES ASSUME i + 1 <= N
                PROVE  /\ Edits(h, m, w[i + 1], m, R)
                       /\ \A j \in 1 .. i + 1 : paths[j] = p => Get(w[i + 1], r, p) = Missing
    OBVIOUS
  <2>. DEFINE x == w[i]
              y == w[i + 1]
              q == paths[i + 1]
              R0 == Grown(h, x, R)
  <2>1. y = Delete(x, r, q) /\ q \in Path
    <3>1. i + 1 \in 1 .. N /\ (i + 1) - 1 = i
      OBVIOUS
    <3>. QED  BY <1>1, <3>1
  <2>2. Edits(h, m, x, m, R) /\ \A j \in 1 .. i : paths[j] = p => Get(x, r, p) = Missing
    BY <1>3
  <2>. HIDE DEF N
  <2>3. HeapOK(x, m) /\ Region(x, R0) /\ r \in R0
    BY <2>2, GrownIsRegion DEF Edits, Grown
  <2>. HIDE DEF x, y, q, R0
  <2>4. Edits(x, m, y, m, R0) /\ Shrinks(x, m, y)
    BY <2>1, <2>3, DeleteEdits
  <2>5. Edits(h, m, y, m, R)
    BY <2>2, <2>4, EditsOn DEF R0
  <2>6. q = p => Get(y, r, p) = Missing
    BY <2>1, <2>3, DeleteMisses
  <2>7. p \in Path
    BY DEF ToSet
  <2>8. Get(x, r, p) = Missing => Get(y, r, p) = Missing
    BY <2>3, <2>4, <2>7, MissingThen
  <2>9. \A j \in 1 .. i + 1 : paths[j] = p => Get(y, r, p) = Missing
    <3>1. \A j \in 1 .. i + 1 : j \in 1 .. i \/ j = i + 1
      OBVIOUS
    <3>. QED  BY <3>1, <2>2, <2>6, <2>8 DEF q
  <2>. QED  BY <2>5, <2>9 DEF y
<1>4. \A i \in Nat : i \in S
  <2>. HIDE DEF S
  <2>. QED  BY <1>2, <1>3, Counting
<1>5. PICK j \in 1 .. N : paths[j] = p
  BY DEF ToSet
<1>6. Get(w[N], r, p) = Missing
  <2>1. N \in Nat /\ N <= N
    OBVIOUS
  <2>2. \A k \in 1 .. N : paths[k] = p => Get(w[N], r, p) = Missing
    BY <1>4, <2>1
  <2>. QED  BY <1>5, <2>2
<1>. QED  BY <1>1, <1>6

-----------------------------------------------------------------------------
(* What was written is read back.                                          *)

(* No object of the region Z holds itself: a region without it has all it  *)
(* holds.                                                                  *)
Clear(h, Z) ==
    /\ Region(h, Z)
    /\ \A s \in Z : \E W : Region(h, W) /\ Held(h, s) \subseteq W /\ s \notin W

LEMMA ReachIsClear ==
  ASSUME NEW h, NEW m, HeapOK(h, m), NEW r \in DOMAIN h, ~Loops(h, r)
  PROVE  Clear(h, Reach(h, {r})) /\ r \in Reach(h, {r})
<1>. DEFINE Z == Reach(h, {r})
<1>1. Region(h, Z) /\ r \in Z
  BY OneReach
<1>2. \A s \in Z : s \notin Reach(h, Held(h, s))
  BY DEF Loops
<1>3. ASSUME NEW s \in Z  PROVE \E W : Region(h, W) /\ Held(h, s) \subseteq W /\ s \notin W
  <2>1. Held(h, s) \subseteq DOMAIN h /\ IsFiniteSet(DOMAIN h) /\ ClosedIn(h, DOMAIN h)
    <3>1. ClosedIn(h, DOMAIN h)
      BY HeapIsClosed
    <3>. QED  BY <1>1, <3>1 DEF HeapOK, Region, ClosedIn
  <2>. DEFINE H == Held(h, s)
              W == Reach(h, H)
  <2>2. H \subseteq W /\ W \subseteq DOMAIN h /\ ClosedIn(h, W)
    <3>. HIDE DEF H
    <3>1. H \subseteq DOMAIN h
      BY <2>1 DEF H
    <3>. QED  BY <2>1, <3>1, ReachIsClosed
  <2>3. s \notin W
    BY <1>2
  <2>4. Region(h, W) /\ H \subseteq W /\ s \notin W
    BY <2>2, <2>3 DEF Region
  <2>. HIDE DEF W
  <2>. QED  BY <2>4
<1>. QED  BY <1>1, <1>3 DEF Clear

(* Where nothing of the region has changed.                                *)
LEMMA ClearStays ==
  ASSUME NEW h, NEW Z, Clear(h, Z), NEW g, DOMAIN h \in SUBSET DOMAIN g, \A x \in DOMAIN h : g[x] = h[x]
  PROVE  Clear(g, Z)
<1>1. \A x \in DOMAIN h : Held(g, x) = Held(h, x)
  BY DEF Held
<1>2. \A W : Region(h, W) => Region(g, W)
  BY <1>1 DEF Region, ClosedIn
<1>3. Region(g, Z) /\ Z \subseteq DOMAIN h
  BY <1>2 DEF Clear, Region
<1>4. ASSUME NEW s \in Z  PROVE \E W : Region(g, W) /\ Held(g, s) \subseteq W /\ s \notin W
  <2>1. PICK W : Region(h, W) /\ Held(h, s) \subseteq W /\ s \notin W
    BY DEF Clear
  <2>2. Region(g, W) /\ Held(g, s) \subseteq W
    BY <1>1, <1>2, <1>3, <2>1
  <2>. QED  BY <2>1, <2>2
<1>. QED  BY <1>3, <1>4 DEF Clear

LEMMA ClearBelow ==
  ASSUME NEW h, NEW Z, Clear(h, Z), NEW W, Region(h, W)
  PROVE  Clear(h, Z \cap W)
<1>1. Region(h, Z \cap W)
  BY DEF Clear, Region, ClosedIn
<1>. QED  BY <1>1 DEF Clear

LEMMA EmptyIsClear ==
  ASSUME NEW h, NEW f \in DOMAIN h, h[f] = Empty
  PROVE  Clear(h, {f})
<1>1. Held(h, f) = {}
  BY EmptyIsMap DEF Held
<1>2. Region(h, {f}) /\ Region(h, {})
  BY <1>1 DEF Region, ClosedIn
<1>. QED  BY <1>1, <1>2 DEF Clear

(* One segment leads from `at' to the map at `to', past the objects Q, and *)
(* on into a part of the region where they are not.                        *)
LeadsOn(h, Z, at0, part, to) ==
    \E Q, Y : /\ Clear(to.heap, Y) /\ to.at \in Y /\ Y \subseteq Grown(h, to.heap, Z)
              /\ at0 \in Q /\ Q \subseteq Grown(h, to.heap, Z) /\ Q \cap Y = {}
              /\ \A o \in Looked(to.heap, MapAt(at0), part.key) : o \in Q

LEMMA LookedAt ==
  ASSUME NEW h, NEW a, NEW key, NEW o
  PROVE  o \in Looked(h, MapAt(a), key)
           <=> \/ o = a
               \/ key \in DOMAIN h[a] /\ h[a][key].kind = "list" /\ o = h[a][key].ref
<1>. DEFINE u == GetFromMap(h, MapAt(a), key)
<1>1. u = IF key \in DOMAIN h[a] THEN h[a][key] ELSE Missing
  BY FromMap
<1>2. MapAt(a).kind = "map" /\ MapAt(a).ref = a
  BY DEF MapAt
<1>3. o \in Looked(h, MapAt(a), key) <=> o = a \/ (u.kind = "list" /\ o = u.ref)
  BY <1>2 DEF Looked
<1>4. u.kind = "list" <=> key \in DOMAIN h[a] /\ h[a][key].kind = "list"
  BY <1>1 DEF Missing
<1>. HIDE DEF u
<1>. QED  BY <1>1, <1>3, <1>4

(* What is there already: the map is held, or an element of a held list.   *)
LEMMA FoundBelow ==
  ASSUME NEW h, NEW m, HeapOK(h, m), NEW Z, Clear(h, Z), NEW a \in Z, a \in m,
         NEW part \in Segment, part.idx # Malformed,
         NEW to, to.heap = h, IsMapAt(NavigateStep(h, MapAt(a), part), to.at)
  PROVE  LeadsOn(h, Z, a, part, to)
<1>. DEFINE key == part.key
            u   == h[a][key]
            Q   == Looked(h, MapAt(a), key)
            idx == part.idx
<1>1. Region(h, Z)
  BY DEF Clear
<1>2. PICK W : Region(h, W) /\ Held(h, a) \subseteq W /\ a \notin W
  BY DEF Clear
<1>3. Grown(h, h, Z) = Z
  BY DEF Grown
<1>4. GetFromMap(h, MapAt(a), key) = IF key \in DOMAIN h[a] THEN u ELSE Missing
  BY FromMap
<1>5. \A o \in Q : o = a \/ (key \in DOMAIN h[a] /\ u.kind = "list" /\ o = u.ref)
  BY LookedAt
<1>6. a \in Q
  BY LookedAt
<1>7. part.idx = NoIndex \/ part.idx \in Nat
  BY DEF Segment
<1>8. ASSUME key \in DOMAIN h[a], IsContainer(u)
      PROVE  u.ref \in Held(h, a) /\ u.ref \in Z /\ u.ref \in W
  BY <1>1, <1>2, <1>8 DEF Held, Region, ClosedIn
<1>9. CASE part.idx = NoIndex
  <2>1. NavigateStep(h, MapAt(a), part) = GetFromMap(h, MapAt(a), key)
    BY <1>9 DEF NavigateStep, NoIndex, Malformed
  <2>2. key \in DOMAIN h[a] /\ u.kind = "map" /\ u.ref = to.at
    BY <1>4, <2>1 DEF IsMapAt, Missing
  <2>3. to.at \in Z /\ to.at \in W
    BY <1>8, <2>2 DEF IsContainer
  <2>4. \A o \in Q : o = a
    BY <1>5, <2>2
  <2>. DEFINE Y == Z \cap W
  <2>5. Clear(h, Y)
    BY <1>2, ClearBelow
  <2>6. /\ Clear(to.heap, Y) /\ to.at \in Y /\ Y \subseteq Grown(h, to.heap, Z)
        /\ a \in Q /\ Q \subseteq Grown(h, to.heap, Z) /\ Q \cap Y = {}
        /\ \A o \in Looked(to.heap, MapAt(a), part.key) : o \in Q
    <3>1. \A o \in Looked(to.heap, MapAt(a), part.key) : o \in Q
      OBVIOUS
    <3>. HIDE DEF Q
    <3>. QED  BY <1>2, <1>3, <1>6, <2>3, <2>4, <2>5, <3>1
  <2>. HIDE DEF Q, Y
  <2>. QED  BY <2>6 DEF LeadsOn
<1>10. CASE part.idx \in Nat
  <2>1. NavigateStep(h, MapAt(a), part) = GetFromArray(h, GetFromMap(h, MapAt(a), key), idx)
    BY <1>10 DEF NavigateStep, NoIndex, Malformed
  <2>2. /\ key \in DOMAIN h[a] /\ u.kind = "list" /\ idx < u.len
        /\ h[u.ref][idx + 1].kind = "map" /\ h[u.ref][idx + 1].ref = to.at
    <3>. HIDE DEF u, key, idx
    <3>1. CASE key \in DOMAIN h[a]
      BY <1>4, <2>1, <3>1 DEF IsMapAt, Missing, GetFromArray
    <3>2. CASE key \notin DOMAIN h[a]
      BY <1>4, <2>1, <3>2 DEF IsMapAt, Missing, GetFromArray
    <3>. QED  BY <3>1, <3>2
  <2>3. u.ref \in Z /\ u.ref \in W
    BY <1>8, <2>2 DEF IsContainer
  <2>4. idx + 1 \in DOMAIN h[u.ref]
    <3>1. HasList(h, a, key, 0)
      <4>1. SlotIn(h, m, Z, u)
        BY <1>1, <2>2, SlotsAreHeld
      <4>2. u.len \in Nat
        BY <4>1 DEF SlotIn, ValueIn, Value
      <4>. QED  BY <2>2, <4>2 DEF HasList
    <3>2. h[u.ref] \in Seq(Value) /\ u.len <= Len(h[u.ref]) /\ u.len \in Nat
      BY <1>1, <3>1, ListIs
    <3>. HIDE DEF u
    <3>3. idx + 1 \in 1 .. Len(h[u.ref])
      BY <1>10, <2>2, <3>2
    <3>. QED  BY <3>2, <3>3
  <2>5. PICK X : Region(h, X) /\ Held(h, u.ref) \subseteq X /\ u.ref \notin X
    BY <2>3 DEF Clear
  <2>6. to.at \in Held(h, u.ref)
    BY <2>2, <2>4 DEF Held, IsContainer
  <2>7. to.at \in Z /\ to.at \in W /\ to.at \in X
    BY <1>1, <1>2, <2>3, <2>5, <2>6 DEF Region, ClosedIn
  <2>. DEFINE Y == (Z \cap W) \cap X
  <2>8. Clear(h, Y)
    <3>1. Clear(h, Z \cap W)
      BY <1>2, ClearBelow
    <3>. QED  BY <2>5, <3>1, ClearBelow
  <2>9. \A o \in Q : o \in Z /\ o \notin Y
    BY <1>2, <1>5, <2>3, <2>5
  <2>10. /\ Clear(to.heap, Y) /\ to.at \in Y /\ Y \subseteq Grown(h, to.heap, Z)
         /\ a \in Q /\ Q \subseteq Grown(h, to.heap, Z) /\ Q \cap Y = {}
         /\ \A o \in Looked(to.heap, MapAt(a), part.key) : o \in Q
    <3>1. \A o \in Looked(to.heap, MapAt(a), part.key) : o \in Q
      OBVIOUS
    <3>2. Y \subseteq Z /\ to.at \in Y
      BY <2>7
    <3>. HIDE DEF Q, Y
    <3>. QED  BY <1>3, <1>6, <2>8, <2>9, <3>1, <3>2
  <2>. HIDE DEF Q, Y
  <2>. QED  BY <2>10 DEF LeadsOn
<1>. QED  BY <1>7, <1>9, <1>10

(* What is made on the way holds nothing yet.                              *)
LEMMA MadeBelow ==
  ASSUME NEW h, NEW m, HeapOK(h, m), NEW Z, Clear(h, Z), NEW a \in Z, a \in m, NEW part \in Segment,
         NEW to, Arrives(h, m, Z, to), to.at \notin DOMAIN h, to.at \in DOMAIN to.heap,
         to.heap[to.at] = Empty
  PROVE  LeadsOn(h, Z, a, part, to)
<1>. DEFINE g   == to.heap
            key == part.key
            Q   == Looked(g, MapAt(a), key)
            Y   == {to.at}
            R   == Grown(h, g, Z)
            m1  == m \cup {to.at}
<1>1. Edits(h, m, g, m1, Z) /\ to.at \in R /\ Region(h, Z)
  BY DEF Arrives, Clear
<1>2. HeapOK(g, m1) /\ Region(g, R) /\ a \in R /\ a \in m1 /\ a \in DOMAIN h
  BY <1>1, GrownIsRegion DEF Edits, Grown, Region
<1>3. Clear(g, Y)
  BY EmptyIsClear
<1>4. a \in Q
  BY LookedAt
<1>5. \A o \in Q : o \in R /\ o # to.at
  <2>1. SUFFICES ASSUME NEW o \in Q  PROVE o \in R /\ o # to.at
    OBVIOUS
  <2>2. o = a \/ (key \in DOMAIN g[a] /\ g[a][key].kind = "list" /\ o = g[a][key].ref)
    BY LookedAt
  <2>3. CASE o = a
    BY <1>2, <2>3
  <2>4. CASE key \in DOMAIN g[a] /\ g[a][key].kind = "list" /\ o = g[a][key].ref
    <3>. DEFINE u == g[a][key]
    <3>. HIDE DEF g, R, m1, key
    <3>1. SlotIn(g, m1, R, u)
      BY <1>2, <2>4, SlotsAreHeld
    <3>2. o \in R /\ o \notin m1
      BY <2>4, <3>1 DEF SlotIn, ValueIn, IsContainer
    <3>. QED  BY <3>2 DEF m1
  <2>. QED  BY <2>2, <2>3, <2>4
<1>6. \A o \in Looked(to.heap, MapAt(a), part.key) : o \in Q
  OBVIOUS
<1>7. /\ Clear(to.heap, Y) /\ to.at \in Y /\ Y \subseteq Grown(h, to.heap, Z)
      /\ a \in Q /\ Q \subseteq Grown(h, to.heap, Z) /\ Q \cap Y = {}
      /\ \A o \in Looked(to.heap, MapAt(a), part.key) : o \in Q
  <2>. HIDE DEF Q
  <2>. QED  BY <1>1, <1>3, <1>4, <1>5, <1>6
<1>. HIDE DEF Q, Y
<1>. QED  BY <1>7 DEF LeadsOn

LEMMA DescendLeads ==
  ASSUME NEW h, NEW m, HeapOK(h, m), NEW Z, Clear(h, Z), NEW a \in Z, a \in m,
         NEW part \in Segment, NEW grow, NEW to, to = DescendFrom(h, a, part, grow), to.ok = TRUE
  PROVE  LeadsOn(h, Z, a, part, to)
<1>1. Region(h, Z)
  BY DEF Clear
<1>2. Arrives(h, m, Z, to) /\ Found(h, to)
      /\ part.idx # Malformed /\ IsMapAt(NavigateStep(to.heap, MapAt(a), part), to.at)
  BY <1>1, DescendArrives
<1>3. CASE to.heap = h
  BY <1>2, <1>3, FoundBelow
<1>4. CASE to.at \notin DOMAIN h /\ to.at \in DOMAIN to.heap /\ to.heap[to.at] = Empty
  BY <1>2, <1>4, MadeBelow
<1>. QED  BY <1>2, <1>3, <1>4 DEF Found

(* So far on the way down: whatever heap agrees with this one on what the  *)
(* path has led past leads to the map reached, and from there on nothing   *)
(* of that is met.                                                         *)
LeadsTo(h, r, path, i, P, a) ==
    \A g : (\A x \in P : g[x] = h[x]) => IsMapAt(Navigate(g, r, path, i), a)

OnTheWay(h, m, r, path, i, to) ==
    \E m1, P, Z : /\ HeapOK(to.heap, m1) /\ Grows(h, m, to.heap, m1) /\ to.at \in m1
                  /\ Clear(to.heap, Z) /\ to.at \in Z
                  /\ P \subseteq DOMAIN to.heap /\ P \cap Z = {}
                  /\ LeadsTo(to.heap, r, path, i, P, to.at)

LEMMA StepFrom ==
  ASSUME NEW h, NEW v, NEW a, IsMapAt(v, a), NEW part \in Segment
  PROVE  NavigateStep(h, v, part) = NavigateStep(h, MapAt(a), part)
<1>1. \A key : GetFromMap(h, v, key) = GetFromMap(h, MapAt(a), key)
  BY DEF IsMapAt, GetFromMap, MapAt
<1>2. part.idx \in Nat \cup {NoIndex, Malformed}
  BY DEF Segment
<1>. QED  BY <1>1, <1>2 DEF NavigateStep, NoIndex, Malformed

LEMMA WayGoesOn ==
  ASSUME NEW h, NEW m, HeapOK(h, m), NEW r, NEW path, NEW i \in Nat, NEW x, OnTheWay(h, m, r, path, i, x),
         path[i + 1] \in Segment, NEW grow, NEW y, y = DescendFrom(x.heap, x.at, path[i + 1], grow),
         y.ok = TRUE
  PROVE  OnTheWay(h, m, r, path, i + 1, y)
<1>. DEFINE g    == x.heap
            part == path[i + 1]
<1>1. PICK m0, P, Z : /\ HeapOK(g, m0) /\ Grows(h, m, g, m0) /\ x.at \in m0
                      /\ Clear(g, Z) /\ x.at \in Z
                      /\ P \subseteq DOMAIN g /\ P \cap Z = {}
                      /\ LeadsTo(g, r, path, i, P, x.at)
  BY DEF OnTheWay
<1>2. part \in Segment /\ y = DescendFrom(g, x.at, part, grow) /\ y.ok = TRUE
  OBVIOUS
<1>. HIDE DEF g, part
<1>3. LeadsOn(g, Z, x.at, part, y)
  BY <1>1, <1>2, DescendLeads
<1>4. PICK Q, Y : /\ Clear(y.heap, Y) /\ y.at \in Y /\ Y \subseteq Grown(g, y.heap, Z)
                  /\ x.at \in Q /\ Q \subseteq Grown(g, y.heap, Z) /\ Q \cap Y = {}
                  /\ \A o \in Looked(y.heap, MapAt(x.at), part.key) : o \in Q
  BY <1>3 DEF LeadsOn
<1>5. /\ Arrives(g, m0, Z, y)
      /\ IsMapAt(NavigateStep(y.heap, MapAt(x.at), part), y.at)
  <2>1. Region(g, Z)
    BY <1>1 DEF Clear
  <2>. QED  BY <1>1, <1>2, <2>1, DescendArrives
<1>. DEFINE m1 == m0 \cup {y.at}
            P1 == P \cup Q
<1>6. Edits(g, m0, y.heap, m1, Z) /\ y.at \in m1
  BY <1>5 DEF Arrives
<1>7. HeapOK(y.heap, m1) /\ Grows(g, m0, y.heap, m1)
  BY <1>6 DEF Edits
<1>. HIDE DEF m1
<1>8. Grows(h, m, y.heap, m1)
  BY <1>1, <1>7, GrowsOn
<1>9. P1 \subseteq DOMAIN y.heap /\ P1 \cap Y = {}
  <2>1. Grown(g, y.heap, Z) \subseteq DOMAIN y.heap /\ DOMAIN g \subseteq DOMAIN y.heap
    BY <1>1, <1>7 DEF Grown, Grows, Clear, Region
  <2>2. P \cap Y = {}
    BY <1>1, <1>4 DEF Grown
  <2>. QED  BY <1>1, <1>4, <2>1, <2>2
<1>10. LeadsTo(y.heap, r, path, i + 1, P1, y.at)
  <2>. SUFFICES ASSUME NEW f, \A o \in P1 : f[o] = y.heap[o]
                PROVE  IsMapAt(Navigate(f, r, path, i + 1), y.at)
    BY DEF LeadsTo
  <2>. DEFINE v == Navigate(f, r, path, i)
  <2>1. IsMapAt(v, x.at)
    <3>1. \A o \in P : y.heap[o] = g[o]
      BY <1>1, <1>6 DEF Edits
    <3>2. \A o \in P : f[o] = g[o]
      BY <3>1
    <3>. QED  BY <1>1, <3>2 DEF LeadsTo
  <2>2. Navigate(f, r, path, i + 1) = NavigateStep(f, v, part)
    BY NavigateOn DEF part
  <2>. HIDE DEF v
  <2>3. NavigateStep(f, v, part) = NavigateStep(f, MapAt(x.at), part)
    BY <1>2, <2>1, StepFrom
  <2>4. \A o \in Looked(y.heap, MapAt(x.at), part.key) : f[o] = y.heap[o]
    BY <1>4
  <2>5. NavigateStep(f, MapAt(x.at), part) = NavigateStep(y.heap, MapAt(x.at), part)
    BY <1>2, <2>4, StepAgrees
  <2>. QED  BY <1>5, <2>2, <2>3, <2>5
<1>. HIDE DEF P1
<1>. QED  BY <1>4, <1>6, <1>7, <1>8, <1>9, <1>10 DEF OnTheWay

LEMMA DescentLeads ==
  ASSUME NEW h, NEW m, HeapOK(h, m), NEW Z, Clear(h, Z), NEW r \in Z, r \in m,
         NEW path \in Path, NEW grow, NEW n \in Nat, n <= Len(path),
         NEW to, to = Descent(h, r, path, grow, n)
  PROVE  to.ok \in BOOLEAN /\ (to.ok = TRUE => OnTheWay(h, m, r, path, n, to))
<1>. DEFINE w == Down(h, r, path, grow, n)
            Good(i) == w[i].ok \in BOOLEAN /\ (w[i].ok = TRUE => OnTheWay(h, m, r, path, i, w[i]))
            S == {i \in Nat : i <= n => Good(i)}
<1>1. /\ to = w[n] /\ w[0] = [heap |-> h, at |-> r, ok |-> TRUE]
      /\ \A i \in 1 .. n : w[i] = Descend(w[i - 1], path[i], grow)
  BY DownIs
<1>. HIDE DEF w
<1>2. 0 \in S
  <2>1. w[0].heap = h /\ w[0].at = r /\ w[0].ok = TRUE
    BY <1>1
  <2>2. LeadsTo(h, r, path, 0, {}, r)
    <3>1. \A g : Navigate(g, r, path, 0) = MapAt(r)
      BY NavigateOn
    <3>. QED  BY <3>1 DEF LeadsTo, IsMapAt, MapAt
  <2>3. Grows(h, m, h, m)
    <3>1. \A x \in DOMAIN h \ m : Len(h[x]) <= Len(h[x])
      BY DEF HeapOK
    <3>. QED  BY <3>1 DEF Grows
  <2>4. OnTheWay(h, m, r, path, 0, w[0])
    <3>1. /\ HeapOK(h, m) /\ Grows(h, m, h, m) /\ r \in m /\ Clear(h, Z) /\ r \in Z
          /\ {} \subseteq DOMAIN h /\ {} \cap Z = {} /\ LeadsTo(h, r, path, 0, {}, r)
      BY <2>2, <2>3
    <3>. QED  BY <2>1, <3>1 DEF OnTheWay
  <2>. QED  BY <2>1, <2>4
<1>3. ASSUME NEW i \in Nat, i \in S  PROVE i + 1 \in S
  <2>. SUFFICES ASSUME i + 1 <= n  PROVE Good(i + 1)
    <3>. HIDE DEF Good
    <3>. QED  OBVIOUS
  <2>. DEFINE x == w[i]
              y == w[i + 1]
              part == path[i + 1]
  <2>1. y = Descend(x, part, grow)
    <3>1. i + 1 \in 1 .. n /\ (i + 1) - 1 = i
      OBVIOUS
    <3>. QED  BY <3>1, <1>1
  <2>2. part \in Segment
    BY DEF Path
  <2>3. x.ok \in BOOLEAN /\ (x.ok = TRUE => OnTheWay(h, m, r, path, i, x))
    BY <1>3
  <2>. HIDE DEF x, y
  <2>4. CASE x.ok = FALSE
    <3>1. y = [heap |-> x.heap, at |-> x.at, ok |-> FALSE]
      BY <2>1, <2>4, DescendStays
    <3>2. y.ok = FALSE
      BY <3>1
    <3>. QED  BY <3>2 DEF y
  <2>5. CASE x.ok = TRUE
    <3>1. y = DescendFrom(x.heap, x.at, part, grow)
      BY <2>1, <2>5, DescendGoesOn
    <3>2. OnTheWay(h, m, r, path, i, x)
      BY <2>3, <2>5
    <3>3. y.ok \in BOOLEAN
      <4>1. PICK m1, Y : /\ HeapOK(x.heap, m1) /\ x.at \in m1
                         /\ Clear(x.heap, Y) /\ x.at \in Y
        BY <3>2 DEF OnTheWay
      <4>. DEFINE g == x.heap
                  a == x.at
      <4>2. HeapOK(g, m1) /\ a \in m1 /\ Region(g, Y) /\ a \in Y /\ y = DescendFrom(g, a, part, grow)
        BY <3>1, <4>1 DEF Clear
      <4>. HIDE DEF g, a, part
      <4>. QED  BY <2>2, <4>2, DescendArrives
    <3>4. ASSUME y.ok = TRUE  PROVE OnTheWay(h, m, r, path, i + 1, y)
      BY <2>2, <3>1, <3>2, <3>4, WayGoesOn
    <3>. QED  BY <3>3, <3>4 DEF y
  <2>. QED  BY <2>3, <2>4, <2>5
<1>4. \A i \in Nat : i \in S
  <2>. HIDE DEF S
  <2>. QED  BY <1>2, <1>3, Counting
<1>5. n \in S
  BY <1>4
<1>. QED  BY <1>1, <1>5

(* Writing an element changes the map's field and the list, no more.       *)
LEMMA ElementAlone ==
  ASSUME NEW h, NEW m, NEW R, HeapOK(h, m), Region(h, R), NEW r \in R, r \in m,
         NEW key \in Keys, NEW idx \in Nat, NEW grow, NEW v,
         NEW h1, h1 = SetArrayElement(h, r, key, idx, v, grow)
  PROVE  \A x \in DOMAIN h \ R : h1[x] = h[x]
<1>. DEFINE g == Indexed(h, r, key, idx, grow)
            a == g[r][key].ref
            R0 == Grown(h, g, R)
<1>1. Edits(h, m, g, m, R) /\ HasList(g, r, key, idx + 1)
  BY IndexedEdits
<1>2. h1 = PutAt(g, a, idx + 1, v)
  BY DEF SetArrayElement
<1>. HIDE DEF g
<1>3. HeapOK(g, m) /\ Region(g, R0) /\ r \in R0
  BY <1>1, GrownIsRegion DEF Edits, Grown
<1>4. a \in R0
  <2>1. SlotIn(g, m, R0, g[r][key])
    <3>1. key \in DOMAIN g[r]
      BY <1>1 DEF HasList
    <3>. HIDE DEF R0
    <3>. QED  BY <1>3, <3>1, SlotsAreHeld
  <2>. QED  BY <1>1, <2>1 DEF SlotIn, IsContainer, HasList
<1>5. ASSUME NEW x \in DOMAIN h \ R  PROVE h1[x] = h[x]
  <2>1. g[x] = h[x] /\ x \in DOMAIN g /\ x # a
    BY <1>1, <1>4 DEF Edits, Grows, Grown
  <2>. HIDE DEF a
  <2>. QED  BY <1>2, <2>1 DEF PutAt
<1>. QED  BY <1>5

(* Set has come to its value.                                             *)
Wrote(s) == s.ok = TRUE

LEMMA SetReads ==
  ASSUME NEW h, NEW m, HeapOK(h, m), NEW Z, Clear(h, Z), NEW r \in Z, r \in m,
         NEW path \in Path, NEW grow, NEW v, ValueIn(h, m, v),
         NEW s, s = Set(h, r, path, v, grow), Wrote(s)
  PROVE  Get(s.heap, r, path) = v
<1>. DEFINE n    == Len(path) - 1
            to   == Descent(h, r, path, grow, n)
            last == path[n + 1]
            g    == to.heap
            a    == to.at
            g1   == s.heap
<1>1. n \in Nat /\ n <= Len(path) /\ n + 1 = Len(path) /\ last \in Segment /\ Last(path) = last
  BY DEF Path, Last
<1>2. s = CASE ~to.ok \/ last.idx = Malformed -> [heap |-> g, ok |-> FALSE]
            [] to.ok /\ last.idx = NoIndex -> [heap |-> Put(g, a, last.key, v), ok |-> TRUE]
            [] OTHER -> [heap |-> SetArrayElement(g, a, last.key, last.idx, v, grow), ok |-> TRUE]
  BY <1>1 DEF Set
<1>3. Get(g1, r, path) = NavigateStep(g1, Navigate(g1, r, path, n), last)
  BY <1>1, NavigateOn DEF Get
<1>. HIDE DEF n, last
<1>4. to.ok \in BOOLEAN /\ (to.ok = TRUE => OnTheWay(h, m, r, path, n, to))
  BY <1>1, DescentLeads
<1>. HIDE DEF to
<1>5. to.ok = TRUE /\ last.idx # Malformed
  <2>1. CASE ~to.ok \/ last.idx = Malformed
    <3>1. s = [heap |-> g, ok |-> FALSE]
      BY <1>2, <1>4, <2>1 DEF NoIndex, Malformed
    <3>2. s.ok = FALSE
      BY <3>1
    <3>. QED  BY <3>2 DEF Wrote
  <2>2. CASE to.ok /\ last.idx # Malformed
    BY <1>4, <2>2
  <2>. QED  BY <1>4, <2>1, <2>2
<1>6. PICK m1, P, Y : /\ HeapOK(g, m1) /\ Grows(h, m, g, m1) /\ a \in m1
                      /\ Clear(g, Y) /\ a \in Y
                      /\ P \subseteq DOMAIN g /\ P \cap Y = {}
                      /\ LeadsTo(g, r, path, n, P, a)
  BY <1>4, <1>5 DEF OnTheWay
<1>7. last.key \in Keys /\ last.idx \in Nat \cup {NoIndex}
  BY <1>1, <1>5 DEF Segment
<1>8. (\A x \in P : g1[x] = g[x]) => Get(g1, r, path) = NavigateStep(g1, MapAt(a), last)
  <2>. SUFFICES ASSUME \A x \in P : g1[x] = g[x]
                PROVE  Get(g1, r, path) = NavigateStep(g1, MapAt(a), last)
    OBVIOUS
  <2>1. IsMapAt(Navigate(g1, r, path, n), a)
    BY <1>6 DEF LeadsTo
  <2>. DEFINE u == Navigate(g1, r, path, n)
  <2>2. IsMapAt(u, a) /\ Get(g1, r, path) = NavigateStep(g1, u, last)
    BY <1>3, <2>1
  <2>. HIDE DEF u, g1
  <2>. QED  BY <1>1, <2>2, StepFrom
<1>9. CASE last.idx = NoIndex
  <2>. DEFINE key == last.key
  <2>1. g1 = Put(g, a, key, v)
    <3>1. s = [heap |-> Put(g, a, last.key, v), ok |-> TRUE]
      BY <1>2, <1>5, <1>9 DEF NoIndex, Malformed
    <3>. QED  BY <3>1
  <2>. HIDE DEF g1, g, a
  <2>2. a \in DOMAIN g
    BY <1>6 DEF Clear, Region
  <2>3. \A x \in P : g1[x] = g[x]
    BY <1>6, <2>1 DEF Put
  <2>4. key \in DOMAIN g1[a] /\ g1[a][key] = v
    <3>1. g1[a] = With(g[a], key, v)
      BY <2>1, <2>2 DEF Put
    <3>. HIDE DEF key
    <3>. QED  BY <3>1 DEF With
  <2>5. NavigateStep(g1, MapAt(a), last) = GetFromMap(g1, MapAt(a), key)
    BY <1>9 DEF NavigateStep, NoIndex, Malformed
  <2>6. GetFromMap(g1, MapAt(a), key) = v
    BY <2>4, FromMap
  <2>. QED  BY <1>8, <2>3, <2>5, <2>6 DEF g1
<1>10. CASE last.idx \in Nat
  <2>. DEFINE key == last.key
              idx == last.idx
  <2>1. g1 = SetArrayElement(g, a, key, idx, v, grow)
    <3>1. s = [heap |-> SetArrayElement(g, a, last.key, last.idx, v, grow), ok |-> TRUE]
      BY <1>2, <1>5, <1>10 DEF NoIndex, Malformed
    <3>. QED  BY <3>1
  <2>2. NavigateStep(g1, MapAt(a), last) = GetFromArray(g1, GetFromMap(g1, MapAt(a), key), idx)
    BY <1>10 DEF NavigateStep, NoIndex, Malformed
  <2>3. key \in Keys /\ idx \in Nat /\ Region(g, Y) /\ Y \subseteq DOMAIN g
    BY <1>6, <1>7, <1>10 DEF Clear, Region
  <2>. HIDE DEF g1, g, a, key, idx
  <2>4. \A x \in DOMAIN g \ Y : g1[x] = g[x]
    BY <1>6, <2>1, <2>3, ElementAlone
  <2>. DEFINE D == DOMAIN g
  <2>5. Region(g, D) /\ SlotIn(g, m1, D, v) /\ a \in D
    <3>1. ClosedIn(g, DOMAIN g)
      BY <1>6, HeapIsClosed
    <3>2. ValueIn(g, m1, v)
      BY <1>6, ValueKept DEF g
    <3>3. IsContainer(v) => v.ref \in DOMAIN g
      BY <1>6, <3>2 DEF ValueIn, IsContainer, HeapOK
    <3>. QED  BY <1>6, <2>3, <3>1, <3>2, <3>3 DEF Region, SlotIn
  <2>. HIDE DEF D
  <2>6. GetFromArray(g1, GetFromMap(g1, MapAt(a), key), idx) = v
    BY <1>6, <2>1, <2>3, <2>5, SetArrayElementEdits
  <2>. QED  BY <1>6, <1>8, <2>2, <2>4, <2>6 DEF g1, g, a
<1>. QED  BY <1>7, <1>9, <1>10

(* The record reads the same when what nobody holds is gone.               *)
LEMMA EditShows ==
  ASSUME NEW m, State(heap, m, records, given), at \in DOMAIN records,
         NEW h1, NEW m1, Edits(heap, m, h1, m1, EditRegion(heap, records, at, given)),
         NEW paths, NEW ok, NEW value, Edited(h1, paths, ok, value), NEW p \in Path
  PROVE  Get(heap', record, p) = Get(h1, record, p)
<1>. DEFINE g == heap'
            r == record
            D == DOMAIN g
            roots == ToSet(records)
            n == Len(p)
<1>1. records \in Seq(m) /\ Literals \subseteq m /\ m \subseteq DOMAIN heap
  BY DEF State, HeapOK
<1>2. HeapOK(h1, m1) /\ m \subseteq m1 /\ m1 \subseteq DOMAIN h1
  BY DEF Edits, Grows, HeapOK
<1>3. r \in roots /\ roots \subseteq m
  <2>1. r \in roots
    BY DEF record, ToSet
  <2>. QED  BY <2>1, <1>1, RootsIn
<1>4. roots \in SUBSET DOMAIN h1 /\ Literals \subseteq DOMAIN h1 /\ g = Live(h1, roots)
  BY <1>1, <1>2, <1>3 DEF Edited
<1>5. p \in Seq(Segment) /\ n \in Nat /\ n <= Len(p)
  BY DEF Path
<1>6. \A f : Get(f, r, p) = Navigate(f, r, p, n)
  BY DEF Get
<1>7. r \in m1
  BY <1>2, <1>3
<1>. HIDE DEF g, roots, r, n
<1>8. Lives(h1, g, roots)
  BY <1>2, <1>4, LiveIs
<1>9. /\ Region(h1, D) /\ r \in D
      /\ \A x \in D : g[x] = h1[x]
  BY <1>3, <1>8 DEF Lives, Region
<1>. HIDE DEF D
<1>10. Navigate(g, r, p, n) = Navigate(h1, r, p, n)
  BY <1>2, <1>5, <1>7, <1>9, NavigateLives
<1>. QED  BY <1>6, <1>10 DEF g, r

(* The other records are what they were, and nothing of them is lost, but  *)
(* for what the record edited may hold as well.                            *)
KeepsOthers ==
    edit'.rec # 0 =>
       \A r \in ToSet(records) : r # edit'.rec =>
          \A o \in Reach(heap, {r}) \ given : o \in DOMAIN heap' /\ heap'[o] = heap[o]

(* What another record reaches outside of `given' is not in the region     *)
(* that is edited, and is still held: it, or something of `given' it       *)
(* reaches, holds the next one.                                            *)
LEMMA OthersKept ==
  ASSUME NEW m, State(heap, m, records, given), at \in DOMAIN records,
         NEW h1, NEW m1, Edits(heap, m, h1, m1, EditRegion(heap, records, at, given)),
         NEW paths, NEW ok, NEW value, Edited(h1, paths, ok, value)
  PROVE  KeepsOthers
<1>. SUFFICES ASSUME NEW r \in ToSet(records), r # record
              PROVE  \A o \in Reach(heap, {r}) \ given : o \in DOMAIN heap' /\ heap'[o] = heap[o]
  BY DEF KeepsOthers, Edited
<1>. DEFINE g == heap'
            roots == ToSet(records)
            W == Reach(heap, {r})
            D == DOMAIN g
<1>1. /\ HeapOK(heap, m) /\ records \in Seq(m) /\ Literals \subseteq m /\ m \subseteq DOMAIN heap
      /\ ClosedIn(heap, given)
  BY DEF State, HeapOK, Region
<1>2. HeapOK(h1, m1) /\ m \subseteq m1 /\ m1 \subseteq DOMAIN h1
  BY DEF Edits, Grows, HeapOK
<1>3. roots \subseteq m /\ r \in DOMAIN heap
  <2>1. roots \subseteq m
    BY <1>1, RootsIn
  <2>. QED  BY <2>1, <1>1
<1>4. roots \in SUBSET DOMAIN h1 /\ Literals \subseteq DOMAIN h1 /\ g = Live(h1, roots)
  BY <1>1, <1>2, <1>3 DEF Edited
<1>5. r \in W /\ Region(heap, W)
  BY <1>1, <1>3, OneReach
<1>6. W \cap EditRegion(heap, records, at, given) \subseteq given
  <2>1. PICK j \in DOMAIN records : records[j] = r
    BY <1>1 DEF ToSet
  <2>2. j # at
    BY <2>1 DEF record
  <2>3. W \cap Reach(heap, {records[at]}) \subseteq given
    BY <2>1, <2>2 DEF State, SharedIn
  <2>. QED  BY <2>3 DEF EditRegion
<1>. HIDE DEF W
<1>7. \A o \in W \ given : h1[o] = heap[o] /\ Held(h1, o) = Held(heap, o)
  <2>1. \A o \in W \ given : h1[o] = heap[o]
    BY <1>5, <1>6 DEF Edits, Region
  <2>. QED  BY <2>1 DEF Held
<1>8. Lives(h1, g, roots) /\ r \in roots
  <2>. HIDE DEF g, roots
  <2>1. Lives(h1, g, roots)
    BY <1>2, <1>4, LiveIs
  <2>. QED  BY <2>1 DEF roots
<1>9. r \in D /\ ClosedIn(h1, D) /\ \A o \in D : g[o] = h1[o]
  BY <1>8 DEF Lives
<1>10. ClosedIn(heap, W \cap (D \cup given))
  <2>. HIDE DEF D
  <2>. QED  BY <1>1, <1>5, <1>7, <1>9 DEF ClosedIn, Region
<1>11. W \subseteq D \cup given
  <2>. DEFINE A == W \cap (D \cup given)
              one == {r}
  <2>1. IsFiniteSet(DOMAIN heap) /\ one \subseteq A /\ ClosedIn(heap, A) /\ W = Reach(heap, one)
    BY <1>1, <1>5, <1>9, <1>10 DEF HeapOK, W
  <2>. HIDE DEF A, one, D
  <2>2. Reach(heap, one) \subseteq A
    BY <2>1, ReachIsLeast
  <2>. QED  BY <2>1, <2>2 DEF A
<1>. QED  BY <1>7, <1>9, <1>11 DEF W

(* What an edit does: it is read back, and the other records are kept.     *)
EditDone == EditIsRead' /\ KeepsOthers

LEMMA MappingTarget ==
  ASSUME Control, NEW m, records \in Seq(m), AtRecord("mapping")
  PROVE  filter.targets \in Seq(Path) /\ Len(filter.targets) = 1
<1>1. filter \in Filters /\ filter.op = "mapping"
  BY FilterIs
<1>. DEFINE f == filter
<1>2. /\ f \in SetFilters \/ f \in RemoveFilters \/ f \in MappingFilters
      /\ f.op # "remove" => Len(f.targets) = 1
  BY <1>1, RecordEditsAssumption
<1>3. f.op = "mapping"
  BY <1>1
<1>. HIDE DEF f
<1>4. f \in MappingFilters
  BY <1>2, <1>3 DEF SetFilters, RemoveFilters
<1>5. f.targets \in Seq(Path)
  BY <1>4 DEF MappingFilters
<1>. QED  BY <1>2, <1>3, <1>5 DEF f

(* A step that removes from a record.                                      *)
LEMMA RemovedDone ==
  ASSUME NEW m, State(heap, m, records, given), at \in DOMAIN records,
         NEW h1, \A n, R : HeapOK(heap, n) /\ Region(heap, R) /\ record \in R /\ record \in n
                             => Edits(heap, n, h1, n, R),
         NEW paths \in Seq(Path), Edited(h1, paths, TRUE, Missing),
         \A p \in ToSet(paths) : ~HasIndex(p) => Get(h1, record, p) = Missing
  PROVE  EditDone
<1>. DEFINE R == EditRegion(heap, records, at, given)
<1>1. Region(heap, R) /\ record \in R /\ record \in m
  <2>1. R = EditRegion(heap, records, at, given)
    OBVIOUS
  <2>. HIDE DEF R
  <2>. QED  BY <2>1, RegionIs DEF record
<1>2. Edits(heap, m, h1, m, R)
  BY <1>1 DEF State
<1>3. ASSUME NEW p \in ToSet(paths), ~HasIndex(p)  PROVE Get(heap', record, p) = Missing
  <2>1. p \in Path
    BY DEF ToSet
  <2>2. Get(heap', record, p) = Get(h1, record, p)
    BY <1>2, <2>1, EditShows
  <2>. QED  BY <1>3, <2>2
<1>4. edit'.rec = record /\ edit'.op = "remove" /\ edit'.paths = paths
  BY DEF Edited
<1>5. KeepsOthers
  BY <1>2, OthersKept
<1>. QED  BY <1>3, <1>4, <1>5 DEF EditIsRead, EditDone

LEMMA RemoveRecordDone == Inv /\ RemoveRecord => EditDone
<1>. SUFFICES ASSUME Inv, RemoveRecord  PROVE EditDone
  OBVIOUS
<1>1. PICK m \in SUBSET DOMAIN heap : State(heap, m, records, given)
  BY DEF Inv, Typing
<1>2. Control /\ records \in Seq(m) /\ AtRecord("remove") /\ HeapOK(heap, m)
  BY <1>1 DEF Inv, State, RemoveRecord
<1>. DEFINE paths == filter.targets
            h1    == DeleteAll(heap, record, paths)
<1>3. at \in DOMAIN records /\ paths \in Seq(Path)
  BY <1>2, FilterIs
<1>4. Edited(h1, paths, TRUE, Missing)
  BY DEF RemoveRecord
<1>. HIDE DEF paths
<1>5. \A n, R : HeapOK(heap, n) /\ Region(heap, R) /\ record \in R /\ record \in n
                  => Edits(heap, n, h1, n, R)
  BY <1>3, DeleteAllEdits
<1>6. Region(heap, DOMAIN heap) /\ record \in m /\ record \in DOMAIN heap
  <2>1. ClosedIn(heap, DOMAIN heap)
    BY <1>2, HeapIsClosed
  <2>. QED  BY <1>2, <1>3, <2>1 DEF record, Region
<1>7. ASSUME NEW p \in ToSet(paths), ~HasIndex(p)  PROVE Get(h1, record, p) = Missing
  <2>. DEFINE D == DOMAIN heap
              r == record
  <2>1. Region(heap, D) /\ r \in D /\ r \in m /\ h1 = DeleteAll(heap, r, paths)
    BY <1>6
  <2>. HIDE DEF D, r, h1
  <2>2. Get(h1, r, p) = Missing
    BY <1>2, <1>3, <1>7, <2>1, DeleteAllMisses
  <2>. QED  BY <2>2 DEF r
<1>. HIDE DEF h1
<1>. QED  BY <1>1, <1>3, <1>4, <1>5, <1>7, RemovedDone

LEMMA DeleteMappedDone == Inv /\ DeleteMapped => EditDone
<1>. SUFFICES ASSUME Inv, DeleteMapped  PROVE EditDone
  OBVIOUS
<1>1. PICK m \in SUBSET DOMAIN heap : State(heap, m, records, given)
  BY DEF Inv, Typing
<1>2. Control /\ records \in Seq(m) /\ AtRecord("mapping") /\ HeapOK(heap, m)
  BY <1>1 DEF Inv, State, DeleteMapped
<1>. DEFINE paths == filter.targets
            path  == filter.targets[1]
            h1    == Delete(heap, record, path)
<1>3. at \in DOMAIN records /\ path \in Path
  BY <1>2, FilterIs
<1>4. paths \in Seq(Path) /\ Len(paths) = 1
  BY <1>2, MappingTarget
<1>5. ToSet(paths) = {path}
  BY <1>4 DEF ToSet
<1>6. Edited(h1, paths, TRUE, Missing)
  BY DEF DeleteMapped
<1>. HIDE DEF paths, path
<1>7. \A n, R : HeapOK(heap, n) /\ Region(heap, R) /\ record \in R /\ record \in n
                  => Edits(heap, n, h1, n, R)
  BY <1>3, DeleteEdits
<1>8. Region(heap, DOMAIN heap) /\ record \in m /\ record \in DOMAIN heap
  <2>1. ClosedIn(heap, DOMAIN heap)
    BY <1>2, HeapIsClosed
  <2>. QED  BY <1>2, <1>3, <2>1 DEF record, Region
<1>9. ASSUME ~HasIndex(path)  PROVE Get(h1, record, path) = Missing
  <2>. DEFINE D == DOMAIN heap
              r == record
  <2>1. Region(heap, D) /\ r \in D /\ r \in m /\ h1 = Delete(heap, r, path)
    BY <1>8
  <2>. HIDE DEF D, r, h1
  <2>2. Get(h1, r, path) = Missing
    BY <1>2, <1>3, <1>9, <2>1, DeleteMisses
  <2>. QED  BY <2>2 DEF r
<1>10. \A p \in ToSet(paths) : ~HasIndex(p) => Get(h1, record, p) = Missing
  BY <1>5, <1>9
<1>. HIDE DEF h1
<1>. QED  BY <1>1, <1>3, <1>4, <1>6, <1>7, <1>10, RemovedDone

(* A step that writes v into a record: into the heap there is, or into one *)
(* a transform has added a list to.                                        *)
LEMMA WrittenDone ==
  ASSUME NEW m, State(heap, m, records, given), at \in DOMAIN records,
         NEW R, R = EditRegion(heap, records, at, given),
         NEW x, NEW m0, Edits(heap, m, x, m0, R), \A o \in DOMAIN heap : x[o] = heap[o],
         NEW path \in Path, NEW grow, NEW v, SlotIn(x, m0, Grown(heap, x, R), v),
         NEW s, s = Set(x, record, path, v, grow),
         NEW paths, paths[1] = path, NEW ok, ok = s.ok, Edited(s.heap, paths, ok, v)
  PROVE  EditDone
<1>. DEFINE r  == record
            R0 == Grown(heap, x, R)
            g  == s.heap
<1>1. HeapOK(heap, m) /\ Region(heap, R) /\ r \in R /\ r \in m /\ r \in DOMAIN heap
  <2>1. Region(heap, R) /\ r \in R /\ r \in m
    BY RegionIs DEF record
  <2>. QED  BY <2>1 DEF State, HeapOK
<1>2. HeapOK(x, m0) /\ Region(x, R0) /\ r \in R0 /\ r \in m0 /\ SlotIn(x, m0, R0, v)
  BY <1>1, GrownIsRegion DEF Edits, Grows, Grown
<1>3. s = Set(x, r, path, v, grow)
  OBVIOUS
<1>. HIDE DEF r, R0
<1>4. (\E m2 : Edits(x, m0, g, m2, R0)) /\ s.ok \in BOOLEAN
  BY <1>2, <1>3, SetEdits
<1>5. PICK m1 : Edits(heap, m, g, m1, EditRegion(heap, records, at, given))
  <2>1. PICK m2 : Edits(x, m0, g, m2, R0)
    BY <1>4
  <2>. HIDE DEF g
  <2>2. Edits(heap, m, g, m2, R)
    BY <1>1, <2>1, EditsOn DEF R0
  <2>. QED  BY <2>2
<1>6. Get(heap', r, path) = Get(g, r, path)
  BY <1>5, EditShows DEF r
<1>7. ASSUME s.ok = TRUE, ~Loops(heap, r)  PROVE Get(g, r, path) = v
  <2>. DEFINE Z == Reach(heap, {r})
  <2>1. Clear(heap, Z) /\ r \in Z
    BY <1>1, <1>7, ReachIsClear
  <2>. HIDE DEF Z
  <2>2. DOMAIN heap \in SUBSET DOMAIN x
    BY DEF Edits, Grows
  <2>3. Clear(x, Z)
    BY <2>1, <2>2, ClearStays
  <2>4. ValueIn(x, m0, v)
    BY <1>2 DEF SlotIn
  <2>5. HeapOK(x, m0) /\ Clear(x, Z) /\ r \in Z /\ r \in m0 /\ ValueIn(x, m0, v)
    BY <1>2, <2>1, <2>3, <2>4
  <2>6. s = Set(x, r, path, v, grow) /\ Wrote(s) /\ path \in Path
    BY <1>3, <1>7 DEF Wrote
  <2>. QED  BY <2>5, <2>6, SetReads
<1>8. v # Missing
  BY <1>2 DEF SlotIn, ValueIn, Value, Missing
<1>9. /\ edit'.rec = r /\ edit'.op = "set" /\ edit'.ok = ok /\ edit'.paths = paths
      /\ edit'.value = v /\ edit'.loops = Loops(heap, r)
  BY <1>8 DEF Edited, r
<1>. HIDE DEF g
<1>10. KeepsOthers
  BY <1>5, OthersKept DEF g
<1>. QED  BY <1>4, <1>6, <1>7, <1>9, <1>10 DEF EditIsRead, EditDone

LEMMA SetRecordDone == Inv /\ SetRecord => EditDone
<1>. SUFFICES ASSUME Inv, SetRecord  PROVE EditDone
  OBVIOUS
<1>1. PICK m \in SUBSET DOMAIN heap : State(heap, m, records, given)
  BY DEF Inv, Typing
<1>2. Control /\ records \in Seq(m) /\ HeapOK(heap, m) /\ AtRecord("set")
  BY <1>1 DEF Inv, State, SetRecord
<1>3. at \in DOMAIN records /\ filter.targets[1] \in Path /\ filter.literal \in {0, 1}
  BY <1>2, FilterIs
<1>. DEFINE v == IF filter.literal = 0 THEN Scalar ELSE Literal[filter.literal]
            path == filter.targets[1]
            R == EditRegion(heap, records, at, given)
<1>4. PICK grow \in BOOLEAN :
         LET s == Set(heap, record, path, v, grow)
         IN  IF s.ok THEN Edited(s.heap, filter.targets, TRUE, v) ELSE edit' = NoEdit
  BY DEF SetRecord
<1>. DEFINE s == Set(heap, record, path, v, grow)
            g == s.heap
<1>5. Region(heap, R) /\ record \in R /\ record \in m /\ Literals \subseteq R
  <2>1. R = EditRegion(heap, records, at, given)
    OBVIOUS
  <2>. HIDE DEF R
  <2>. QED  BY <1>1, <1>3, <2>1, RegionIs DEF record
<1>6. v = Scalar \/ v = MapAt(1)
  BY <1>3 DEF Literal, Literals
<1>7. SlotIn(heap, m, R, v)
  <2>. HIDE DEF v, R
  <2>1. 1 \in m /\ 1 \in R
    BY <1>1, <1>5 DEF State, Literals
  <2>. QED  BY <1>6, <2>1 DEF SlotIn, ValueIn, Scalar, MapAt, Value, IsContainer
<1>8. path \in Path /\ filter.targets[1] = path
  BY <1>3
<1>9. s = Set(heap, record, path, v, grow) /\ R = EditRegion(heap, records, at, given)
  OBVIOUS
<1>. HIDE DEF v, path, R
<1>10. s.ok \in BOOLEAN
  <2>. HIDE DEF s
  <2>. QED  BY <1>2, <1>5, <1>7, <1>8, <1>9, SetEdits
<1>11. CASE s.ok = TRUE
  <2>1. Edited(g, filter.targets, TRUE, v)
    BY <1>4, <1>11
  <2>. HIDE DEF s
  <2>2. Edits(heap, m, heap, m, R) /\ Grown(heap, heap, R) = R
    BY <1>2, <1>5, NoEditAtAll
  <2>3. SlotIn(heap, m, Grown(heap, heap, R), v)
    BY <1>7, <2>2
  <2>. DEFINE paths == filter.targets
  <2>4. paths[1] = path /\ Edited(s.heap, paths, TRUE, v)
    BY <1>8, <2>1
  <2>. HIDE DEF paths
  <2>. QED  BY <1>1, <1>3, <1>8, <1>9, <1>11, <2>2, <2>3, <2>4, WrittenDone
<1>12. CASE s.ok = FALSE
  <2>1. edit' = NoEdit
    BY <1>4, <1>12
  <2>. QED  BY <2>1 DEF EditDone, EditIsRead, KeepsOthers, NoEdit
<1>. QED  BY <1>10, <1>11, <1>12

LEMMA MapFieldDone == Inv /\ MapField => EditDone
<1>. SUFFICES ASSUME Inv, MapField  PROVE EditDone
  OBVIOUS
<1>1. PICK m \in SUBSET DOMAIN heap : State(heap, m, records, given)
  BY DEF Inv, Typing
<1>2. /\ Control /\ records \in Seq(m) /\ HeapOK(heap, m) /\ Literals \in SUBSET m
      /\ AtRecord("mapping") /\ GetSourceValue # Missing
  BY <1>1 DEF Inv, State, MapField
<1>. DEFINE v    == GetSourceValue
            path == filter.targets[1]
            ops  == filter.transforms
            R    == EditRegion(heap, records, at, given)
<1>3. /\ at \in DOMAIN records /\ path \in Path /\ filter.source \in Seq(Segment)
      /\ filter.literal \in {0, 2} /\ ops \in Seq(Operations)
  BY <1>2, FilterIs
<1>4. PICK grow \in BOOLEAN, t \in ApplyTransforms(heap, v, ops) :
         LET s == Set(t.heap, record, path, t.value, grow)
         IN  Edited(s.heap, filter.targets, s.ok, t.value)
  BY DEF MapField
<1>5. Region(heap, R) /\ record \in R /\ record \in m /\ Literals \in SUBSET R
  <2>1. R = EditRegion(heap, records, at, given)
    OBVIOUS
  <2>. HIDE DEF R
  <2>2. Region(heap, R) /\ record \in R /\ record \in m /\ Literals \subseteq R
    BY <1>1, <1>3, <2>1, RegionIs DEF record
  <2>. QED  BY <2>2
<1>. DEFINE x == t.heap
            w == t.value
            s == Set(x, record, path, w, grow)
            paths == filter.targets
<1>6. /\ Edited(s.heap, paths, s.ok, w) /\ paths[1] = path /\ s = Set(x, record, path, w, grow)
      /\ t \in ApplyTransforms(heap, v, ops) /\ R = EditRegion(heap, records, at, given)
  BY <1>4
<1>. HIDE DEF path, R, ops, s, paths
<1>7. SlotIn(heap, m, R, v)
  <2>1. Sourced(filter)
    BY <1>3 DEF Sourced
  <2>. QED  BY <1>2, <1>5, <2>1, SourceIs
<1>. HIDE DEF v
<1>8. Transformed(heap, m, R, t)
  BY <1>2, <1>3, <1>5, <1>6, <1>7, TransformsTyped
<1>9. PICK m0 : Edits(heap, m, x, m0, R) /\ SlotIn(x, m0, Grown(heap, x, R), w)
  BY <1>8 DEF Transformed
<1>10. \A o \in DOMAIN heap : x[o] = heap[o]
  BY <1>8 DEF Transformed
<1>. DEFINE ok == s.ok
<1>11. ok = s.ok /\ Edited(s.heap, paths, ok, w)
  BY <1>6
<1>. HIDE DEF x, w, ok
<1>. QED  BY <1>1, <1>3, <1>6, <1>9, <1>10, <1>11, WrittenDone

LEMMA NextDone ==
  ASSUME Inv, Next
  PROVE  EditDone
<1>1. CASE SetRecord
  BY <1>1, SetRecordDone
<1>2. CASE RemoveRecord
  BY <1>2, RemoveRecordDone
<1>3. CASE DeleteMapped
  BY <1>3, DeleteMappedDone
<1>4. CASE MapField
  BY <1>4, MapFieldDone
<1>5. ASSUME edit' = NoEdit  PROVE EditDone
  BY <1>5 DEF EditDone, EditIsRead, KeepsOthers, NoEdit
<1>6. CASE MapNothing \/ TransformFails
  BY <1>5, <1>6 DEF MapNothing, TransformFails
<1>7. ASSUME NEW f \in Filters, NextFilter(f)  PROVE EditDone
  BY <1>5, <1>7 DEF NextFilter
<1>8. ASSUME NEW shape \in Shapes, NextBatch(shape)  PROVE EditDone
  BY <1>5, <1>8 DEF NextBatch
<1>. QED  BY <1>1, <1>2, <1>3, <1>4, <1>6, <1>7, <1>8 DEF Next

(* Whatever the record, the value and the path: what a set or a mapping    *)
(* has written is what is read at its path afterwards, unless the record   *)
(* had an object in itself already, and what was removed by its name is    *)
(* gone (recordpath.Set, Delete and Get agree).                            *)
THEOREM RecordsAreReadBack == Spec => []EditIsRead
<1>1. Init => EditIsRead
  BY DEF Init, EditIsRead, NoEdit
<1>2. Inv /\ EditIsRead /\ [Next]_vars => EditIsRead'
  <2>1. ASSUME Inv, Next  PROVE EditIsRead'
    BY <2>1, NextDone DEF EditDone
  <2>2. ASSUME EditIsRead, UNCHANGED vars  PROVE EditIsRead'
    BY <2>2 DEF vars, EditIsRead
  <2>. QED  BY <2>1, <2>2
<1>. QED  BY <1>1, <1>2, RecordsInvariant, PTL DEF Spec

(* Whatever was written without a copy: an edit of one record leaves every *)
(* other what it is, with all it holds, but for the objects the            *)
(* configuration or the attachments of a SOAP answer have given to both    *)
(* (the filters go through the batch record by record).                    *)
THEOREM RecordsKeepTheOthers == Spec => EditKeepsOthers
<1>1. Inv /\ [Next]_vars => [KeepsOthers]_vars
  BY NextDone DEF EditDone
<1>. QED  BY <1>1, RecordsInvariant, PTL DEF Spec, EditKeepsOthers, KeepsOthers
=============================================================================
