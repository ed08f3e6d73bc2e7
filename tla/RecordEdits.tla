---------------------------- MODULE RecordEdits ----------------------------
(***************************************************************************)
(* What the filters set, remove and mapping do to the records they are     *)
(* given (internal/modules/filter), through the paths of                   *)
(* internal/recordpath.  All of them edit in place, and what they write is *)
(* not copied: a map or a list has the identity it has in Go, and two      *)
(* records, two fields, or a record and the configuration may hold the     *)
(* same one.  soapPolling has the records of a batch share one map from the*)
(* beginning: the attachments of the answer.                               *)
(*                                                                         *)
(* The filters of a pipeline are made once and run on one batch after      *)
(* another.  Scalars are left out but for where they come from, and        *)
(* onError is FilterChain's subject: a record whose mapping failed goes on *)
(* here, as it does under log.                                             *)
(***************************************************************************)
EXTENDS Integers, Sequences, SequencesExt, FiniteSets, FiniteSetsExt

CONSTANTS Keys,        \* field names
          Filters,     \* filters to consider
          Shapes,      \* records to consider
          Attachments, \* attachments of a SOAP answer to consider
          AttachmentsKey,  \* "_soapAttachments"
          BatchSize, MaxFilters, MaxBatches

(* A value: the kind of its Go type; of a map or a list the object, of a   *)
(* list, which is a slice, the length too.                                 *)
Value == [kind : {"null", "scalar", "map", "list"}, ref : Nat, len : Nat]

Null        == [kind |-> "null", ref |-> 0, len |-> 0]
Missing     == [kind |-> "missing", ref |-> 0, len |-> 0]
Scalar      == [kind |-> "scalar", ref |-> 0, len |-> 0]
MapAt(r)    == [kind |-> "map", ref |-> r, len |-> 0]
SliceAt(r, n) == [kind |-> "list", ref |-> r, len |-> n]

IsContainer(v) == v.kind \in {"map", "list"}

(* A segment of a path, "key" or "key[idx]".                               *)
NoIndex   == -1
Malformed == -2
Segment == [key : Keys, idx : Nat \cup {NoIndex, Malformed}]
Path == {p \in Seq(Segment) : p # <<>>}

(* The objects a configuration holds: the value of a set filter, the       *)
(* defaultValue of a mapping.                                              *)
Literals == {1, 2}
Literal == [l \in Literals |-> MapAt(l)]

(* What the constructors make of a configuration: a literal is one of the  *)
(* two objects, or a scalar (0); a mapping without source deletes.  The    *)
(* operations on text only are left out; toInt stands for toFloat and      *)
(* toBool, toString for join.  A mapping filter has one mapping: those of a*)
(* list run record by record, which filters do not.                        *)
Operations == {"toString", "toInt", "toArray", "toObject", "split"}
SetFilters     == [op : {"set"}, targets : Seq(Path), literal : {0, 1}]
RemoveFilters  == [op : {"remove"}, targets : Seq(Path), literal : {0}]
MappingFilters == [op : {"mapping"}, targets : Seq(Path), source : Seq(Segment),
                   onMissing : {"setNull", "skipField", "useDefault", "fail"}, literal : {0, 2},
                   transforms : Seq(Operations)]

(* An object is a map or an array, as its fields or elements.              *)
IsMap(object)   == DOMAIN object \subseteq Keys /\ object \in [DOMAIN object -> Value]
IsArray(object) ==
    IsFiniteSet(DOMAIN object) /\ object \in [1 .. Cardinality(DOMAIN object) -> Value]

(* In h the objects `maps' are maps and the others are arrays; every value *)
(* refers to an object of its kind, a list to an array it fits into.       *)
Typed(h, maps) ==
    /\ \A r \in DOMAIN h : IF r \in maps THEN IsMap(h[r]) ELSE IsArray(h[r])
    /\ \A r \in DOMAIN h : \A k \in DOMAIN h[r] :
          /\ h[r][k].kind = "map"  => h[r][k].ref \in maps
          /\ h[r][k].kind = "list" =>
                /\ h[r][k].ref \in DOMAIN h \ maps
                /\ h[r][k].len <= Len(h[h[r][k].ref])

(* What a decoder makes: the first object is the record, and each of the   *)
(* others is held by one field or element.                                 *)
Decoded(shape) ==
    /\ shape # <<>> /\ DOMAIN shape = 1 .. Len(shape)
    /\ \E maps \in SUBSET DOMAIN shape : 1 \in maps /\ Typed(shape, maps)
    /\ \A r, s \in DOMAIN shape : \A j \in DOMAIN shape[r], k \in DOMAIN shape[s] :
          IsContainer(shape[r][j]) /\ IsContainer(shape[s][k]) /\ shape[r][j].ref = shape[s][k].ref
             => r = s /\ j = k

ASSUME RecordEditsAssumption ==
    /\ AttachmentsKey \in Keys /\ \A shape \in Shapes \cup Attachments : Decoded(shape)
    /\ BatchSize \in Nat \ {0} /\ MaxFilters \in Nat /\ MaxBatches \in Nat \ {0}
    /\ \A f \in Filters :
          /\ f \in SetFilters \/ f \in RemoveFilters \/ f \in MappingFilters
          /\ f.op # "remove" => Len(f.targets) = 1

VARIABLES heap,      \* the maps and lists there are
          records,   \* the batch: the map of each record
          pipeline,  \* the filters run so far
          stage,     \* the filter running, the last one of `pipeline' at first
          at,        \* the record it is at
          batches,   \* executions so far
          edit,      \* the last edit
          given,     \* history: objects the configuration has ever held, or
                     \* the input put into every record
          aliased    \* history: a map or list was written without a copy, or
                     \* put into every record

vars == <<heap, records, pipeline, stage, at, batches, edit, given, aliased>>

-----------------------------------------------------------------------------
(* Objects.                                                                *)

Fresh(h) == CHOOSE r \in 1 .. Cardinality(DOMAIN h) + 1 :
               r \notin DOMAIN h /\ \A s \in 1 .. r - 1 : s \in DOMAIN h

(* A map, or the heap, with something at x.                                *)
With(f, x, v) == [y \in DOMAIN f \cup {x} |-> IF y = x THEN v ELSE f[y]]

Put(h, r, key, v) == [h EXCEPT ![r] = With(@, key, v)]
PutAt(h, a, pos, v) == [h EXCEPT ![a] = [@ EXCEPT ![pos] = v]]

Held(h, r) == {h[r][k].ref : k \in {j \in DOMAIN h[r] : IsContainer(h[r][j])}}

(* What can be reached from some objects, itself included.                 *)
Reach(h, refs) ==
    LET within[n \in 0 .. Cardinality(DOMAIN h)] ==
          IF n = 0 THEN refs
          ELSE LET nearer == within[n - 1]
               IN  nearer \cup UNION {Held(h, r) : r \in nearer}
    IN  within[Cardinality(DOMAIN h)]

(* Something held can be reached from itself.                              *)
Loops(h, r) == \E s \in Reach(h, {r}) : s \in Reach(h, Held(h, s))

(* The heap without what nobody holds any more.                            *)
Live(h, roots) == [r \in Reach(h, Literals \cup roots) |-> h[r]]

(* A record as the input decoded it: its objects count from 1.             *)
Shift(v, n) == IF IsContainer(v) THEN [v EXCEPT !.ref = @ + n] ELSE v
Load(h, shape) ==
    LET n == Max(DOMAIN h)
    IN  [r \in DOMAIN h \cup n + 1 .. n + Len(shape) |->
           IF r \in DOMAIN h THEN h[r]
           ELSE [k \in DOMAIN shape[r - n] |-> Shift(shape[r - n][k], n)]]

Empty == [k \in {} |-> Null]
Configured ==
    [l \in Literals |-> IF l = 1 THEN With(Empty, CHOOSE k \in Keys : TRUE, Scalar) ELSE Empty]

NoEdit == [rec |-> 0, op |-> "none", ok |-> TRUE, paths |-> <<>>, value |-> Missing,
           loops |-> FALSE]

LoadBatch(h, shape) ==
    LET loaded[i \in 0 .. BatchSize] ==
          IF i = 0 THEN [heap |-> h, records |-> <<>>]
          ELSE LET to == loaded[i - 1]
               IN  [heap |-> Load(to.heap, shape),
                    records |-> Append(to.records, Max(DOMAIN to.heap) + 1)]
    IN  loaded[BatchSize]

(* recordsFromSOAPResponse: one map of the attachments, in every record.   *)
Attached(in, attachments) ==
    LET map == Max(DOMAIN in.heap) + 1
        h   == Load(in.heap, attachments)
    IN  [heap |-> [r \in DOMAIN h |-> IF r \in ToSet(in.records)
                                     THEN With(h[r], AttachmentsKey, MapAt(map)) ELSE h[r]],
         records |-> in.records,
         shared  |-> DOMAIN h \ DOMAIN in.heap]

Fetched(h, shape) ==
    LET in == LoadBatch(h, shape)
    IN  {[heap |-> in.heap, records |-> in.records, shared |-> {}]}
          \cup {Attached(in, attachments) : attachments \in Attachments}

Init ==
    /\ \E shape \in Shapes : \E in \in Fetched(Configured, shape) :
          /\ heap = in.heap /\ records = in.records
          /\ given = Literals \cup in.shared /\ aliased = (in.shared # {})
    /\ pipeline = <<>> /\ stage = 0 /\ at = BatchSize + 1 /\ batches = 1
    /\ edit = NoEdit

-----------------------------------------------------------------------------
(* Reading a path.                                                         *)

GetFromMap(h, v, key) ==
    IF v.kind = "map" /\ key \in DOMAIN h[v.ref] THEN h[v.ref][key] ELSE Missing

GetFromArray(h, v, idx) ==
    IF v.kind = "list" /\ idx < v.len THEN h[v.ref][idx + 1] ELSE Missing

NavigateStep(h, v, part) ==
    CASE part.idx = Malformed -> Missing
      [] part.idx = NoIndex -> GetFromMap(h, v, part.key)
      [] OTHER -> GetFromArray(h, GetFromMap(h, v, part.key), part.idx)

(* Nothing is found under what is Missing.                                 *)
Navigate(h, r, path, n) ==
    LET found[i \in 0 .. n] ==
          IF i = 0 THEN MapAt(r) ELSE NavigateStep(h, found[i - 1], path[i])
    IN  found[n]

Get(h, r, path) == Navigate(h, r, path, Len(path))

-----------------------------------------------------------------------------
(* Writing one.  An operator returns the heap, or with it the map reached. *)

(* A map or an array is made, and put somewhere.                           *)
New(h, object) == With(h, Fresh(h), object)
NewMap(h, r, key) ==
    [heap |-> Put(New(h, Empty), r, key, MapAt(Fresh(h))), at |-> Fresh(h), ok |-> TRUE]

(* Fault: a map that is there is replaced like a value that is none.       *)
EnsureMapAtPath_Replaces(h, r, key) ==
    NewMap(h, r, key)

(* Fault: one empty map stands for all that are missing.                   *)
EnsureMapAtPath_Shares(h, r, key) ==
    LET next == GetFromMap(h, MapAt(r), key)
    IN  IF next.kind = "map" THEN [heap |-> h, at |-> next.ref, ok |-> TRUE]
        ELSE [heap |-> Put(h, r, key, Literal[2]), at |-> 2, ok |-> TRUE]

EnsureMapAtPath(h, r, key) ==
    LET next == GetFromMap(h, MapAt(r), key)
    IN  IF next.kind = "map" THEN [heap |-> h, at |-> next.ref, ok |-> TRUE]
        ELSE NewMap(h, r, key)

EnsureArrayAtPath(h, r, key) ==
    IF GetFromMap(h, MapAt(r), key).kind = "list" THEN h
    ELSE Put(New(h, <<>>), r, key, SliceAt(Fresh(h), 0))

(* Fault: one element short of the index.                                  *)
Extended_Short(h, r, key, idx, grow) ==
    LET arr == h[r][key]
        padded == SubSeq(h[arr.ref], 1, arr.len) \o [i \in 1 .. idx - arr.len |-> Null]
    IN  IF arr.len >= idx THEN h
        ELSE Put(New(h, padded), r, key, SliceAt(Fresh(h), idx))

(* append of as many nils as the index is beyond the end: in the array     *)
(* that is there when it has the room, as it has after a removal and may   *)
(* have otherwise (grow), else in another one.                             *)
Extended(h, r, key, idx, grow) ==
    LET arr    == h[r][key]
        old    == h[arr.ref]
        padded == SubSeq(old, 1, arr.len) \o [i \in 1 .. idx + 1 - arr.len |-> Null]
        inRoom == padded \o SubSeq(old, idx + 2, Len(old))
    IN  IF idx < arr.len THEN h
        ELSE IF idx < Len(old) \/ grow
        THEN [Put(h, r, key, SliceAt(arr.ref, idx + 1)) EXCEPT ![arr.ref] = inRoom]
        ELSE Put(New(h, padded), r, key, SliceAt(Fresh(h), idx + 1))

Indexed(h, r, key, idx, grow) == Extended(EnsureArrayAtPath(h, r, key), r, key, idx, grow)

SetArrayElement(h, r, key, idx, v, grow) ==
    LET g == Indexed(h, r, key, idx, grow)
    IN  PutAt(g, g[r][key].ref, idx + 1, v)

EnsureMapInArray(h, r, key, idx, grow) ==
    LET g    == Indexed(h, r, key, idx, grow)
        list == g[r][key].ref
        next == g[list][idx + 1]
    IN  IF next.kind = "map" THEN [heap |-> g, at |-> next.ref, ok |-> TRUE]
        ELSE [heap |-> PutAt(New(g, Empty), list, idx + 1, MapAt(Fresh(g))),
              at |-> Fresh(g), ok |-> TRUE]

(* One segment before the last; a malformed one stops Set where it is, and *)
(* what it has made on the way stays.                                      *)
Descend(to, part, grow) ==
    CASE ~to.ok \/ part.idx = Malformed -> [heap |-> to.heap, at |-> to.at, ok |-> FALSE]
      [] to.ok /\ part.idx = NoIndex -> EnsureMapAtPath(to.heap, to.at, part.key)
      [] OTHER -> EnsureMapInArray(to.heap, to.at, part.key, part.idx, grow)

(* The map to write into, n segments down.                                 *)
Descent(h, r, path, grow, n) ==
    LET down[i \in 0 .. n] ==
          IF i = 0 THEN [heap |-> h, at |-> r, ok |-> TRUE]
          ELSE Descend(down[i - 1], path[i], grow)
    IN  down[n]

Set(h, r, path, v, grow) ==
    LET to   == Descent(h, r, path, grow, Len(path) - 1)
        last == Last(path)
    IN  CASE ~to.ok \/ last.idx = Malformed -> [heap |-> to.heap, ok |-> FALSE]
          [] to.ok /\ last.idx = NoIndex ->
                [heap |-> Put(to.heap, to.at, last.key, v), ok |-> TRUE]
          [] OTHER -> [heap |-> SetArrayElement(to.heap, to.at, last.key, last.idx, v, grow),
                       ok |-> TRUE]

-----------------------------------------------------------------------------
(* Removing one.                                                           *)

Drop(h, r, key) == [h EXCEPT ![r] = [k \in DOMAIN @ \ {key} |-> @[k]]]

(* Fault: the element after it goes too.                                   *)
DeleteFromMap_Two(h, r, part) ==
    LET arr == GetFromMap(h, MapAt(r), part.key)
    IN  IF part.idx = NoIndex THEN Drop(h, r, part.key)
        ELSE IF GetFromArray(h, arr, part.idx) = Missing THEN h
        ELSE Put(h, r, part.key, SliceAt(arr.ref, arr.len - 2))

(* append(arr[:i], arr[i+1:]...) moves the rest down in the array there    *)
(* is, and leaves its last element behind beyond the new length.           *)
DeleteFromMap(h, r, part) ==
    LET arr   == GetFromMap(h, MapAt(r), part.key)
        moved == [i \in DOMAIN h[arr.ref] |->
                    IF part.idx < i /\ i < arr.len THEN h[arr.ref][i + 1] ELSE h[arr.ref][i]]
    IN  IF part.idx = NoIndex THEN Drop(h, r, part.key)
        ELSE IF GetFromArray(h, arr, part.idx) = Missing THEN h
        ELSE [Put(h, r, part.key, SliceAt(arr.ref, arr.len - 1)) EXCEPT ![arr.ref] = moved]

(* The parent is a list: the key goes from the element at the index.       *)
DeleteFromArray(h, list, part) ==
    LET elem == GetFromArray(h, list, part.idx)
    IN  IF part.idx # NoIndex /\ elem.kind = "map"
        THEN Drop(h, elem.ref, part.key)
        ELSE h

Delete(h, r, path) ==
    LET parent == Navigate(h, r, path, Len(path) - 1)
    IN  CASE Last(path).idx = Malformed -> h
          [] Last(path).idx # Malformed /\ parent.kind = "map" ->
                DeleteFromMap(h, parent.ref, Last(path))
          [] Last(path).idx # Malformed /\ parent.kind = "list" ->
                DeleteFromArray(h, parent, Last(path))
          [] OTHER -> h

DeleteAll(h, r, paths) ==
    LET left[i \in 0 .. Len(paths)] == IF i = 0 THEN h ELSE Delete(left[i - 1], r, paths[i])
    IN  left[Len(paths)]

-----------------------------------------------------------------------------
(* The filters.                                                            *)

filter == pipeline[stage]
record == records[at]

AtRecord(op) == stage > 0 /\ at <= Len(records) /\ filter.op = op

(* The record as the edit h leaves it; the next record is up.              *)
Edited(h, paths, ok, value) ==
    /\ heap' = Live(h, ToSet(records))
    /\ given' = Reach(h, given) \cap DOMAIN heap'
    /\ edit' = [rec |-> record, op |-> IF value = Missing THEN "remove" ELSE "set",
                ok |-> ok, paths |-> paths, value |-> value, loops |-> Loops(heap, record)]
    /\ at' = at + 1
    /\ UNCHANGED <<pipeline, stage, batches, records>>

(* set writes its literal; an error ends the execution.                    *)
SetRecord ==
    /\ AtRecord("set")
    /\ \E grow \in BOOLEAN :
          LET v == IF filter.literal = 0 THEN Scalar ELSE Literal[filter.literal]
              s == Set(heap, record, filter.targets[1], v, grow)
          IN  IF s.ok
              THEN /\ Edited(s.heap, filter.targets, TRUE, v)
                   /\ aliased' = (aliased \/ IsContainer(v))
              ELSE /\ records' = <<>> /\ heap' = Live(s.heap, {}) /\ edit' = NoEdit
                   /\ given' = Reach(s.heap, given) \cap DOMAIN heap'
                   /\ UNCHANGED <<pipeline, stage, at, batches, aliased>>

(* remove, target by target.                                               *)
RemoveRecord ==
    /\ AtRecord("remove")
    /\ Edited(DeleteAll(heap, record, filter.targets), filter.targets, TRUE, Missing)
    /\ UNCHANGED aliased

(* A mapping without source deletes its target.                            *)
DeleteMapped ==
    /\ AtRecord("mapping") /\ filter.source = <<>>
    /\ Edited(Delete(heap, record, filter.targets[1]), filter.targets, TRUE, Missing)
    /\ UNCHANGED aliased

(* Fault: what was read for the first record is written into all.          *)
GetSourceValue_First ==
    Get(heap, records[1], filter.source)

(* getSourceValue: what to write, or Missing when nothing is.              *)
GetSourceValue ==
    LET v == Get(heap, record, filter.source)
    IN  IF v \notin {Missing, Null} THEN v
        ELSE CASE filter.onMissing = "setNull" -> Null
               [] filter.onMissing = "useDefault" ->
                    IF filter.literal = 0 THEN Scalar ELSE Literal[filter.literal]
               [] OTHER -> Missing

(* The field is skipped, or missing and required: the record stays.        *)
MapNothing ==
    /\ AtRecord("mapping") /\ filter.source # <<>> /\ GetSourceValue = Missing
    /\ at' = at + 1 /\ edit' = NoEdit
    /\ UNCHANGED <<heap, records, pipeline, stage, batches, given, aliased>>

(* A new list with the elements given.                                     *)
ListOf(h, elems) ==
    [ok |-> TRUE, value |-> SliceAt(Fresh(h), Len(elems)), heap |-> New(h, elems)]

(* What an operation may make of a value: toArray wraps what is no list,   *)
(* without a copy; split cuts a string, which not every scalar is.         *)
ApplyTransformOp(h, v, op) ==
    LET becomes(w) == [ok |-> TRUE, value |-> w, heap |-> h]
        fails      == [ok |-> FALSE, value |-> v, heap |-> h]
        wrapped    == IF v.kind = "list" THEN becomes(v) ELSE ListOf(h, <<v>>)
    IN  CASE v = Null         -> {becomes(v)}
          [] v # Null /\ op = "toString" -> {becomes(Scalar)}
          [] v # Null /\ op = "toInt"    -> {fails} \cup {becomes(w) : w \in {v} \cap {Scalar}}
          [] v # Null /\ op = "toArray"  -> {wrapped}
          [] v # Null /\ op = "toObject" -> {IF v.kind = "map" THEN becomes(v) ELSE fails}
          [] OTHER              -> {becomes(v)} \cup {ListOf(h, <<w>>) : w \in {v} \cap {Scalar}}

Applied(outs, op) ==
    UNION {IF o.ok THEN ApplyTransformOp(o.heap, o.value, op) ELSE {o} : o \in outs}

(* One after the other, until one fails.                                   *)
ApplyTransforms(h, v, ops) ==
    LET outs[i \in 0 .. Len(ops)] ==
          IF i = 0 THEN {[ok |-> TRUE, value |-> v, heap |-> h]}
          ELSE Applied(outs[i - 1], ops[i])
    IN  outs[Len(ops)]

(* The value goes to the target: the object itself, if it is one.          *)
MapField ==
    /\ AtRecord("mapping") /\ filter.source # <<>> /\ GetSourceValue # Missing
    /\ \E grow \in BOOLEAN, t \in ApplyTransforms(heap, GetSourceValue, filter.transforms) :
          LET s == Set(t.heap, record, filter.targets[1], t.value, grow)
          IN  /\ t.ok
              /\ Edited(s.heap, filter.targets, s.ok, t.value)
              /\ aliased' = (aliased \/ (IsContainer(GetSourceValue) /\ IsContainer(t.value)))

(* An error keeps the value from being written.                            *)
TransformFails ==
    /\ AtRecord("mapping") /\ filter.source # <<>> /\ GetSourceValue # Missing
    /\ \E t \in ApplyTransforms(heap, GetSourceValue, filter.transforms) : ~t.ok
    /\ at' = at + 1 /\ edit' = NoEdit
    /\ UNCHANGED <<heap, records, pipeline, stage, batches, given, aliased>>

FilterDone == stage = Len(pipeline) /\ at > Len(records)

(* executeFilters: each filter is its own, with a literal of its own.      *)
NextFilter(f) ==
    /\ at > Len(records)
    /\ IF stage < Len(pipeline) THEN f = pipeline[stage + 1] /\ UNCHANGED pipeline
       ELSE /\ batches = 1 /\ stage < MaxFilters
            /\ \A i \in DOMAIN pipeline : pipeline[i].literal \in {0} \/ pipeline[i].literal # f.literal
            /\ pipeline' = Append(pipeline, f)
    /\ stage' = stage + 1 /\ at' = 1 /\ edit' = NoEdit
    /\ UNCHANGED <<heap, records, batches, given, aliased>>

(* The next execution: new records, the filters there are.                 *)
NextBatch(shape) ==
    /\ FilterDone /\ stage > 0 /\ batches < MaxBatches
    /\ LET h == Live(heap, {})
       IN  \E in \in Fetched(h, shape) :
              /\ heap' = in.heap /\ records' = in.records
              /\ given' = (given \cap DOMAIN h) \cup in.shared
              /\ aliased' = (aliased \/ in.shared # {})
    /\ batches' = batches + 1 /\ stage' = 0 /\ at' = BatchSize + 1 /\ edit' = NoEdit
    /\ UNCHANGED pipeline

Next ==
    \/ SetRecord \/ RemoveRecord \/ DeleteMapped \/ MapNothing \/ MapField \/ TransformFails
    \/ \E f \in Filters : NextFilter(f)
    \/ \E shape \in Shapes : NextBatch(shape)

Spec == Init /\ [][Next]_vars

-----------------------------------------------------------------------------
(* Type invariant.  No object is lost, and no list is longer than the      *)
(* array it is in.                                                         *)
WellTyped(v) ==
    /\ v \in Value
    /\ v.kind = "map"  => v.ref \in DOMAIN heap /\ DOMAIN heap[v.ref] \subseteq Keys
    /\ v.kind = "list" => v.ref \in DOMAIN heap /\ heap[v.ref] \in Seq(Value) /\ v.len <= Len(heap[v.ref])

RecordsType ==
    /\ \A r \in DOMAIN heap : \A k \in DOMAIN heap[r] : WellTyped(heap[r][k])
    /\ \A r \in ToSet(records) : WellTyped(MapAt(r))
    /\ stage \in 0 .. Len(pipeline) /\ Len(pipeline) <= MaxFilters
    /\ at \in 1 .. BatchSize + 1 /\ batches \in 1 .. MaxBatches
    /\ given \subseteq DOMAIN heap /\ aliased \in BOOLEAN

HasIndex(path) == \E i \in DOMAIN path : path[i].idx # NoIndex

(* What Set has written Get finds at the same path, even when the value is *)
(* an object the path leads through, unless the record had an object in    *)
(* itself already: a path through the loop may then come back to the field *)
(* written.  What was removed is gone, unless its index belongs to the     *)
(* next element now.                                                       *)
EditIsRead ==
    edit.ok => /\ edit.op = "set" /\ ~edit.loops => Get(heap, edit.rec, edit.paths[1]) = edit.value
               /\ edit.op = "remove" =>
                    \A p \in ToSet(edit.paths) :
                       ~HasIndex(p) => Get(heap, edit.rec, p) = Missing

-----------------------------------------------------------------------------
(* The fields an edit may change.                                          *)

(* A path as keys and indexes.                                             *)
Flat(path) ==
    FoldLeft(LAMBDA f, part : IF part.idx = NoIndex THEN Append(f, <<"key", part.key>>)
                              ELSE f \o <<<<"key", part.key>>, <<"idx", part.idx>>>>,
             <<>>, path)

(* p and q part ways, at a map or at a list for both of them; an element   *)
(* that comes before the one at p keeps its place.                         *)
Apart(p, q) ==
    LET m == Flat(p)
        n == Flat(q)
    IN  \E i \in DOMAIN m \cap DOMAIN n :
          /\ SubSeq(m, 1, i - 1) = SubSeq(n, 1, i - 1)
          /\ m[i] # n[i] /\ m[i][1] = n[i][1]
          /\ m[i][1] = "idx" => n[i][2] < m[i][2]

WellFormed(p) == \A i \in DOMAIN p : p[i].idx # Malformed

(* The paths to look at: those of the filters.                             *)
Probes == {p \in UNION {ToSet(f.targets) : f \in Filters} : WellFormed(p)}

(* As long as nothing was written without a copy, an edit of a record,     *)
(* one that fails included, changes at most what is at, above or below its *)
(* paths (recordpath.Set, Delete). Where a list is padded nothing turns to *)
(* null.                                                                   *)
EditIsLocal ==
    [][~aliased /\ edit'.rec # 0 =>
         \A r \in ToSet(records), q \in Probes :
            (r = edit'.rec => \A p \in ToSet(edit'.paths) : Apart(p, q))
              => \/ Get(heap', r, q) = Get(heap, r, q)
                 \/ Get(heap', r, q) = Null /\ Get(heap, r, q) = Missing]_vars

(* An edit of a record leaves the others what they are, all they hold      *)
(* included (filters work record by record), whatever was written without  *)
(* a copy; but for the objects of the configuration or of the input that   *)
(* the record edited may hold as well: an edit below the attachments of one*)
(* record is one of all of them.                                           *)
EditKeepsOthers ==
    [][edit'.rec # 0 =>
         \A r \in ToSet(records) : r # edit'.rec =>
            \A o \in Reach(heap, {r}) \ given : o \in DOMAIN heap' /\ heap'[o] = heap[o]]_vars

(* Two records of a batch share nothing but what the configuration or a    *)
(* SOAP answer with attachments has given to both; and until a map or a    *)
(* list is written without a copy, nothing is held twice at all.           *)
SharingIsKnown ==
    /\ \A i, j \in DOMAIN records :
          i # j => Reach(heap, {records[i]}) \cap Reach(heap, {records[j]}) \subseteq given
    /\ ~aliased => \A r, s \in DOMAIN heap : r # s => Held(heap, r) \cap Held(heap, s) = {}
=============================================================================
