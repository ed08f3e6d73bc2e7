--------------------------- MODULE MCRecordEdits ---------------------------
(***************************************************************************)
(* A small instance of RecordEdits for TLC: two field names, paths of one  *)
(* to three segments, indexed or not, one of them malformed.               *)
(***************************************************************************)
EXTENDS RecordEdits, TLC

CONSTANTS a, b

Field(k)   == [key |-> k, idx |-> NoIndex]
Elem(k, i) == [key |-> k, idx |-> i]

Targets == {<<Field(a)>>, <<Field(b)>>, <<Field(a), Field(a)>>, <<Field(a), Field(b)>>,
            <<Elem(a, 0)>>, <<Elem(a, 1)>>,
            <<Elem(a, 1), Field(b)>>, <<Field(b), Elem(a, 0)>>}
Deep   == <<Field(a), Field(b), Field(b)>>
Broken == <<Field(b), [key |-> a, idx |-> Malformed]>>

SomeFilters ==
    [op : {"set"}, targets : {<<p>> : p \in Targets \cup {Deep, Broken}}, literal : {0}]
      \cup [op : {"set"}, targets : {<<<<Field(a)>>>>, <<<<Elem(a, 1)>>>>}, literal : {1}]
      \cup [op : {"remove"}, literal : {0},
            targets : {<<p>> : p \in Targets} \cup {<<<<Elem(a, 0)>>, <<Elem(a, 1)>>>>}]
      \cup [op : {"mapping"}, source : {<<>>}, targets : {<<<<Elem(a, 0)>>>>, <<<<Field(b)>>>>},
            onMissing : {"setNull"}, literal : {0}, transforms : {<<>>}]
      \cup [op : {"mapping"}, source : {<<Field(a)>>, <<Field(a), Field(b)>>},
            targets : {<<<<Field(b)>>>>, <<<<Field(a), Field(b)>>>>, <<<<Elem(a, 1)>>>>, <<Broken>>},
            onMissing : {"setNull"}, literal : {0}, transforms : {<<>>}]
      \cup [op : {"mapping"}, source : {<<Field(a)>>}, targets : {<<<<Field(b)>>>>},
            onMissing : {"setNull"}, literal : {0},
            transforms : {<<"toArray">>, <<"toString", "split">>, <<"toObject">>, <<"toInt">>}]
      \cup [op : {"mapping"}, source : {<<Elem(b, 0)>>}, targets : {<<<<Field(a), Field(b)>>>>},
            onMissing : {"setNull", "skipField", "useDefault", "fail"}, literal : {0, 2}, transforms : {<<>>}]

(* {a: {a: _, b: _}}, {a: [{b: _}, _], b: _} and {b: [_]}, as decoded.        *)
SomeShapes ==
    {<<a :> MapAt(2), (a :> Scalar) @@ (b :> Scalar)>>,
     <<(a :> SliceAt(2, 2)) @@ (b :> Scalar), <<MapAt(3), Scalar>>, b :> Scalar>>,
     <<b :> SliceAt(2, 1), <<Scalar>>>>}

(* {b: {b: _}}, in the field a of every record.                            *)
SomeAttachments == {<<b :> MapAt(2), b :> Scalar>>}
=============================================================================
