------------------------------ MODULE MCFetch ------------------------------
(***************************************************************************)
(* A small instance of Fetch for TLC.                                      *)
(***************************************************************************)
EXTENDS Fetch

Both == {"limit", "position"}

Whole == [input : {"http", "soap", "database"}, type : {"single"},
          limit : {1}, served : {2}, totals : {FALSE}, binds : {{}}, returned : {TRUE}]

Http == [input : {"http", "soap"}, type : {"page", "offset", "cursor"},
         limit : {2}, served : {2}, totals : BOOLEAN, binds : {Both}, returned : {TRUE}]

(* Pages of one row, of which the limit on pages leaves some out.          *)
Narrow == [input : {"http", "soap"}, type : {"page", "offset"},
           limit : {1}, served : {1}, totals : {FALSE}, binds : {Both}, returned : {TRUE}]

(* A server that answers at most one row, whatever the limit, and one that *)
(* is never told which page, offset or cursor.                             *)
Stingy == [input : {"http"}, type : {"offset", "cursor"},
           limit : {2}, served : {1}, totals : {FALSE}, binds : {Both}, returned : {TRUE}]
Deaf == [input : {"http", "soap"}, type : {"page", "offset", "cursor"},
         limit : {1}, served : {1}, totals : {FALSE}, binds : {{"limit"}}, returned : {TRUE}]

(* Queries that the module appends LIMIT and OFFSET to, that bind the      *)
(* offset or the cursor, or the limit alone; the last has a LIMIT of its   *)
(* own, below the one configured.                                          *)
Database == {c \in [input : {"database"}, type : {"offset", "cursor"},
                    limit : {1, 2}, served : {2}, totals : {FALSE},
                    binds : {{}, {"limit"}, Both}, returned : BOOLEAN] :
                /\ c.type = "cursor" => c.binds # {}
                /\ ~c.returned => c.type = "cursor" /\ c.binds = Both}
OwnLimit == [input : {"database"}, type : {"offset", "cursor"},
             limit : {2}, served : {1}, totals : {FALSE},
             binds : {{"position"}}, returned : {TRUE}]

SomeInputs == Whole \cup Http \cup Narrow \cup Stingy \cup Deaf \cup Database \cup OwnLimit
=============================================================================
