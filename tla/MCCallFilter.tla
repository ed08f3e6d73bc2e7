---------------------------- MODULE MCCallFilter ----------------------------
(***************************************************************************)
(* A small instance of CallFilter for TLC: the response objects are named  *)
(* by the caller and the record they were made for; the batches make two   *)
(* callers share a call, need more entries than the memo has room for, and *)
(* use the empty key, before and after another one.                        *)
(***************************************************************************)
EXTENDS CallFilter

CONSTANTS k1, k2, k3, c1, c2

Objects == Callers \X (1 .. MaxBatch) \X {"response", "copy"}

TwoRecords == (c1 :> {<<k1, k2>>, <<EmptyKey, k3>>}) @@ (c2 :> {<<k1, k3>>})

(* Every filter and every strategy with a memo, one without. *)
Enrichers == [kind : {"http"}, onError : {"fail", "log"}, cacheEnabled : {TRUE}]
               \cup [kind : {"soap"}, onError : {"skip"}, cacheEnabled : {TRUE}]
               \cup [kind : {"http"}, onError : {"log"}, cacheEnabled : {FALSE}]
               \cup [kind : {"sql"}, onError : {"log"}, cacheEnabled : {TRUE}]
=============================================================================
