----------------------------- MODULE MCDelivery -----------------------------
(***************************************************************************)
(* A small instance of Delivery for TLC: the filters and output modules    *)
(* the runs consider.                                                      *)
(***************************************************************************)
EXTENDS Delivery

CONSTANTS a, b

(* onError means something to the kinds that have it; only loops have an   *)
(* item name that matters.                                                 *)
SomeFilters ==
    [kind : {"mapping"}, onError : {"fail", "skip", "log"}, alias : {a}]
        \cup [kind : {"call", "script"}, onError : {"log"}, alias : {a}]
        \cup [kind : {"condition", "loop"}, onError : {"fail", "log"}, alias : {a}]
        \cup [kind : {"loop"}, onError : {"skip"}, alias : {b}]
        \cup [kind : {"set", "remove", "drop"}, onError : {"fail"}, alias : {a}]

Http == [kind : {"http"}, single : {FALSE}, size : {0, 2}, body : {"records"}, named : {TRUE},
         onError : {"fail", "skip"}, attempts : {2}, tx : {FALSE}, driver : {"none"}]
        \cup [kind : {"http"}, single : {FALSE}, size : {2}, body : {"template"}, named : {TRUE},
              onError : {"skip"}, attempts : {2}, tx : {FALSE}, driver : {"none"}]
        \cup [kind : {"http"}, single : {FALSE}, size : {2}, body : {"none"}, named : BOOLEAN,
              onError : {"fail"}, attempts : {2}, tx : {FALSE}, driver : {"none"}]
        \cup [kind : {"http"}, single : {TRUE}, size : {0}, body : {"records"}, named : {TRUE},
              onError : {"fail", "log"}, attempts : {2}, tx : {FALSE}, driver : {"none"}]

Soap == [kind : {"soap"}, single : {FALSE}, size : {0, 2}, body : {"template"}, named : {TRUE},
         onError : {"fail", "skip"}, attempts : {2}, tx : {FALSE}, driver : {"none"}]
        \cup [kind : {"soap"}, single : {TRUE}, size : {0}, body : {"template"}, named : {TRUE},
              onError : {"fail", "log"}, attempts : {2}, tx : {FALSE}, driver : {"none"}]

Database == [kind : {"database"}, single : {TRUE}, size : {0}, body : {"template"},
             named : {FALSE}, onError : {"fail", "skip"}, attempts : {1}, tx : {TRUE},
             driver : {"postgres", "mysql"}]
        \cup [kind : {"database"}, single : {TRUE}, size : {0}, body : {"template"},
              named : {FALSE}, onError : {"skip"}, attempts : {1}, tx : {TRUE},
              driver : {"sqlite"}]
        \cup [kind : {"database"}, single : {TRUE}, size : {0}, body : {"template"},
              named : {FALSE}, onError : {"fail", "skip"}, attempts : {1}, tx : {FALSE},
              driver : {"postgres"}]

SomeOutputs == Http \cup Soap \cup Database
=============================================================================
