------------------------------- MODULE Batch -------------------------------
(***************************************************************************)
(* What the stages of one execution share (internal/runtime/pipeline.go):  *)
(* the batch of records handed from stage to stage, and the context whose  *)
(* cancellation every stage may or may not look at.  A record is its       *)
(* number in the batch the input fetched.                                  *)
(***************************************************************************)
EXTENDS Naturals, Sequences, SequencesExt

CONSTANTS MaxRecords,  \* bound: records fetched
          MaxTroubles  \* bound: failures of records, requests, statements

ASSUME BatchAssumption == MaxRecords \in Nat /\ MaxTroubles \in Nat

VARIABLES records,    \* []map[string]any, as the last stage left it
          cancelled,  \* ctx is done: SIGTERM, or a deadline
          troubles    \* failures so far

Ids == 1 .. MaxRecords

Fetched(n) == [i \in 1 .. n |-> i]

BatchType ==
    /\ records \in Seq(Ids)
    /\ cancelled \in BOOLEAN
    /\ troubles \in 0 .. MaxTroubles

BatchInit == records = <<>> /\ cancelled = FALSE /\ troubles = 0

(* Anything that goes wrong by chance.                                     *)
Trouble == troubles < MaxTroubles /\ troubles' = troubles + 1
=============================================================================
