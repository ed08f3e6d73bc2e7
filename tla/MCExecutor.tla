----------------------------- MODULE MCExecutor -----------------------------
(***************************************************************************)
(* Small instances of Executor for TLC: the pipeline configurations each   *)
(* run considers.                                                          *)
(***************************************************************************)
EXTENDS Executor

(* At most one kind of cursor.  With skip the output may do all it does    *)
(* without; the order of the answer matters to the ID cursor only, with    *)
(* which single runs are checked too; one dry run stands for all of them.  *)
OneCursor == {c \in ConfigType : /\ ~(c.ts /\ c.id)
                                 /\ c.skip
                                 /\ c.id \/ c.ordered
                                 /\ c.id \/ c.retain
                                 /\ c.dryRun => c.ts}

(* Every configuration that sends.                                         *)
Sending == {c \in ConfigType : ~c.dryRun}

DryRuns == {c \in ConfigType : c.dryRun /\ ~c.skip}
=============================================================================
