------------------------------- MODULE MCSync -------------------------------
(* Up to three paths and two actions at a time: a sync shorter than, as long as and longer
   than its concurrency, with every combination of kinds at the first two paths. *)
EXTENDS Sync
MCKindsAt == [p \in Path |-> IF p < 3 THEN Kinds ELSE {"absent", "sourceOnly"}]
=============================================================================
