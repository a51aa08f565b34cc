----------------------------- MODULE MCRunRecord -----------------------------
(* RunRecord with interchangeable DELETE requests. *)
EXTENDS RunRecord, TLC

Interchangeable == Permutations(Requests)
=============================================================================
