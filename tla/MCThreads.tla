------------------------------ MODULE MCThreads ------------------------------
(* Instances of Threads for TLC. *)
EXTENDS Threads, TLC

\* MVars and values are interchangeable in every definition of the model.
Interchangeable == Permutations(MVars) \cup Permutations(Values)
=============================================================================
