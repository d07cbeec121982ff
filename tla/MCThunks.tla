------------------------------ MODULE MCThunks ------------------------------
(* Instances of Thunks for TLC. *)
EXTENDS Thunks

\* Thunks are interchangeable in every definition of the model.
Interchangeable == Permutations(Closures)
=============================================================================
