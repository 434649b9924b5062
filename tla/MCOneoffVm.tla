----------------------------- MODULE MCOneoffVm -----------------------------
(* Instances of OneoffVm for model checking. *)
EXTENDS OneoffVm, TLC

Alike == Permutations(Procs)
=============================================================================
