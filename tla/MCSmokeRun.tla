----------------------------- MODULE MCSmokeRun -----------------------------
(* Instances of SmokeRun for model checking. *)
EXTENDS SmokeRun, FiniteSetsExt

MCTotal ==
  [f \in [Cases -> Costs] |->
     [S \in SUBSET Cases |-> MapThenSumSet(LAMBDA c : f[c], S)]]
=============================================================================
