--------------------------- MODULE MCValidateRun ---------------------------
(* Instances of ValidateRun for model checking. *)
EXTENDS ValidateRun, FiniteSetsExt

CONSTANT Huge

\* Two of the other guests fit together; this one is larger than the budget.
MCCost == [g \in Guests |-> IF g = Huge THEN 9 ELSE 2]

MCLoad == [S \in SUBSET Guests |-> MapThenSumSet(Effective, S)]
=============================================================================
