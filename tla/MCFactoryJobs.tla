--------------------------- MODULE MCFactoryJobs ----------------------------
(***************************************************************************)
(* TLC instance of FactoryJobs.  A "unit" job takes half of the budget, so *)
(* two of them run at the same time.                                       *)
(***************************************************************************)
EXTENDS FactoryJobs, TLC

UnitCharge(spec, r) == 1
UnitBudget(r) == 2

Symmetry == Permutations(Vms) \cup Permutations(Jobs) \cup Permutations(Keys)
=============================================================================
