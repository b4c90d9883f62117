---------------------------- MODULE MCJobJournal ----------------------------
(***************************************************************************)
(* TLC instance of JobJournal.  A "big" job takes all but one unit of the  *)
(* budget, so two of them never fit; a "small" one fits beside either.     *)
(***************************************************************************)
EXTENDS JobJournal, TLC

SpecCharge(spec, r) == IF spec = "big" THEN 2 ELSE 1
FactoryBudget(r) == 3

Symmetry == Permutations(Vms) \cup Permutations(Jobs) \cup Permutations(Keys)
=============================================================================
