---------------------------- MODULE MCHostLeases ----------------------------
(***************************************************************************)
(* TLC instance of HostLeases.  Generations, names and machines are        *)
(* interchangeable model values; no property of the runs is a liveness     *)
(* property, so the symmetry is sound.                                     *)
(***************************************************************************)
EXTENDS HostLeases, TLC

Symmetry == Permutations(Vms) \cup Permutations(Names) \cup Permutations(Hosts)
=============================================================================
