---------------------------- MODULE MCJobSystem ----------------------------
(***************************************************************************)
(* Instances of JobSystem for model checking: job ids and workers are      *)
(* interchangeable, owners are not told apart by any property but ownership *)
(***************************************************************************)
EXTENDS JobSystem, TLC

Symmetry == Permutations(Ids) \cup Permutations(Workers)
=============================================================================
