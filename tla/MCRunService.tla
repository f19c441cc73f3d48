---------------------------- MODULE MCRunService ----------------------------
(***************************************************************************)
(* RunService on small instances.  Run ids are interchangeable: the order  *)
(* of the runs is data (`born'), and no action or invariant names a run.   *)
(***************************************************************************)
EXTENDS RunService, TLC

RunSymmetry == Permutations(Runs)
=============================================================================
