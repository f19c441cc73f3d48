----------------------------- MODULE MCContext -----------------------------
(***************************************************************************)
(* Context on small instances.  The texts are interchangeable.             *)
(***************************************************************************)
EXTENDS Context, TLC

TextSymmetry == Permutations(Texts)
=============================================================================
