---------------------------- MODULE MCRateLimit ----------------------------
(***************************************************************************)
(* RateLimit on small instances.  The clients are interchangeable.         *)
(***************************************************************************)
EXTENDS RateLimit, TLC

ClientSymmetry == Permutations(Clients)
=============================================================================
