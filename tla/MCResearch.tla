----------------------------- MODULE MCResearch -----------------------------
(***************************************************************************)
(* An instance of Research: its paths are interchangeable.                 *)
(***************************************************************************)
EXTENDS Research, TLC

PathSymmetry == Permutations(Paths)
=============================================================================
