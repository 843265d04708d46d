------------------------------ MODULE MCPipeline ------------------------------
(***************************************************************************)
(* Instances of Pipeline for TLC.  Request ids only ever meet each other   *)
(* in equality tests and through their arrival numbers, so permuting them  *)
(* is a symmetry.                                                          *)
(***************************************************************************)
EXTENDS Pipeline, TLC

CONSTANTS r1, r2

Symmetry == Permutations(Requests)
===============================================================================
