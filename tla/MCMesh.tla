------------------------------- MODULE MCMesh -------------------------------
(* Finite values for TLC. *)
EXTENDS Mesh

CONSTANTS a1, a2, b1, b2, b3

Lone == <<b1>>
=============================================================================
