---------------------------- MODULE MCMigration -----------------------------
(* Finite values for TLC: a chain of three operators, and a triangle, started *)
(* on one host.                                                               *)
EXTENDS Migration

CONSTANTS h1, h2

Edge(a, b) == [from |-> a, to |-> b]
Three    == 0..2
Chain    == <<Edge(0, 1), Edge(1, 2)>>
Triangle == <<Edge(0, 1), Edge(1, 2), Edge(0, 2)>>
Together == [o \in Three |-> h1]
=============================================================================
