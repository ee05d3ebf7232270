--------------------------- MODULE MCTopologyStart ---------------------------
(* Finite values for TLC: a producer, a filter and an operator for browsers, in *)
(* a line.                                                                      *)
EXTENDS TopologyStart

CONSTANTS h1, h2, b1, producer, filter, consumer

Three == <<producer, filter, consumer>>
Line == <<[from |-> producer, to |-> filter], [from |-> filter, to |-> consumer]>>
=============================================================================
