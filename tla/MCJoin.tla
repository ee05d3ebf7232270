------------------------------- MODULE MCJoin -------------------------------
\* Finite instances of Join: two operators with a worker each.
EXTENDS Join, TLC

CONSTANTS f1, f2
OneEach == (f1 :> 0) @@ (f2 :> 1)
=============================================================================
