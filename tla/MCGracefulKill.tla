--------------------------- MODULE MCGracefulKill ---------------------------
(* Finite values for TLC.  BothOnS1: two feeders on one source host;         *)
(* TwoAndOne: and a third on another.                                        *)
EXTENDS GracefulKill, TLC

CONSTANTS w1, w2, s1, s2, f1, f2, f3

StartPool  == {w1, w2}
TwoWorkers == {w1, w2}
LoneWorker == {w1}
BothOnS1   == (f1 :> s1) @@ (f2 :> s1)
TwoAndOne  == (f1 :> s1) @@ (f2 :> s1) @@ (f3 :> s2)
=============================================================================
