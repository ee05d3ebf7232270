--------------------------- MODULE MCCollectRound ---------------------------
(* Finite values for TLC: a producer with a worker and an operator with two,  *)
(* so that a kill shifts its pool, and one more that a round may add.         *)
EXTENDS CollectRound

TwoPools == [c \in {0, 1} |-> IF c = 0 THEN <<1>> ELSE <<2, 3>>]
=============================================================================
