------------------------------- MODULE MCProxy -------------------------------
(* Finite values for TLC: operator 0 has workers 0 and 1, and operators 1 and 4  *)
(* are in browsers.  The root numbers workers and operators from 0, so that the  *)
(* first worker of the first operator has its number, and the second that of an  *)
(* operator in a browser.                                                        *)
EXTENDS Proxy

AllOfZero == [w \in Sender |-> 0]
=============================================================================
