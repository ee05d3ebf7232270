-------------------------- MODULE MCRemoteOperator --------------------------
\* Finite instances of RemoteOperator.
EXTENDS RemoteOperator

FourWorkers == 1..4
=============================================================================
