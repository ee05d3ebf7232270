---------------------------- MODULE StreamGraph -----------------------------
(***************************************************************************)
(* What a migration promises: the topology that the user built stays the   *)
(* same graph of operators, and an operator moves to the host that was     *)
(* asked for, in one step, one operator at a time.  Migration implements   *)
(* it with a dozen remote calls.                                           *)
(***************************************************************************)
CONSTANTS
    Op,         \* the operators the user created
    Host,       \* the nodes they may run on
    Topology,   \* the edges of the user's topology
    Start,      \* where each operator was started
    Nowhere     \* no move was asked for

VARIABLES
    edges,      \* the bindings, as edges between operators
    place,      \* the host of each operator
    wanted      \* the host each operator was asked to move to, or Nowhere

graphVars == <<edges, place, wanted>>

Init ==
    /\ edges = Topology
    /\ place = Start
    /\ wanted = [o \in Op |-> Nowhere]

\* A user, or a controller, asks for a migration.
Ask(o, h) ==
    /\ \A p \in Op : wanted[p] = Nowhere
    /\ wanted' = [wanted EXCEPT ![o] = h]
    /\ UNCHANGED <<edges, place>>

\* The migration takes effect.
Move(o) ==
    /\ wanted[o] # Nowhere
    /\ place' = [place EXCEPT ![o] = wanted[o]]
    /\ wanted' = [wanted EXCEPT ![o] = Nowhere]
    /\ UNCHANGED edges

Next == \E o \in Op : Move(o) \/ \E h \in Host : Ask(o, h)

Spec == Init /\ [][Next]_graphVars
=============================================================================
