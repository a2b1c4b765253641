------------------------------ MODULE MCServer ------------------------------
(* A small instance of Server for TLC. *)
EXTENDS Server, TLC

CONSTANTS c1, c2, c3

ThreeClients == {c1, c2, c3}

OwnPorts == [c \in ThreeClients |-> c]

\* Each has a port of its own, so they may change places.
Symmetry == Permutations(ThreeClients)

\* Bound: one inbox is filled in a turn.  The server works the inboxes off one
\* after the other, so what several fill in one turn they also fill in several.
OneBusy == Cardinality({c \in Client : inbox[c] # <<>>}) <= 1
=============================================================================
