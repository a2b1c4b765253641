------------------------------ MODULE MCReplica ------------------------------
(* A small instance of Replica for TLC. *)
EXTENDS Replica, TLC

CONSTANTS me, t1, i1, e1, s1

One == {t1}
OneItem == {i1}
OneExplosion == {e1}
OneShot == {s1}
FiredByTheOther == s1 :> t1

\* Bound: one item, explosion or shot comes to the arena.
OneObject == Cardinality({o \in AllItems \cup Shots : srv[o] # "no"}) <= 1
=============================================================================
