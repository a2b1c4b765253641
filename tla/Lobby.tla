-------------------------------- MODULE Lobby --------------------------------
(***************************************************************************)
(* What the sessions of a server promise to those who play on it, without  *)
(* datagrams, queues, clocks or an arena: whoever comes in gets a place of *)
(* its own, with a tux nobody has had before, as long as there is a place  *)
(* left and nobody plays from its port; it keeps that tux until it leaves. *)
(***************************************************************************)
EXTENDS Integers, FiniteSets

CONSTANTS Client, Port, Host, MaxClients

VARIABLES
    players,        \* client that plays -> its tux
    made            \* tuxes given to players so far

vars == <<players, made>>

Present == DOMAIN players
Places == MaxClients - Cardinality(Host)

Init ==
    /\ players = [c \in {} |-> 0]
    /\ made = 0

Join(c) ==
    /\ c \notin Present
    /\ \A d \in Present : Port[d] # Port[c]
    /\ Cardinality(Present) < Places
    /\ made' = made + 1
    /\ players' = [d \in Present \cup {c} |-> IF d = c THEN made + 1 ELSE players[d]]

Leave(some) ==
    /\ players' = [c \in Present \ some |-> players[c]]
    /\ UNCHANGED made

Next ==
    \/ \E c \in Client : Join(c)
    \/ \E some \in SUBSET Present : Leave(some)

Spec == Init /\ [][Next]_vars
=============================================================================
