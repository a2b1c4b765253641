----------------------------- MODULE MCSession -----------------------------
(* Small instances of Session for TLC. *)
EXTENDS Session

CONSTANTS c1, c2

OneClient == {c1}
OnePort == [c \in OneClient |-> c]
=============================================================================
