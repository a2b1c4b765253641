------------------------------- MODULE MCIndex -------------------------------
(* A small instance of Index for TLC. *)
EXTENDS Index

CONSTANTS o1, o2

MCKeys == -1 .. 3
MCObjects == {o1, o2}
=============================================================================
