------------------------------- MODULE MCSpace -------------------------------
(* Small instances of Space for TLC. *)
EXTENDS Space, TLC

ThreeIds == 1 .. 3

\* From outside the arena on one side to outside on the other, within one zone
\* and over three; the last two turned.
ManyBoxes ==
  [x : {-4, -1, 1, 2, 6}, y : {1}, w : {1, 4}, h : {1}]
    \cup [x : {3}, y : {-1, 2}, w : {1}, h : {4}]
=============================================================================
