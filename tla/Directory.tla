------------------------------ MODULE Directory ------------------------------
(***************************************************************************)
(* What an index (base/index.c) promises to the space that keeps one: a    *)
(* set of entries with one object per key, and three operations that each  *)
(* take effect in one step.                                                *)
(***************************************************************************)
CONSTANTS Keys, Objects, NoObject

VARIABLES
  entries,  \* the [key, data] records held
  done      \* the last operation that ended, with what it returned

Finished(o, k, x) == [op |-> o, key |-> k, data |-> x]
Nothing == [op |-> "none"]

Present(k) == \E e \in entries : e.key = k

Init == entries = {} /\ done = Nothing

Add(k, x) ==
  /\ ~Present(k)
  /\ entries' = entries \cup {[key |-> k, data |-> x]}
  /\ done' = Finished("add", k, x)

Get(k) ==
  /\ \/ \E e \in entries : e.key = k /\ done' = Finished("get", k, e.data)
     \/ ~Present(k) /\ done' = Finished("get", k, NoObject)
  /\ UNCHANGED entries

Del(k) ==
  /\ entries' = {e \in entries : e.key # k}
  /\ done' = Finished("del", k, NoObject)

Next ==
  \E k \in Keys : (\E x \in Objects : Add(k, x)) \/ Get(k) \/ Del(k)

vars == <<entries, done>>

Spec == Init /\ [][Next]_vars
=============================================================================
