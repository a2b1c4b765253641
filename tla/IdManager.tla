----------------------------- MODULE IdManager -----------------------------
(***************************************************************************)
(* The registry of identifiers (base/idManager.c).                         *)
(*                                                                         *)
(* One registry serves every object of the game (tuxes, shots, items) and  *)
(* every reliable message.  The list of {id, count} records is a function  *)
(* from identifiers to counts; an identifier that is not in the list has   *)
(* the count Unregistered.  A registered identifier never keeps a negative *)
(* count: id_del removes the record as soon as the count is zero or less.  *)
(***************************************************************************)
EXTENDS Integers, FiniteSets

CONSTANT Id             \* 1 .. MAX_ID

ASSUME IdAssumption == IsFiniteSet(Id) /\ Id # {}

Unregistered == -1

NoIds == [i \in Id |-> Unregistered]

Registered(list, i) == list[i] # Unregistered

RegisteredIds(list) == {i \in Id : Registered(list, i)}

(***************************************************************************)
(* findNewID aborts with "There is no free ID left" when the list is one   *)
(* record short of MAX_ID; otherwise it draws until it meets a free one.   *)
(***************************************************************************)
CanAllocate(list) == Cardinality(RegisteredIds(list)) < Cardinality(Id) - 1

\* Mutant: findNewID does not ask id_is_register.
FreeIdsUnchecked(list) == IF CanAllocate(list) THEN Id ELSE {}

FreeIds(list) == IF CanAllocate(list) THEN Id \ RegisteredIds(list) ELSE {}

IdGetNewCount(list, i, n) == [list EXCEPT ![i] = n]

IdGetNew(list, i) == IdGetNewCount(list, i, 1)

IdInc(list, i) == [list EXCEPT ![i] = @ + 1]

\* Mutant: id_del drops the record one holder too early.
CountAfterDelEarly(count, n) ==
    IF n = 0 THEN count
    ELSE IF count - n <= 1 THEN Unregistered ELSE count - n

\* The count left by n calls of id_del, the record being dropped at zero.
CountAfterDel(count, n) ==
    IF n = 0 THEN count
    ELSE IF count - n <= 0 THEN Unregistered ELSE count - n

IdDel(list, i) == [list EXCEPT ![i] = CountAfterDel(@, 1)]

IdReplace(list, old, new) ==
    IF old = new THEN list
    ELSE [list EXCEPT ![old] = Unregistered, ![new] = list[old]]

=============================================================================
