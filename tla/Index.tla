-------------------------------- MODULE Index --------------------------------
(***************************************************************************)
(* The sorted index a space looks its objects up in by id: base/index.c    *)
(* over the growing array of base/list.c.                                  *)
(*                                                                         *)
(* A step is one round of the for(;;) of index_add or getOffsetFromIndex.  *)
(* Positions are C's, from 0: At(p) is list->list[p].  index.c defines     *)
(* DEBUG_INDEX, so the round counter that aborts the program is compiled   *)
(* in.                                                                     *)
(***************************************************************************)
EXTENDS Integers, Sequences

CONSTANTS
  Keys,              \* the ids in use
  Objects,
  NoObject,          \* NULL
  LIST_ALLOC_LIMIT   \* by how many slots the array grows and shrinks

ASSUME KeysAreIntegers == Keys \subseteq Int /\ Keys # {}
ASSUME NoObjectIsNone == NoObject \notin Objects
ASSUME LimitIsPositive == LIST_ALLOC_LIMIT \in Nat \ {0}

VARIABLES
  list,    \* the entries, p->list[0 .. count - 1]
  alloc,   \* slots allocated
  op,      \* the call under way, "idle" between two, "aborted" after abort()
  entry,   \* its key and, for an add, its object
  min,
  max,
  count,   \* rounds of index_add's loop so far
  done     \* the last call that returned, with what it returned

vars == <<list, alloc, op, entry, min, max, count, done>>

Finished(o, k, x) == [op |-> o, key |-> k, data |-> x]
Nothing == [op |-> "none"]

-----------------------------------------------------------------------------
(* base/list.c *)

Grown ==
  IF alloc = 0 THEN LIST_ALLOC_LIMIT
  ELSE IF Len(list) + 1 <= alloc THEN alloc ELSE alloc + LIST_ALLOC_LIMIT

ListIns(n, e) ==
  /\ list' = [i \in 1 .. Len(list) + 1 |->
                IF i <= n THEN list[i] ELSE IF i = n + 1 THEN e ELSE list[i - 1]]
  /\ alloc' = Grown

\* Mutant: memmove starts one slot too far.
ListDelNext(n) ==
  /\ list' = [i \in 1 .. Len(list) - 1 |-> IF i <= n + 1 THEN list[i] ELSE list[i + 1]]
  /\ alloc' = alloc

ListDel(n) ==
  /\ list' = [i \in 1 .. Len(list) - 1 |-> IF i <= n THEN list[i] ELSE list[i + 1]]
  /\ alloc' = IF Len(list) - 1 + LIST_ALLOC_LIMIT < alloc
              THEN alloc - LIST_ALLOC_LIMIT ELSE alloc

-----------------------------------------------------------------------------
(* base/index.c *)

At(p) == list[p + 1]
HasKey(k) == \E i \in DOMAIN list : list[i].key = k

\* C's division by two, towards zero.
Half(d) == IF d >= 0 THEN d \div 2 ELSE -((-d) \div 2)

\* Mutant: half of max, not of the bracket.
PointHalfMax == min + Half(max)

Point == min + Half(max - min)

Init ==
  /\ list = <<>>
  /\ alloc = 0
  /\ op = "idle"
  /\ entry = [key |-> CHOOSE k \in Keys : TRUE, data |-> NoObject]
  /\ min = 0
  /\ max = -1
  /\ count = 0
  /\ done = Nothing

Start(o, k, x) ==
  /\ op = "idle"
  /\ op' = o
  /\ entry' = [key |-> k, data |-> x]
  /\ min' = 0
  /\ max' = Len(list) - 1
  /\ count' = 0
  /\ UNCHANGED <<list, alloc, done>>

Return(x) ==
  /\ op' = "idle"
  /\ done' = Finished(op, entry.key, x)

\* index_add counts this round and goes on unless it is one too many.
CountRound ==
  /\ op = "add"
  /\ count' = count + 1
  /\ count' # 5 * Len(list)

Cyclic ==
  /\ op = "add"
  /\ count + 1 = 5 * Len(list)
  /\ op' = "aborted"
  /\ count' = count + 1
  /\ UNCHANGED <<list, alloc, entry, min, max, done>>

MustInsert == max < 0 \/ min >= Len(list) \/ min > max
InsertionPoint == IF max < 0 THEN 0 ELSE IF min >= Len(list) THEN Len(list) ELSE Point

Insert ==
  /\ CountRound
  /\ MustInsert
  /\ ListIns(InsertionPoint, entry)
  /\ Return(entry.data)
  /\ UNCHANGED <<entry, min, max>>

Searching == op \in {"get", "del"}

\* Mutant: nobody asks whether max has passed min.
MissingUncrossed == Len(list) = 0 \/ max < 0 \/ Point >= Len(list)

Missing == Len(list) = 0 \/ max < 0 \/ Point >= Len(list) \/ max < min

NotFound ==
  /\ Searching
  /\ Missing
  /\ Return(NoObject)
  /\ UNCHANGED <<list, alloc, entry, min, max, count>>

Hit == Searching /\ ~Missing /\ At(Point).key = entry.key

GetFound ==
  /\ op = "get"
  /\ Hit
  /\ Return(At(Point).data)
  /\ UNCHANGED <<list, alloc, entry, min, max, count>>

DelFound ==
  /\ op = "del"
  /\ Hit
  /\ ListDel(Point)
  /\ Return(NoObject)
  /\ UNCHANGED <<entry, min, max, count>>

\* The round gets as far as comparing the key with the one at point.
Compare ==
  \/ CountRound /\ ~MustInsert
  \/ Searching /\ ~Missing /\ UNCHANGED count

\* Mutant: min stays on the position just compared.
GoRightOnto ==
  /\ Compare
  /\ entry.key > At(Point).key
  /\ min' = Point
  /\ UNCHANGED <<list, alloc, op, entry, max, done>>

GoRight ==
  /\ Compare
  /\ entry.key > At(Point).key
  /\ min' = Point + 1
  /\ UNCHANGED <<list, alloc, op, entry, max, done>>

GoLeft ==
  /\ Compare
  /\ entry.key < At(Point).key
  /\ max' = Point - 1
  /\ UNCHANGED <<list, alloc, op, entry, min, done>>

\* index_add has no branch for a key it already holds.
Spin ==
  /\ op = "add"
  /\ Compare
  /\ entry.key = At(Point).key
  /\ UNCHANGED <<list, alloc, op, entry, min, max, done>>

IndexAdd(k, x) == Start("add", k, x)
IndexGet(k) == Start("get", k, NoObject)
IndexDel(k) == Start("del", k, NoObject)

Round == Cyclic \/ Insert \/ NotFound \/ GetFound \/ DelFound \/ GoRight \/ GoLeft \/ Spin

Next ==
  \/ \E k \in Keys : (\E x \in Objects : IndexAdd(k, x)) \/ IndexGet(k) \/ IndexDel(k)
  \/ Round

Spec == Init /\ [][Next]_vars

\* A call runs on the caller's thread: once entered, its loop goes on.
FairSpec == Spec /\ WF_vars(Round)

-----------------------------------------------------------------------------
(* Properties *)

\* The state's types.
TypeOK ==
  /\ list \in Seq([key : Keys, data : Objects])
  /\ alloc \in Nat
  /\ op \in {"idle", "add", "get", "del", "aborted"}
  /\ entry \in [key : Keys, data : Objects \cup {NoObject}]
  /\ min \in Int
  /\ max \in Int
  /\ count \in Nat
  /\ done \in [op : {"add", "get", "del"}, key : Keys, data : Objects \cup {NoObject}]
              \cup {Nothing}

\* The keys stay strictly increasing whatever is added and removed, so that
\* checkList never stops the program with "Error in list".
Sorted == \A i, j \in DOMAIN list : i < j => list[i].key < list[j].key

\* The read of list->list[point], which index_add makes before it asks whether
\* min has passed max, stays inside the entries.
ReadsInside ==
  (op = "add" /\ max >= 0 /\ min < Len(list)) \/ (Searching /\ ~Missing)
     => Point \in 0 .. Len(list) - 1

\* index_add's "Cyclic error" stops the program only for a key the index holds
\* already: a fresh id always finds its place within the counted rounds.
CyclicOnlyForDuplicates == op = "aborted" => HasKey(entry.key)

\* The array always has room for the entries and never keeps more than one
\* growth step of unused slots, however adds and removals alternate.
AllocFits == Len(list) <= alloc /\ alloc <= Len(list) + LIST_ALLOC_LIMIT

\* Whatever is added, looked for and removed in whatever order, the code neither
\* reads nor writes outside the array.
InBounds == ReadsInside /\ AllocFits

\* Round by round, the index does what an atomic directory does: a search that
\* ends has found the entry if there is one, an addition loses no other entry.
Contents == {list[i] : i \in DOMAIN list}
Abstract == INSTANCE Directory WITH entries <- Contents
ImplementsDirectory == Abstract!Spec

\* Every call that is not aborted returns: the bracket of a binary search that
\* steps from a truncated midpoint must not get stuck.
EveryCallEnds == op \in {"add", "get", "del"} ~> op \in {"idle", "aborted"}
=============================================================================
