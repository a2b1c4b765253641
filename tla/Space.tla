-------------------------------- MODULE Space --------------------------------
(***************************************************************************)
(* A space of the arena (base/space.c): the objects of one kind, listed in *)
(* every zone of the arena they touch and in an index sorted by id.  The   *)
(* index is taken for what IndexProofs shows it to be, so it is a set of   *)
(* ids here, walked in ascending order.                                    *)
(*                                                                         *)
(* A step is one call into the space, or one callback of space_action.     *)
(* All of them run on the game's only thread, and a callback touches no    *)
(* other object of the space that is walked.                               *)
(***************************************************************************)
EXTENDS Integers, FiniteSets

CONSTANTS
  Ids,          \* of the objects that may be in the space
  Boxes,        \* the rectangles an object may have, or that are asked about
  W, H,         \* the arena
  SegW, SegH    \* a zone of it

Box == [x : Int, y : Int, w : Nat, h : Nat]

ASSUME IdsAreIntegers == Ids \subseteq Int /\ IsFiniteSet(Ids)
ASSUME BoxesAreBoxes == Boxes \subseteq Box /\ Boxes # {}
ASSUME SizesArePositive == {W, H, SegW, SegH} \subseteq Nat \ {0}

VARIABLES
  box,      \* what getStatus tells of each object in the space
  zone,     \* how often each zone's list holds each object
  assertOk, \* no assertion of space_del has failed
  walk      \* the space_action under way

vars == <<box, zone, assertOk, walk>>

\* listIndex: an object enters and leaves it together with the space.
index == DOMAIN box

-----------------------------------------------------------------------------
(* Zones *)

\* C's division by a positive number, towards zero.
Div(a, n) == IF a >= 0 THEN a \div n ELSE -((-a) \div n)

Cells == (0 .. W \div SegW) \X (0 .. H \div SegH)

\* Mutant: the last zone an object reaches into is forgotten.
GetSegmentShort(b) ==
  LET x == Div(b.x, SegW)
      y == Div(b.y, SegH)
  IN  [x |-> x, y |-> y, w |-> Div(b.x + b.w, SegW) - x, h |-> Div(b.y + b.h, SegH) - y]

GetSegment(b) ==
  LET x == Div(b.x, SegW)
      y == Div(b.y, SegH)
  IN  [x |-> x, y |-> y, w |-> Div(b.x + b.w, SegW) + 1 - x, h |-> Div(b.y + b.h, SegH) + 1 - y]

\* Both loops over a segment, which skip what lies outside the arena.
CellsOf(b) ==
  LET s == GetSegment(b)
  IN  {c \in Cells : /\ s.x <= c[1] /\ c[1] < s.x + s.w
                     /\ s.y <= c[2] /\ c[2] < s.y + s.h}

Listed(z, o, b) ==
  [c \in Cells |-> IF c \in CellsOf(b) THEN [z[c] EXCEPT ![o] = @ + 1] ELSE z[c]]

Unlisted(z, o, b) ==
  [c \in Cells |-> IF c \in CellsOf(b) /\ z[c][o] > 0 THEN [z[c] EXCEPT ![o] = @ - 1] ELSE z[c]]

\* list_search finds the object in each of the zones space_del looks into.
Findable(z, o, b) == \A c \in CellsOf(b) : z[c][o] > 0

-----------------------------------------------------------------------------
(* Effects of the calls on an object *)

\* space_move_object relists an object that enters or leaves a zone.
\* Mutant: it looks only at where the object's first zone is.
CrossesByCorner(a, b) == GetSegment(a).x # GetSegment(b).x \/ GetSegment(a).y # GetSegment(b).y

Crosses(a, b) == GetSegment(a) # GetSegment(b)

Stay(o) == UNCHANGED <<box, zone, assertOk>>

\* space_del and space_add of the same object, with setStatus in between: from
\* space_move_object, and from shot_transform_lasser, which turns the shot.
Relist(o, b) ==
  /\ box' = [box EXCEPT ![o] = b]
  /\ zone' = Listed(Unlisted(zone, o, box[o]), o, b)
  /\ assertOk' = Findable(zone, o, box[o])

MoveObject(o, b) ==
  \/ Crosses(box[o], b) /\ Relist(o, b)
  \/ ~Crosses(box[o], b) /\ box' = [box EXCEPT ![o] = b] /\ UNCHANGED <<zone, assertOk>>

Delete(o) ==
  /\ zone' = Unlisted(zone, o, box[o])
  /\ assertOk' = Findable(zone, o, box[o])
  /\ box' = [p \in index \ {o} |-> box[p]]

SameSize(a, b) == a.w = b.w /\ a.h = b.h

\* What is done to one object by its owner or by a callback.
Treat(o) ==
  \/ Stay(o)
  \/ \E b \in Boxes : SameSize(box[o], b) /\ MoveObject(o, b)
  \/ \E b \in Boxes : Relist(o, b)
  \/ Delete(o)

-----------------------------------------------------------------------------
(* Lookups *)

Conflict(a, b) ==
  /\ a.x < b.x + b.w /\ b.x < a.x + a.w
  /\ a.y < b.y + b.h /\ b.y < a.y + a.h

\* space_get_object; space_is_conflict_with_object_but asks whether there is
\* another one than its own in it.
GetObject(q) == {o \in Ids : (\E c \in CellsOf(q) : zone[c][o] > 0) /\ Conflict(q, box[o])}

\* space_get_item: the index is sorted by id.
IsItem(o, i) == o \in index /\ Cardinality({p \in index : p < o}) = i

-----------------------------------------------------------------------------
(* Actions *)

NoWalk == [on |-> FALSE, i |-> 0, len |-> 0, start |-> {}, seen |-> [o \in Ids |-> 0]]

Init ==
  /\ box = [o \in {} |-> CHOOSE b \in Boxes : TRUE]
  /\ zone = [c \in Cells |-> [o \in Ids |-> 0]]
  /\ assertOk = TRUE
  /\ walk = NoWalk

\* space_add: ids are fresh, the object is wherever its maker put it.
Add(o, b) ==
  /\ assertOk /\ ~walk.on
  /\ o \notin index
  /\ box' = [p \in index \cup {o} |-> IF p = o THEN b ELSE box[p]]
  /\ zone' = Listed(zone, o, b)
  /\ UNCHANGED <<assertOk, walk>>

\* A call of space_move_object, space_del or shot_transform_lasser from
\* outside a walk.
Call(o) ==
  /\ assertOk /\ ~walk.on
  /\ o \in index
  /\ Treat(o)
  /\ UNCHANGED walk

StartWalk ==
  /\ assertOk /\ ~walk.on
  /\ walk' = [NoWalk EXCEPT !.on = TRUE, !.len = Cardinality(index), !.start = index]
  /\ UNCHANGED <<box, zone, assertOk>>

\* Calls back are counted up to the second.
OnceMore(n) == IF n = 2 THEN n ELSE n + 1

\* How space_action goes on after a callback.
\* Mutant: i-- is missing.
AdvanceAlways ==
  IF Cardinality(index') = walk.len - 1
  THEN [walk EXCEPT !.len = @ - 1, !.i = @ + 1] ELSE [walk EXCEPT !.i = @ + 1]

\* Mutant: i-- is done after each callback.
AdvanceNever ==
  IF Cardinality(index') = walk.len - 1 THEN [walk EXCEPT !.len = @ - 1] ELSE walk

Advance ==
  IF Cardinality(index') = walk.len - 1
  THEN [walk EXCEPT !.len = @ - 1] ELSE [walk EXCEPT !.i = @ + 1]

CallBack(o) ==
  /\ assertOk /\ walk.on
  /\ walk.i < walk.len
  /\ IsItem(o, walk.i)
  /\ Treat(o)
  /\ walk' = [Advance EXCEPT !.seen[o] = OnceMore(@)]

EndWalk ==
  /\ assertOk /\ walk.on
  /\ walk.i >= walk.len
  /\ walk' = NoWalk
  /\ UNCHANGED <<box, zone, assertOk>>

Next ==
  \/ \E o \in Ids : (\E b \in Boxes : Add(o, b)) \/ Call(o) \/ CallBack(o)
  \/ StartWalk
  \/ EndWalk

Spec == Init /\ [][Next]_vars

\* space_action is a loop of the calling thread.
Walking == (\E o \in Ids : CallBack(o)) \/ EndWalk
FairSpec == Spec /\ WF_vars(Walking)

-----------------------------------------------------------------------------
(* Properties *)

\* The state's types.
TypeOK ==
  /\ index \subseteq Ids /\ box \in [index -> Boxes]
  /\ zone \in [Cells -> [Ids -> Nat]]
  /\ assertOk \in BOOLEAN
  /\ walk \in [on : BOOLEAN, i : Nat, len : Nat, start : SUBSET Ids, seen : [Ids -> 0 .. 2]]

\* Every object of the space is listed once in each zone it touches now, and
\* nothing else is listed anywhere: however objects cross borders, are turned
\* or deleted, no stale or double listing stays behind, and the assertion of
\* space_del, that the object is in the list of each zone it touches, holds.
ZonesAgree ==
  /\ assertOk
  /\ \A c \in Cells, o \in Ids :
       zone[c][o] = IF o \in index /\ c \in CellsOf(box[o]) THEN 1 ELSE 0

\* Two rectangles have a point of the arena in common.
MeetInArena(a, b) ==
  /\ \E p \in 0 .. W : a.x <= p /\ p < a.x + a.w /\ b.x <= p /\ p < b.x + b.w
  /\ \E p \in 0 .. H : a.y <= p /\ p < a.y + a.h /\ b.y <= p /\ p < b.y + b.h

\* A lookup that reads only the zones of its rectangle misses no object that
\* meets the rectangle inside the arena, also where both reach over its
\* borders, and returns only objects that meet the rectangle.
LookupsComplete ==
  assertOk =>
    \A q \in Boxes :
      /\ GetObject(q) \subseteq {o \in index : Conflict(q, box[o])}
      /\ {o \in index : MeetInArena(q, box[o])} \subseteq GetObject(q)

\* space_action calls back each object that was in the space when it started
\* exactly once, and never reads past the end of the index, whichever of the
\* objects delete themselves on the way.
EachVisitedOnce ==
  assertOk /\ walk.on =>
    /\ walk.i < walk.len => walk.i < Cardinality(index)
    /\ \A o \in Ids : walk.seen[o] <= (IF o \in walk.start THEN 1 ELSE 0)
    /\ walk.i >= walk.len => \A o \in walk.start : walk.seen[o] = 1

\* Every walk ends.
WalksEnd == walk.on ~> ~walk.on \/ ~assertOk
=============================================================================
