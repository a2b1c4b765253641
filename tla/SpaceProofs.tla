----------------------------- MODULE SpaceProofs -----------------------------
(***************************************************************************)
(* Proofs about Space, for every arena, zone size and set of rectangles.   *)
(*                                                                         *)
(* Part 1: an object is listed once in each zone it touches and nowhere    *)
(* else, so no assertion fails.  Part 2: a lookup through the zones misses *)
(* nothing; the one fact it needs is that C's division is monotonic.       *)
(* Part 3: a walk has seen the objects with the smallest ids, and there is *)
(* always a next one.                                                      *)
(***************************************************************************)
EXTENDS Space, FiniteSetTheorems, WellFoundedInduction, TLAPS

-----------------------------------------------------------------------------
(* Part 1.  Zones.                                                         *)

\* The number of times an object should be listed in a zone.
Due(c, o) == IF o \in index /\ c \in CellsOf(box[o]) THEN 1 ELSE 0

Agree == \A c \in Cells, o \in Ids : zone[c][o] = Due(c, o)

ZInv == TypeOK /\ assertOk /\ Agree

\* What Listed and Unlisted do to one entry.
LEMMA ListedEntry ==
  ASSUME NEW z \in [Cells -> [Ids -> Nat]], NEW o \in Ids, NEW b
  PROVE  /\ Listed(z, o, b) \in [Cells -> [Ids -> Nat]]
         /\ \A c \in Cells, p \in Ids :
              Listed(z, o, b)[c][p] =
                IF p = o /\ c \in CellsOf(b) THEN z[c][p] + 1 ELSE z[c][p]
BY DEF Listed

LEMMA UnlistedEntry ==
  ASSUME NEW z \in [Cells -> [Ids -> Nat]], NEW o \in Ids, NEW b
  PROVE  /\ Unlisted(z, o, b) \in [Cells -> [Ids -> Nat]]
         /\ \A c \in Cells, p \in Ids :
              Unlisted(z, o, b)[c][p] =
                IF p = o /\ c \in CellsOf(b) /\ z[c][p] > 0 THEN z[c][p] - 1 ELSE z[c][p]
BY DEF Unlisted

\* An object of the space is found in each zone it touches.
LEMMA FindableHere ==
  ASSUME ZInv, NEW o \in index
  PROVE  Findable(zone, o, box[o])
<1>1. \A c \in CellsOf(box[o]) : c \in Cells  BY DEF CellsOf
<1>2. o \in Ids  BY DEF ZInv, TypeOK
<1>3. \A c \in CellsOf(box[o]) : zone[c][o] = 1  BY <1>1, <1>2 DEF ZInv, Agree, Due
<1> QED  BY <1>3 DEF Findable

\* The state of the objects and zones, without the walk.
SpaceOK ==
  /\ index \subseteq Ids /\ box \in [index -> Boxes]
  /\ zone \in [Cells -> [Ids -> Nat]]
  /\ assertOk
  /\ Agree

LEMMA AddSpaceOK ==
  ASSUME ZInv, NEW o \in Ids, NEW b \in Boxes, Add(o, b)
  PROVE  SpaceOK'
<1>1. /\ o \notin index
      /\ box' = [p \in index \cup {o} |-> IF p = o THEN b ELSE box[p]]
      /\ zone' = Listed(zone, o, b) /\ assertOk'
  BY DEF Add
<1>2. index \subseteq Ids /\ box \in [index -> Boxes] /\ zone \in [Cells -> [Ids -> Nat]]
  BY DEF ZInv, TypeOK
<1>3. index' = index \cup {o}  BY <1>1 DEF index
<1>4. box' \in [index' -> Boxes]  BY <1>1, <1>2, <1>3
<1>5. zone' \in [Cells -> [Ids -> Nat]]
      /\ \A c \in Cells, p \in Ids :
           zone'[c][p] = IF p = o /\ c \in CellsOf(b) THEN zone[c][p] + 1 ELSE zone[c][p]
  BY <1>1, <1>2, ListedEntry
<1>6. Agree'
  <2> SUFFICES ASSUME NEW c \in Cells, NEW p \in Ids
               PROVE  zone'[c][p] = Due(c, p)'
    BY DEF Agree
  <2>1. zone[c][p] = Due(c, p)  BY DEF ZInv, Agree
  <2>2. CASE p = o
    <3>1. Due(c, p) = 0  BY <1>1, <2>2 DEF Due
    <3>2. box'[p] = b /\ p \in index'  BY <1>1, <1>3, <2>2
    <3>3. Due(c, p)' = IF c \in CellsOf(b) THEN 1 ELSE 0  BY <3>2 DEF Due, CellsOf
    <3> QED  BY <1>5, <2>1, <2>2, <3>1, <3>3
  <2>3. CASE p # o
    <3>1. p \in index' <=> p \in index  BY <1>3, <2>3
    <3>2. p \in index => box'[p] = box[p]  BY <1>1, <2>3
    <3>3. Due(c, p)' = Due(c, p)  BY <3>1, <3>2 DEF Due, CellsOf
    <3> QED  BY <1>5, <2>1, <2>3, <3>3
  <2> QED  BY <2>2, <2>3
<1> QED  BY <1>1, <1>2, <1>3, <1>4, <1>5, <1>6 DEF SpaceOK

LEMMA RelistSpaceOK ==
  ASSUME ZInv, NEW o \in index, NEW b \in Boxes, Relist(o, b)
  PROVE  SpaceOK' /\ index' = index
<1>1. /\ box' = [box EXCEPT ![o] = b]
      /\ zone' = Listed(Unlisted(zone, o, box[o]), o, b)
      /\ assertOk' = Findable(zone, o, box[o])
  BY DEF Relist
<1>2. index \subseteq Ids /\ box \in [index -> Boxes] /\ zone \in [Cells -> [Ids -> Nat]]
      /\ o \in Ids
  BY DEF ZInv, TypeOK
<1>3. index' = index /\ box' \in [index -> Boxes]  BY <1>1, <1>2 DEF index
<1>4. assertOk'  BY <1>1, FindableHere
<1>5. Unlisted(zone, o, box[o]) \in [Cells -> [Ids -> Nat]]
      /\ \A c \in Cells, p \in Ids :
           Unlisted(zone, o, box[o])[c][p] =
             IF p = o /\ c \in CellsOf(box[o]) /\ zone[c][p] > 0
             THEN zone[c][p] - 1 ELSE zone[c][p]
  BY <1>2, UnlistedEntry
<1>6. zone' \in [Cells -> [Ids -> Nat]]
      /\ \A c \in Cells, p \in Ids :
           zone'[c][p] = IF p = o /\ c \in CellsOf(b)
                         THEN Unlisted(zone, o, box[o])[c][p] + 1
                         ELSE Unlisted(zone, o, box[o])[c][p]
  BY <1>1, <1>2, <1>5, ListedEntry
<1>7. Agree'
  <2> SUFFICES ASSUME NEW c \in Cells, NEW p \in Ids
               PROVE  zone'[c][p] = Due(c, p)'
    BY DEF Agree
  <2>1. zone[c][p] = Due(c, p)  BY DEF ZInv, Agree
  <2>2. CASE p = o
    <3>1. Due(c, p) = IF c \in CellsOf(box[o]) THEN 1 ELSE 0  BY <2>2 DEF Due
    <3>2. box'[p] = b /\ p \in index'  BY <1>1, <1>2, <1>3, <2>2
    <3>3. Due(c, p)' = IF c \in CellsOf(b) THEN 1 ELSE 0  BY <3>2 DEF Due, CellsOf
    <3>4. Unlisted(zone, o, box[o])[c][p] = 0  BY <1>5, <2>1, <2>2, <3>1
    <3> QED  BY <1>6, <2>2, <3>3, <3>4
  <2>3. CASE p # o
    <3>1. p \in index => box'[p] = box[p]  BY <1>1, <1>2, <2>3
    <3>2. Due(c, p)' = Due(c, p)  BY <1>3, <3>1 DEF Due, CellsOf
    <3>3. zone'[c][p] = zone[c][p]  BY <1>5, <1>6, <2>3
    <3> QED  BY <2>1, <3>2, <3>3
  <2> QED  BY <2>2, <2>3
<1> QED  BY <1>2, <1>3, <1>4, <1>6, <1>7 DEF SpaceOK

\* A move that crosses no border leaves the zones right: the two segments are
\* the same, so the two rectangles touch the same zones.
LEMMA MoveSpaceOK ==
  ASSUME ZInv, NEW o \in index, NEW b \in Boxes, MoveObject(o, b)
  PROVE  SpaceOK' /\ index' = index
<1>1. CASE Crosses(box[o], b) /\ Relist(o, b)  BY <1>1, RelistSpaceOK
<1>2. CASE ~Crosses(box[o], b) /\ box' = [box EXCEPT ![o] = b] /\ UNCHANGED <<zone, assertOk>>
  <2>1. index \subseteq Ids /\ box \in [index -> Boxes] /\ zone \in [Cells -> [Ids -> Nat]]
    BY DEF ZInv, TypeOK
  <2>2. index' = index /\ box' \in [index -> Boxes]  BY <1>2, <2>1 DEF index
  <2>3. CellsOf(box[o]) = CellsOf(b)  BY <1>2 DEF Crosses, CellsOf
  <2>4. Agree'
    <3> SUFFICES ASSUME NEW c \in Cells, NEW p \in Ids
                 PROVE  zone'[c][p] = Due(c, p)'
      BY DEF Agree
    <3>1. zone[c][p] = Due(c, p)  BY DEF ZInv, Agree
    <3>2. p \in index => CellsOf(box'[p]) = CellsOf(box[p])
      <4>1. CASE p = o  BY <1>2, <2>1, <2>3, <4>1
      <4>2. CASE p # o  BY <1>2, <2>1, <4>2
      <4> QED  BY <4>1, <4>2
    <3>3. Due(c, p)' = Due(c, p)  BY <2>2, <3>2 DEF Due, CellsOf
    <3> QED  BY <1>2, <3>1, <3>3
  <2> QED  BY <1>2, <2>1, <2>2, <2>4 DEF SpaceOK, ZInv
<1> QED  BY <1>1, <1>2 DEF MoveObject

LEMMA DeleteSpaceOK ==
  ASSUME ZInv, NEW o \in index, Delete(o)
  PROVE  SpaceOK' /\ index' = index \ {o}
<1>1. /\ box' = [p \in index \ {o} |-> box[p]]
      /\ zone' = Unlisted(zone, o, box[o])
      /\ assertOk' = Findable(zone, o, box[o])
  BY DEF Delete
<1>2. index \subseteq Ids /\ box \in [index -> Boxes] /\ zone \in [Cells -> [Ids -> Nat]]
      /\ o \in Ids
  BY DEF ZInv, TypeOK
<1>3. index' = index \ {o} /\ box' \in [index' -> Boxes]  BY <1>1, <1>2 DEF index
<1>4. assertOk'  BY <1>1, FindableHere
<1>5. zone' \in [Cells -> [Ids -> Nat]]
      /\ \A c \in Cells, p \in Ids :
           zone'[c][p] = IF p = o /\ c \in CellsOf(box[o]) /\ zone[c][p] > 0
                         THEN zone[c][p] - 1 ELSE zone[c][p]
  BY <1>1, <1>2, UnlistedEntry
<1>6. Agree'
  <2> SUFFICES ASSUME NEW c \in Cells, NEW p \in Ids
               PROVE  zone'[c][p] = Due(c, p)'
    BY DEF Agree
  <2>1. zone[c][p] = Due(c, p)  BY DEF ZInv, Agree
  <2>2. CASE p = o
    <3>1. Due(c, p) = IF c \in CellsOf(box[o]) THEN 1 ELSE 0  BY <2>2 DEF Due
    <3>2. Due(c, p)' = 0  BY <1>3, <2>2 DEF Due
    <3> QED  BY <1>5, <2>1, <2>2, <3>1, <3>2
  <2>3. CASE p # o
    <3>1. p \in index' <=> p \in index  BY <1>3, <2>3
    <3>2. p \in index => box'[p] = box[p]  BY <1>1, <2>3
    <3>3. Due(c, p)' = Due(c, p)  BY <3>1, <3>2 DEF Due, CellsOf
    <3> QED  BY <1>5, <2>1, <2>3, <3>3
  <2> QED  BY <2>2, <2>3
<1> QED  BY <1>2, <1>3, <1>4, <1>5, <1>6 DEF SpaceOK

\* Whatever is done to one object leaves the zones right, and takes away at
\* most that object.
LEMMA TreatSpaceOK ==
  ASSUME ZInv, NEW o \in index, Treat(o)
  PROVE  SpaceOK' /\ (index' = index \/ index' = index \ {o})
<1>1. CASE Stay(o)
  <2>1. box' = box /\ zone' = zone /\ assertOk' = assertOk  BY <1>1 DEF Stay
  <2>2. SpaceOK  BY DEF ZInv, TypeOK, SpaceOK
  <2> QED  BY <2>1, <2>2 DEF SpaceOK, Agree, Due, index, CellsOf
<1>2. CASE \E b \in Boxes : SameSize(box[o], b) /\ MoveObject(o, b)
  BY <1>2, MoveSpaceOK
<1>3. CASE \E b \in Boxes : Relist(o, b)
  BY <1>3, RelistSpaceOK
<1>4. CASE Delete(o)
  BY <1>4, DeleteSpaceOK
<1> QED  BY <1>1, <1>2, <1>3, <1>4 DEF Treat
-----------------------------------------------------------------------------
(* Part 2.  Lookups.                                                       *)

\* Truncated division is monotonic, and division where nothing is negative.
LEMMA DivMonotone ==
  ASSUME NEW n \in Nat \ {0}, NEW a \in Int, NEW b \in Int, a <= b
  PROVE  Div(a, n) \in Int /\ Div(b, n) \in Int /\ Div(a, n) <= Div(b, n)
<1>1. ASSUME NEW x \in Nat, NEW y \in Nat, x <= y
      PROVE  x \div n \in Nat /\ y \div n \in Nat /\ x \div n <= y \div n
  <2>1. x \div n \in Nat /\ y \div n \in Nat  OBVIOUS
  <2>2. x = n * (x \div n) + (x % n) /\ x % n \in 0 .. n - 1  OBVIOUS
  <2>3. y = n * (y \div n) + (y % n) /\ y % n \in 0 .. n - 1  OBVIOUS
  <2>4. ASSUME NEW q \in Nat, NEW r \in Nat, q > r PROVE n * q >= n * r + n
    <3>1. PICK d \in Nat : q = r + 1 + d  BY <2>4
    <3>2. n * q = n * r + n + n * d /\ n * d \in Nat  BY <3>1
    <3>3. n * q \in Int /\ n * r \in Int  OBVIOUS
    <3> QED  BY <3>2, <3>3
  <2>5. CASE x \div n > y \div n
    <3>1. n * (x \div n) >= n * (y \div n) + n  BY <2>1, <2>4, <2>5
    <3>2. n * (x \div n) \in Int /\ n * (y \div n) \in Int  BY <2>1
    <3> QED  BY <1>1, <2>2, <2>3, <3>1, <3>2
  <2> QED  BY <2>1, <2>5
<1>2. CASE a >= 0
  <2>1. a \in Nat /\ b \in Nat  BY <1>2
  <2>2. Div(a, n) = a \div n /\ Div(b, n) = b \div n  BY <2>1 DEF Div
  <2> QED  BY <1>1, <2>1, <2>2
<1>3. CASE a < 0 /\ b >= 0
  <2>1. -a \in Nat /\ b \in Nat  BY <1>3
  <2>2. Div(a, n) = -((-a) \div n) /\ Div(b, n) = b \div n  BY <1>3 DEF Div
  <2>3. (-a) \div n \in Nat /\ b \div n \in Nat  BY <1>1, <2>1
  <2> QED  BY <2>2, <2>3
<1>4. CASE a < 0 /\ b < 0
  <2>1. -a \in Nat /\ -b \in Nat /\ -b <= -a  BY <1>4
  <2>2. Div(a, n) = -((-a) \div n) /\ Div(b, n) = -((-b) \div n)  BY <1>4 DEF Div
  <2>3. (-a) \div n \in Nat /\ (-b) \div n \in Nat /\ (-b) \div n <= (-a) \div n
    BY <1>1, <2>1
  <2> QED  BY <2>2, <2>3
<1> QED  BY <1>2, <1>3, <1>4

\* A rectangle is listed in the zone of each of its points inside the arena.
LEMMA ZoneOfPoint ==
  ASSUME NEW b \in Box, NEW p \in 0 .. W, NEW r \in 0 .. H,
         b.x <= p, p < b.x + b.w, b.y <= r, r < b.y + b.h
  PROVE  <<p \div SegW, r \div SegH>> \in CellsOf(b)
<1>1. SegW \in Nat \ {0} /\ SegH \in Nat \ {0} /\ W \in Nat \ {0} /\ H \in Nat \ {0}
  BY SizesArePositive
<1>2. b.x \in Int /\ b.y \in Int /\ b.w \in Nat /\ b.h \in Nat  BY DEF Box
<1>3. p \in Int /\ r \in Int /\ p >= 0 /\ r >= 0 /\ p <= W /\ r <= H  BY <1>1
<1>4. /\ Div(p, SegW) = p \div SegW /\ Div(W, SegW) = W \div SegW
      /\ Div(r, SegH) = r \div SegH /\ Div(H, SegH) = H \div SegH
      /\ Div(0, SegW) = 0 \div SegW /\ Div(0, SegH) = 0 \div SegH
  BY <1>1, <1>3 DEF Div
<1>5. 0 \div SegW = 0 /\ 0 \div SegH = 0  BY <1>1
<1>6. Div(b.x, SegW) <= Div(p, SegW) /\ Div(b.x, SegW) \in Int /\ Div(p, SegW) \in Int
  BY <1>1, <1>2, <1>3, DivMonotone
<1>7. Div(p, SegW) <= Div(b.x + b.w, SegW) /\ Div(b.x + b.w, SegW) \in Int
  BY <1>1, <1>2, <1>3, DivMonotone
<1>8. Div(b.y, SegH) <= Div(r, SegH) /\ Div(b.y, SegH) \in Int /\ Div(r, SegH) \in Int
  BY <1>1, <1>2, <1>3, DivMonotone
<1>9. Div(r, SegH) <= Div(b.y + b.h, SegH) /\ Div(b.y + b.h, SegH) \in Int
  BY <1>1, <1>2, <1>3, DivMonotone
<1>10. Div(0, SegW) <= Div(p, SegW) /\ Div(p, SegW) <= Div(W, SegW) /\ Div(W, SegW) \in Int
  BY <1>1, <1>3, DivMonotone
<1>11. Div(0, SegH) <= Div(r, SegH) /\ Div(r, SegH) <= Div(H, SegH) /\ Div(H, SegH) \in Int
  BY <1>1, <1>3, DivMonotone
<1>12. p \div SegW \in 0 .. W \div SegW /\ r \div SegH \in 0 .. H \div SegH
  BY <1>4, <1>5, <1>6, <1>8, <1>10, <1>11
<1> DEFINE c == <<p \div SegW, r \div SegH>>
           s == GetSegment(b)
<1>13. c \in Cells /\ c[1] = Div(p, SegW) /\ c[2] = Div(r, SegH)  BY <1>4, <1>12 DEF Cells
<1>14. /\ s.x = Div(b.x, SegW) /\ s.w = Div(b.x + b.w, SegW) + 1 - Div(b.x, SegW)
       /\ s.y = Div(b.y, SegH) /\ s.h = Div(b.y + b.h, SegH) + 1 - Div(b.y, SegH)
  BY DEF GetSegment
<1>15. s.x <= c[1] /\ c[1] < s.x + s.w  BY <1>6, <1>7, <1>13, <1>14
<1>16. s.y <= c[2] /\ c[2] < s.y + s.h  BY <1>8, <1>9, <1>13, <1>14
<1> QED  BY <1>13, <1>15, <1>16 DEF CellsOf

\* Right zones make right lookups.
LEMMA LookupsFollow == ZInv => LookupsComplete
<1> SUFFICES ASSUME ZInv, NEW q \in Boxes
             PROVE  /\ GetObject(q) \subseteq {o \in index : Conflict(q, box[o])}
                    /\ {o \in index : MeetInArena(q, box[o])} \subseteq GetObject(q)
  BY DEF LookupsComplete
<1>1. index \subseteq Ids /\ box \in [index -> Boxes]  BY DEF ZInv, TypeOK
<1>2. \A c \in CellsOf(q) : c \in Cells  BY DEF CellsOf
<1>3. GetObject(q) \subseteq {o \in index : Conflict(q, box[o])}
  <2> SUFFICES ASSUME NEW o \in Ids, NEW c \in CellsOf(q), zone[c][o] > 0 PROVE o \in index
    BY DEF GetObject
  <2>1. zone[c][o] = Due(c, o)  BY <1>2 DEF ZInv, Agree
  <2> QED  BY <2>1 DEF Due
<1>4. {o \in index : MeetInArena(q, box[o])} \subseteq GetObject(q)
  <2> SUFFICES ASSUME NEW o \in index, MeetInArena(q, box[o]) PROVE o \in GetObject(q)
    OBVIOUS
  <2>1. q \in Box /\ box[o] \in Box /\ o \in Ids  BY <1>1, BoxesAreBoxes
  <2>2. PICK p \in 0 .. W : q.x <= p /\ p < q.x + q.w
                            /\ box[o].x <= p /\ p < box[o].x + box[o].w
    BY DEF MeetInArena
  <2>3. PICK r \in 0 .. H : q.y <= r /\ r < q.y + q.h
                            /\ box[o].y <= r /\ r < box[o].y + box[o].h
    BY DEF MeetInArena
  <2> DEFINE c == <<p \div SegW, r \div SegH>>
  <2>4. c \in CellsOf(q)  BY <2>1, <2>2, <2>3, ZoneOfPoint
  <2>5. c \in CellsOf(box[o])  BY <2>1, <2>2, <2>3, ZoneOfPoint
  <2>6. zone[c][o] = 1  BY <1>2, <2>1, <2>4, <2>5 DEF ZInv, Agree, Due
  <2>7. Conflict(q, box[o])
    <3>1. p \in Int /\ r \in Int  BY SizesArePositive
    <3> QED  BY <2>1, <2>2, <2>3, <3>1 DEF Conflict, Box
  <2> QED  BY <2>1, <2>4, <2>6, <2>7 DEF GetObject
<1> QED  BY <1>3, <1>4
-----------------------------------------------------------------------------
(* Part 3.  Walks.                                                         *)

Seen == {o \in index : walk.seen[o] = 1}

\* A walk at offset i has seen the i objects with the smallest ids among those
\* left, and all those that are gone.
WalkInv ==
  walk.on =>
    /\ walk.len = Cardinality(index)
    /\ walk.i = Cardinality(Seen) /\ walk.i <= walk.len
    /\ index \subseteq walk.start
    /\ \A o \in Ids : walk.seen[o] <= 1 /\ (walk.seen[o] = 1 => o \in walk.start)
    /\ \A o \in walk.start \ index : walk.seen[o] = 1
    /\ \A o \in Seen, p \in index \ Seen : o < p

IInv == ZInv /\ WalkInv

LEMMA IndexIsFinite ==
  ASSUME TypeOK
  PROVE  /\ IsFiniteSet(index) /\ Cardinality(index) \in Nat
         /\ \A S \in SUBSET index : IsFiniteSet(S) /\ Cardinality(S) \in Nat
         /\ \A o \in index : o \in Ids /\ o \in Int
<1>1. index \subseteq Ids  BY DEF TypeOK
<1>2. IsFiniteSet(index)  BY <1>1, IdsAreIntegers, FS_Subset
<1>3. \A S \in SUBSET index : IsFiniteSet(S)  BY <1>2, FS_Subset
<1>4. \A S \in SUBSET index : Cardinality(S) \in Nat  BY <1>3, FS_CardinalityType
<1>5. Cardinality(index) \in Nat  BY <1>2, FS_CardinalityType
<1> QED  BY <1>1, <1>2, <1>3, <1>4, <1>5, IdsAreIntegers

\* The object at the offset of the walk is the smallest that is not yet seen.
LEMMA NextIsUnseen ==
  ASSUME IInv, walk.on, NEW o, IsItem(o, walk.i)
  PROVE  /\ o \in index \ Seen
         /\ walk.seen[o] = 0
         /\ \A p \in index \ Seen : p # o => o < p
         /\ \A p \in Seen : p < o
<1> DEFINE B == {p \in index : p < o}
<1>1. o \in index /\ Cardinality(B) = walk.i  BY DEF IsItem
<1>2. TypeOK /\ WalkInv  BY DEF IInv, ZInv
<1>3. walk.i = Cardinality(Seen) /\ (\A a \in Seen, p \in index \ Seen : a < p)
      /\ walk.seen[o] <= 1
  BY <1>1, <1>2 DEF WalkInv, TypeOK
<1>4. IsFiniteSet(B) /\ IsFiniteSet(Seen) /\ Cardinality(Seen) \in Nat
      /\ \A p \in index : p \in Int
  <2>1. B \subseteq index /\ Seen \subseteq index  BY DEF Seen
  <2> QED  BY <1>2, <2>1, IndexIsFinite
<1>5. o \notin Seen
  <2> SUFFICES ASSUME o \in Seen PROVE FALSE  OBVIOUS
  <2>1. B \subseteq Seen
    <3> SUFFICES ASSUME NEW p \in index, p < o, p \notin Seen PROVE FALSE  OBVIOUS
    <3>1. o < p  BY <1>3
    <3> QED  BY <1>1, <1>4, <3>1
  <2>2. o \notin B  BY <1>1, <1>4
  <2>3. B = Seen  BY <1>1, <1>3, <1>4, <2>1, FS_Subset
  <2> QED  BY <2>2, <2>3
<1>6. \A p \in Seen : p < o  BY <1>1, <1>3, <1>5
<1>7. Seen \subseteq B  BY <1>6 DEF Seen
<1>8. Seen = B  BY <1>1, <1>3, <1>4, <1>7, FS_Subset
<1>9. \A p \in index \ Seen : p # o => o < p
  <2> SUFFICES ASSUME NEW p \in index, p \notin B, p # o PROVE o < p  BY <1>8
  <2>1. ~(p < o)  OBVIOUS
  <2> QED  BY <1>1, <1>4, <2>1
<1>10. walk.seen[o] = 0
  <2>1. walk.seen[o] # 1  BY <1>1, <1>5 DEF Seen
  <2>2. walk.seen[o] \in 0 .. 2
    <3>1. o \in Ids  BY <1>1, <1>2, IndexIsFinite
    <3> QED  BY <1>2, <3>1 DEF TypeOK
  <2> QED  BY <1>3, <2>1, <2>2
<1> QED  BY <1>1, <1>5, <1>6, <1>9, <1>10

\* A callback, whatever it does to its object.
LEMMA CallBackWalk ==
  ASSUME IInv, NEW o \in Ids, CallBack(o), SpaceOK'
  PROVE  walk' \in [on : BOOLEAN, i : Nat, len : Nat, start : SUBSET Ids, seen : [Ids -> 0 .. 2]]
         /\ WalkInv'
<1>1. TypeOK /\ WalkInv /\ ZInv /\ walk.on /\ walk.i < walk.len /\ IsItem(o, walk.i) /\ Treat(o)
      /\ walk' = [Advance EXCEPT !.seen[o] = OnceMore(@)]
  BY DEF IInv, ZInv, CallBack
<1>2. /\ o \in index \ Seen /\ walk.seen[o] = 0
      /\ (\A p \in index \ Seen : p # o => o < p) /\ (\A p \in Seen : p < o)
  BY <1>1, NextIsUnseen
<1>3. /\ walk.len = Cardinality(index) /\ walk.i = Cardinality(Seen)
      /\ index \subseteq walk.start
      /\ (\A p \in Ids : walk.seen[p] <= 1 /\ (walk.seen[p] = 1 => p \in walk.start))
      /\ (\A p \in walk.start \ index : walk.seen[p] = 1)
      /\ (\A a \in Seen, p \in index \ Seen : a < p)
  BY <1>1 DEF WalkInv
<1>4. walk \in [on : BOOLEAN, i : Nat, len : Nat, start : SUBSET Ids, seen : [Ids -> 0 .. 2]]
  BY <1>1 DEF TypeOK
<1>5. IsFiniteSet(index) /\ IsFiniteSet(Seen) /\ Cardinality(index) \in Nat
      /\ Cardinality(Seen) \in Nat
  <2>1. Seen \subseteq index  BY DEF Seen
  <2> QED  BY <1>1, <2>1, IndexIsFinite
<1>6. index' = index \/ index' = index \ {o}  BY <1>1, <1>2, TreatSpaceOK
<1>7. OnceMore(0) = 1  BY DEF OnceMore
<1>8. \A w : w \in [on : BOOLEAN, i : Nat, len : Nat, start : SUBSET Ids, seen : [Ids -> 0 .. 2]]
        /\ w.seen = walk.seen =>
        LET v == [w EXCEPT !.seen[o] = OnceMore(@)]
        IN  /\ v \in [on : BOOLEAN, i : Nat, len : Nat, start : SUBSET Ids, seen : [Ids -> 0 .. 2]]
            /\ v.on = w.on /\ v.i = w.i /\ v.len = w.len /\ v.start = w.start
            /\ v.seen = [walk.seen EXCEPT ![o] = 1]
  BY <1>2, <1>7
<1>9. ASSUME index' = index
      PROVE  /\ walk' \in [on : BOOLEAN, i : Nat, len : Nat, start : SUBSET Ids,
                           seen : [Ids -> 0 .. 2]]
             /\ walk'.on /\ walk'.i = walk.i + 1 /\ walk'.len = walk.len
             /\ walk'.start = walk.start /\ walk'.seen = [walk.seen EXCEPT ![o] = 1]
  <2>1. Cardinality(index') # walk.len - 1  BY <1>3, <1>5, <1>9
  <2>2. Advance = [walk EXCEPT !.i = @ + 1]  BY <2>1 DEF Advance
  <2>3. /\ Advance \in [on : BOOLEAN, i : Nat, len : Nat, start : SUBSET Ids,
                        seen : [Ids -> 0 .. 2]]
        /\ Advance.on /\ Advance.i = walk.i + 1 /\ Advance.len = walk.len
        /\ Advance.start = walk.start /\ Advance.seen = walk.seen
    BY <1>1, <1>4, <2>2
  <2> HIDE DEF Advance
  <2> QED  BY <1>1, <1>8, <2>3
<1>10. ASSUME index' = index \ {o}
       PROVE  /\ walk' \in [on : BOOLEAN, i : Nat, len : Nat, start : SUBSET Ids,
                            seen : [Ids -> 0 .. 2]]
              /\ walk'.on /\ walk'.i = walk.i /\ walk'.len = walk.len - 1
              /\ walk'.start = walk.start /\ walk'.seen = [walk.seen EXCEPT ![o] = 1]
              /\ Cardinality(index') = walk.len - 1
  <2>1. Cardinality(index') = walk.len - 1
    BY <1>2, <1>3, <1>5, <1>10, FS_RemoveElement
  <2>2. Advance = [walk EXCEPT !.len = @ - 1]  BY <2>1 DEF Advance
  <2>3. walk.len - 1 \in Nat  BY <1>1, <1>4
  <2>4. /\ Advance \in [on : BOOLEAN, i : Nat, len : Nat, start : SUBSET Ids,
                        seen : [Ids -> 0 .. 2]]
        /\ Advance.on /\ Advance.i = walk.i /\ Advance.len = walk.len - 1
        /\ Advance.start = walk.start /\ Advance.seen = walk.seen
    BY <1>1, <1>4, <2>2, <2>3
  <2> HIDE DEF Advance
  <2> QED  BY <1>1, <1>8, <2>1, <2>4
<1>11. Seen' = {p \in index' : walk'.seen[p] = 1}  BY DEF Seen
<1>12. o \in index /\ o \notin Seen /\ index \subseteq Ids  BY <1>1, <1>2 DEF TypeOK
<1>13. CASE index' = index
  <2>1. /\ walk' \in [on : BOOLEAN, i : Nat, len : Nat, start : SUBSET Ids,
                      seen : [Ids -> 0 .. 2]]
        /\ walk'.on /\ walk'.i = walk.i + 1 /\ walk'.len = walk.len
        /\ walk'.start = walk.start /\ walk'.seen = [walk.seen EXCEPT ![o] = 1]
    BY <1>9, <1>13
  <2>2. \A p \in Ids : walk'.seen[p] = IF p = o THEN 1 ELSE walk.seen[p]  BY <1>4, <2>1
  <2>3. Seen' = Seen \cup {o}  BY <1>11, <1>12, <1>13, <2>2 DEF Seen
  <2>4. Cardinality(Seen') = Cardinality(Seen) + 1  BY <1>5, <1>12, <2>3, FS_AddElement
  <2>5. \A a \in Seen', p \in index' \ Seen' : a < p  BY <1>2, <1>3, <1>13, <2>3
  <2>6. walk'.i <= walk'.len  BY <1>1, <1>4, <2>1
  <2>7. \A p \in Ids : walk'.seen[p] <= 1 /\ (walk'.seen[p] = 1 => p \in walk'.start)
    BY <1>3, <1>12, <2>1, <2>2
  <2>8. \A p \in walk'.start \ index' : walk'.seen[p] = 1
    <3>1. walk.start \subseteq Ids  BY <1>4
    <3> QED  BY <1>3, <1>13, <2>1, <2>2, <3>1
  <2> QED  BY <1>3, <1>13, <2>1, <2>4, <2>5, <2>6, <2>7, <2>8 DEF WalkInv
<1>14. CASE index' = index \ {o}
  <2>1. /\ walk' \in [on : BOOLEAN, i : Nat, len : Nat, start : SUBSET Ids,
                      seen : [Ids -> 0 .. 2]]
        /\ walk'.on /\ walk'.i = walk.i /\ walk'.len = walk.len - 1
        /\ walk'.start = walk.start /\ walk'.seen = [walk.seen EXCEPT ![o] = 1]
        /\ Cardinality(index') = walk.len - 1
    BY <1>10, <1>14
  <2>2. \A p \in Ids : walk'.seen[p] = IF p = o THEN 1 ELSE walk.seen[p]  BY <1>4, <2>1
  <2>3. Seen' = Seen  BY <1>11, <1>12, <1>14, <2>2 DEF Seen
  <2>4. \A a \in Seen', p \in index' \ Seen' : a < p  BY <1>3, <1>14, <2>3
  <2>5. walk'.i <= walk'.len  BY <1>1, <1>4, <2>1
  <2>6. \A p \in Ids : walk'.seen[p] <= 1 /\ (walk'.seen[p] = 1 => p \in walk'.start)
    BY <1>3, <1>12, <2>1, <2>2
  <2>7. \A p \in walk'.start \ index' : walk'.seen[p] = 1
    <3>1. walk.start \subseteq Ids  BY <1>4
    <3> QED  BY <1>3, <1>14, <2>1, <2>2, <3>1
  <2>8. index' \subseteq walk'.start  BY <1>3, <1>14, <2>1
  <2> QED  BY <1>3, <2>1, <2>3, <2>4, <2>5, <2>6, <2>7, <2>8 DEF WalkInv
<1> QED  BY <1>6, <1>13, <1>14

\* A walk starts having seen nothing.
LEMMA StartWalkInv ==
  ASSUME IInv, StartWalk
  PROVE  IInv'
<1>1. walk' = [NoWalk EXCEPT !.on = TRUE, !.len = Cardinality(index), !.start = index]
      /\ box' = box /\ zone' = zone /\ assertOk' = assertOk
  BY DEF StartWalk
<1>2. TypeOK /\ ZInv  BY DEF IInv, ZInv
<1>3. index \subseteq Ids /\ Cardinality(index) \in Nat  BY <1>2, IndexIsFinite DEF TypeOK
<1>4. /\ walk'.on = TRUE /\ walk'.i = 0 /\ walk'.len = Cardinality(index)
      /\ walk'.start = index /\ walk'.seen = [o \in Ids |-> 0]
      /\ walk' \in [on : BOOLEAN, i : Nat, len : Nat, start : SUBSET Ids, seen : [Ids -> 0 .. 2]]
  <2>1. NoWalk \in [on : BOOLEAN, i : Nat, len : Nat, start : SUBSET Ids,
                    seen : [Ids -> 0 .. 2]]
        /\ NoWalk.i = 0 /\ NoWalk.seen = [o \in Ids |-> 0]
    BY DEF NoWalk
  <2>2. walk' = [[[NoWalk EXCEPT !.on = TRUE] EXCEPT !.len = Cardinality(index)]
                   EXCEPT !.start = index]
    BY <1>1 DEF NoWalk
  <2>3. index \in SUBSET Ids /\ TRUE \in BOOLEAN  BY <1>3
  <2> HIDE DEF NoWalk
  <2> QED  BY <1>3, <2>1, <2>2, <2>3
<1>5. index' = index  BY <1>1 DEF index
<1>6. TypeOK'  BY <1>1, <1>2, <1>4, <1>5 DEF TypeOK
<1>7. Agree'  BY <1>1, <1>2, <1>5 DEF ZInv, Agree, Due, CellsOf
<1>8. Seen' = {}  BY <1>3, <1>4, <1>5 DEF Seen
<1>9. Cardinality(Seen') = 0  BY <1>8, FS_EmptySet
<1>10. WalkInv'  BY <1>3, <1>4, <1>5, <1>8, <1>9 DEF WalkInv
<1> QED  BY <1>1, <1>2, <1>6, <1>7, <1>10 DEF IInv, ZInv

\* The first state satisfies the invariant.
LEMMA InitIInv == Init => IInv
<1> SUFFICES ASSUME Init PROVE IInv  OBVIOUS
<1>1. index = {}  BY DEF Init, index
<1>2. box \in [index -> Boxes]  BY <1>1 DEF Init
<1>3. zone \in [Cells -> [Ids -> Nat]] /\ assertOk  BY DEF Init
<1>4. walk = NoWalk /\ walk.on = FALSE
      /\ walk \in [on : BOOLEAN, i : Nat, len : Nat, start : SUBSET Ids, seen : [Ids -> 0 .. 2]]
  BY DEF Init, NoWalk
<1>5. Agree  BY <1>1 DEF Init, Agree, Due
<1> QED  BY <1>1, <1>2, <1>3, <1>4, <1>5 DEF IInv, ZInv, TypeOK, WalkInv

\* Every step keeps the invariant.
LEMMA NextIInv ==
  ASSUME IInv, [Next]_vars
  PROVE  IInv'
<1>1. ZInv /\ TypeOK /\ WalkInv  BY DEF IInv, ZInv
<1>2. ASSUME SpaceOK', walk' \in [on : BOOLEAN, i : Nat, len : Nat, start : SUBSET Ids,
                                  seen : [Ids -> 0 .. 2]], WalkInv'
      PROVE  IInv'
  BY <1>2 DEF SpaceOK, IInv, ZInv, TypeOK
<1>3. ASSUME SpaceOK', walk' = walk, ~walk.on
      PROVE  IInv'
  BY <1>1, <1>2, <1>3 DEF TypeOK, WalkInv
<1>4. ASSUME NEW o \in Ids, NEW b \in Boxes, Add(o, b) PROVE IInv'
  <2>1. walk' = walk /\ ~walk.on  BY <1>4 DEF Add
  <2> QED  BY <1>1, <1>3, <1>4, <2>1, AddSpaceOK
<1>5. ASSUME NEW o \in Ids, Call(o) PROVE IInv'
  <2>1. walk' = walk /\ ~walk.on /\ o \in index /\ Treat(o)  BY <1>5 DEF Call
  <2> QED  BY <1>1, <1>3, <2>1, TreatSpaceOK
<1>6. ASSUME NEW o \in Ids, CallBack(o) PROVE IInv'
  <2>1. o \in index /\ Treat(o)  BY <1>6 DEF CallBack, IsItem
  <2>2. SpaceOK'  BY <1>1, <2>1, TreatSpaceOK
  <2> QED  BY <1>2, <1>6, <2>2, CallBackWalk
<1>7. CASE StartWalk  BY <1>7, StartWalkInv
<1>8. CASE EndWalk
  <2>1. walk' = NoWalk /\ box' = box /\ zone' = zone /\ assertOk' = assertOk  BY <1>8 DEF EndWalk
  <2>2. walk' \in [on : BOOLEAN, i : Nat, len : Nat, start : SUBSET Ids, seen : [Ids -> 0 .. 2]]
        /\ walk'.on = FALSE
    BY <2>1 DEF NoWalk
  <2>3. SpaceOK  BY <1>1 DEF ZInv, TypeOK, SpaceOK
  <2>4. SpaceOK'  BY <2>1, <2>3 DEF SpaceOK, Agree, Due, index, CellsOf
  <2> QED  BY <1>2, <2>2, <2>4 DEF WalkInv
<1>9. CASE UNCHANGED vars
  <2>1. box' = box /\ zone' = zone /\ assertOk' = assertOk /\ walk' = walk  BY <1>9 DEF vars
  <2> QED
    BY <1>1, <2>1
    DEF IInv, ZInv, TypeOK, Agree, Due, index, CellsOf, WalkInv, Seen
<1> QED  BY <1>4, <1>5, <1>6, <1>7, <1>8, <1>9 DEF Next

\* The invariant holds in every state.
LEMMA Invariant == Spec => []IInv
BY InitIInv, NextIInv, PTL DEF Spec

-----------------------------------------------------------------------------
(* Theorems *)

\* The state keeps its types.
THEOREM TypeCorrect == Spec => []TypeOK
BY Invariant, PTL DEF IInv, ZInv

\* Each object is listed once in each zone it touches and nowhere else.
THEOREM ZonesAlwaysAgree == Spec => []ZonesAgree
<1>1. IInv => ZonesAgree  BY DEF IInv, ZInv, Agree, Due, ZonesAgree
<1> QED  BY <1>1, Invariant, PTL

\* No lookup misses an object that meets its rectangle inside the arena.
THEOREM LookupsMissNothing == Spec => []LookupsComplete
<1>1. IInv => LookupsComplete  BY LookupsFollow DEF IInv
<1> QED  BY <1>1, Invariant, PTL

\* A walk calls every object back once, whichever delete themselves.
THEOREM WalksVisitOnce == Spec => []EachVisitedOnce
<1>1. IInv => EachVisitedOnce
  <2> SUFFICES ASSUME IInv, walk.on
               PROVE  /\ walk.i < walk.len => walk.i < Cardinality(index)
                      /\ \A o \in Ids : walk.seen[o] <= (IF o \in walk.start THEN 1 ELSE 0)
                      /\ walk.i >= walk.len => \A o \in walk.start : walk.seen[o] = 1
    BY DEF EachVisitedOnce
  <2>1. TypeOK /\ WalkInv  BY DEF IInv, ZInv
  <2>2. walk.seen \in [Ids -> 0 .. 2] /\ walk.i \in Nat /\ walk.len \in Nat
    BY <2>1 DEF TypeOK
  <2>3. walk.i < walk.len => walk.i < Cardinality(index)  BY <2>1 DEF WalkInv
  <2>4. \A o \in Ids : walk.seen[o] <= (IF o \in walk.start THEN 1 ELSE 0)
    <3> SUFFICES ASSUME NEW o \in Ids
                 PROVE  walk.seen[o] <= (IF o \in walk.start THEN 1 ELSE 0)
      OBVIOUS
    <3>1. walk.seen[o] <= 1 /\ (walk.seen[o] = 1 => o \in walk.start)  BY <2>1 DEF WalkInv
    <3> QED  BY <2>2, <3>1
  <2>5. ASSUME walk.i >= walk.len, NEW o \in walk.start PROVE walk.seen[o] = 1
    <3>1. /\ walk.len = Cardinality(index) /\ walk.i = Cardinality(Seen) /\ walk.i <= walk.len
          /\ \A p \in walk.start \ index : walk.seen[p] = 1
      BY <2>1 DEF WalkInv
    <3>2. Seen \subseteq index /\ IsFiniteSet(index)  BY <2>1, IndexIsFinite DEF Seen
    <3>3. Cardinality(index) = Cardinality(Seen)  BY <2>2, <2>5, <3>1
    <3>4. Seen = index  BY <3>2, <3>3, FS_Subset
    <3> QED  BY <2>5, <3>1, <3>4 DEF Seen
  <2> QED  BY <2>3, <2>4, <2>5
<1> QED  BY <1>1, Invariant, PTL

\* Numbers are well founded by <, so a set of them that is not empty has a least one.
Below == {p \in Nat \X Nat : p[1] < p[2]}

LEMMA Least ==
  ASSUME NEW S \in SUBSET Nat, S # {}
  PROVE  \E x \in S : \A y \in S : x <= y
<1>1. IsWellFoundedOn(Below, Nat)
  <2>1. Below = OpToRel(<, Nat)  BY DEF OpToRel, Below
  <2> QED  BY <2>1, NatLessThanWellFounded
<1>2. PICK x \in S : \A y \in S : <<y, x>> \notin Below  BY <1>1, WFMin
<1>3. ASSUME NEW y \in S PROVE x <= y
  <2>1. x \in Nat /\ y \in Nat /\ <<y, x>> \notin Below  BY <1>2
  <2> QED  BY <2>1 DEF Below
<1> QED  BY <1>3

\* The object of U that has the fewest others below it has none below it.
LEMMA SmallestId ==
  ASSUME TypeOK, NEW U \in SUBSET index, U # {}
  PROVE  \E o \in U : \A p \in U : o <= p
<1> DEFINE B(o) == {p \in U : p < o}
           S == {Cardinality(B(o)) : o \in U}
<1>1. \A o \in U : B(o) \in SUBSET index  OBVIOUS
<1>2. \A o \in U : IsFiniteSet(B(o)) /\ Cardinality(B(o)) \in Nat  BY <1>1, IndexIsFinite
<1>3. S \in SUBSET Nat /\ S # {}  BY <1>2
<1>4. \E n \in S : \A m \in S : n <= m
  <2> HIDE DEF S
  <2> QED  BY <1>3, Least
<1>5. PICK o \in U : \A p \in U : Cardinality(B(o)) <= Cardinality(B(p))  BY <1>4
<1>6. ASSUME NEW p \in U PROVE o <= p
  <2>1. o \in Int /\ p \in Int
    <3>1. o \in index /\ p \in index  OBVIOUS
    <3> QED  BY <3>1, IndexIsFinite
  <2>2. ASSUME p < o PROVE FALSE
    <3>1. B(p) \in SUBSET B(o)
      <4>1. \A q \in U : q \in Int
        <5>1. \A q \in index : q \in Int  BY IndexIsFinite
        <5> QED  BY <5>1
      <4>2. ASSUME NEW q \in U, q < p PROVE q < o  BY <2>1, <2>2, <4>1, <4>2
      <4> QED  BY <4>2
    <3>2. p \in B(o) /\ p \notin B(p)  BY <2>1, <2>2
    <3> HIDE DEF B
    <3>3. Cardinality(B(p)) <= Cardinality(B(o))
          /\ (Cardinality(B(o)) = Cardinality(B(p)) => B(o) = B(p))
      BY <1>2, <3>1, FS_Subset
    <3>4. Cardinality(B(p)) \in Nat /\ Cardinality(B(o)) \in Nat
          /\ Cardinality(B(o)) <= Cardinality(B(p))
      BY <1>2, <1>5
    <3> QED  BY <3>2, <3>3, <3>4
  <2> QED  BY <2>1, <2>2
<1> QED  BY <1>6

\* A walk that is not through finds an object at its offset: the smallest it has not seen.
LEMMA NextIsThere ==
  ASSUME IInv, walk.on, walk.i < walk.len
  PROVE  \E o \in Ids : IsItem(o, walk.i)
<1>1. TypeOK /\ WalkInv  BY DEF IInv, ZInv
<1>2. walk.len = Cardinality(index) /\ walk.i = Cardinality(Seen)
      /\ \A a \in Seen, p \in index \ Seen : a < p
  BY <1>1 DEF WalkInv
<1>3. Seen \in SUBSET index  BY DEF Seen
<1>4. index \ Seen # {}
  <2> SUFFICES ASSUME index \ Seen = {} PROVE FALSE  OBVIOUS
  <2>1. Seen = index  BY <1>3
  <2>2. Cardinality(index) \in Nat  BY <1>1, IndexIsFinite
  <2> QED  BY <1>2, <2>1, <2>2
<1>5. PICK o \in index \ Seen : \A p \in index \ Seen : o <= p  BY <1>1, <1>4, SmallestId
<1>6. o \in Ids /\ \A p \in index : p \in Int  BY <1>1, IndexIsFinite
<1>7. {p \in index : p < o} = Seen
  <2>1. \A p \in Seen : p < o  BY <1>2
  <2>2. \A p \in index \ Seen : ~(p < o)  BY <1>5, <1>6
  <2> QED  BY <1>3, <2>1, <2>2
<1> QED  BY <1>2, <1>6, <1>7 DEF IsItem

\* How far a walk has yet to go.
ToGo == walk.len - walk.i

\* As long as no assertion fails, a walk that is not through finds an object to call back,
\* and each callback brings it one object nearer to the end (space_action): it cannot hang
\* on an offset nor run in circles.  That the loop then ends is all that WalksEnd adds.
THEOREM WalksRunOut ==
  Spec => /\ [](walk.on /\ walk.i < walk.len => \E o \in Ids : IsItem(o, walk.i))
          /\ [][walk.on => walk' = walk \/ walk' = NoWalk \/ (ToGo > 0 /\ ToGo' = ToGo - 1)]_vars
<1> DEFINE Found == walk.on /\ walk.i < walk.len => \E o \in Ids : IsItem(o, walk.i)
           Nears == walk.on => walk' = walk \/ walk' = NoWalk \/ (ToGo > 0 /\ ToGo' = ToGo - 1)
<1>1. IInv => Found  BY NextIsThere
<1>2. ASSUME IInv, [Next]_vars PROVE Nears
  <2>1. TypeOK  BY <1>2 DEF IInv, ZInv
  <2>2. walk \in [on : BOOLEAN, i : Nat, len : Nat, start : SUBSET Ids, seen : [Ids -> 0 .. 2]]
    BY <2>1 DEF TypeOK
  <2>3. ASSUME NEW o \in Ids, CallBack(o) PROVE Nears
    <3>1. walk.i < walk.len /\ walk' = [Advance EXCEPT !.seen[o] = OnceMore(@)]
      BY <2>3 DEF CallBack
    <3>2. walk'.i = Advance.i /\ walk'.len = Advance.len  BY <2>2, <3>1 DEF Advance
    <3>3. Advance.len - Advance.i = walk.len - walk.i - 1  BY <2>2 DEF Advance
    <3> QED  BY <2>2, <3>1, <3>2, <3>3 DEF ToGo
  <2>4. walk' = walk \/ walk' = NoWalk \/ ~walk.on \/ \E o \in Ids : CallBack(o)
    BY <1>2 DEF Next, Add, Call, StartWalk, EndWalk, vars
  <2> QED  BY <2>3, <2>4
<1> HIDE DEF Found, Nears
<1>3. Spec => []Found /\ [][Nears]_vars  BY <1>1, <1>2, Invariant, PTL DEF Spec
<1> QED  BY <1>3 DEF Found, Nears
=============================================================================
