---------------------------- MODULE CourseProofs ----------------------------
(***************************************************************************)
(* What the arena file, the modules and the computer player keep, for any  *)
(* arena files, any number of tuxes and shots, and any sizes: modules are  *)
(* loaded once and in order, solid tuxes stand in no wall, shots stay      *)
(* clear of the box they come out of, and the computer player finds the    *)
(* way to its rival, if there is one and it does not give up.  A fold is a *)
(* function that is chosen, so one is shown to exist first (Part 1).       *)
(***************************************************************************)
EXTENDS Course, FiniteSetTheorems, SequenceTheorems, NaturalsInduction, WellFoundedInduction, TLAPS

\* The records of the program.
TuxRecord == [x : Int, y : Int, position : Dirs, status : {"none", "alive", "dead"},
              bonus : Bonuses \cup {"none"}, time : Nat, ai : BOOLEAN, stuck : BOOLEAN]

ShotRecord == [x : Int, y : Int, w : Int, h : Int, px : Int, py : Int, position : Dirs,
               gun : {"none", "simple", "laser", "ball"}, author : Tuxes, del : BOOLEAN,
               exit : SUBSET Boxes]

Phases == {"menu", "load", "play", "no arena", "cyclic index", "no space", "draws for ever"}

\* SolidStandsFree, of one tux, and of all.
StandsFree(r) ==
    (r.status = "alive" /\ r.bonus # "ghost" /\ InElement(BoxOf(r))) => r.stuck

Standing == {T \in [Tuxes -> TuxRecord] : \A t \in Tuxes : StandsFree(T[t])}

\* A shot is past the side of the box towards which it does not fly back.
Past(r, box) ==
    \/ r.x + r.w <= box.x /\ r.px <= 0
    \/ box.x + box.w <= r.x /\ r.px >= 0
    \/ r.y + r.h <= box.y /\ r.py <= 0
    \/ box.y + box.h <= r.y /\ r.py >= 0

Leaving == {r \in ShotRecord : \A box \in r.exit : Past(r, box)}

(***************************************************************************)
(* Part 1: sets of numbers, and folds over them.                           *)
(***************************************************************************)

\* Numbers are well founded by <.
Below == {p \in Nat \X Nat : p[1] < p[2]}

\* A set of numbers that is not empty has a least one.
LEMMA Least == ASSUME NEW S \in SUBSET Nat, S # {} PROVE \E x \in S : \A y \in S : x <= y
<1>1. Below = OpToRel(<, Nat)
  BY DEF OpToRel, Below
<1>2. IsWellFoundedOn(OpToRel(<, Nat), Nat)
  BY NatLessThanWellFounded
<1>3. IsWellFoundedOn(Below, Nat)
  BY <1>1, <1>2
<1>4. PICK x \in S : \A y \in S : <<y, x>> \notin Below
  BY <1>3, WFMin
<1>5. ASSUME NEW y \in S PROVE x <= y
  <2>1. x \in Nat /\ y \in Nat
    OBVIOUS
  <2>2. <<y, x>> \notin Below
    BY <1>4
  <2>3. ~(y < x)
    BY <2>1, <2>2 DEF Below
  <2> QED BY <2>1, <2>3
<1> QED BY <1>5

\* Induction for a set of numbers that is given, without an operator as parameter.
LEMMA Induction ==
  ASSUME NEW S \in SUBSET Nat, 0 \in S, \A n \in S : n + 1 \in S
  PROVE  S = Nat
<1>1. SUFFICES ASSUME Nat \ S # {} PROVE FALSE
  OBVIOUS
<1>2. PICK x \in Nat \ S : \A y \in Nat \ S : x <= y
  BY <1>1, Least
<1>3. x - 1 \in S
  BY <1>2
<1> QED BY <1>2, <1>3

\* A set of numbers up to k that is not empty has its Max, which is the largest.
LEMMA Largest ==
  ASSUME NEW k \in Nat, NEW S \in SUBSET (1 .. k), S # {}
  PROVE  Max(S) \in S /\ \A y \in S : y <= Max(S)
<1> DEFINE U == {b \in Nat : \A y \in S : y <= b}
<1>1. k \in U
  OBVIOUS
<1>2. PICK b \in U : \A c \in U : b <= c
  BY <1>1, Least
<1>3. b \in S
  <2>1. SUFFICES ASSUME b \notin S PROVE FALSE
    OBVIOUS
  <2>2. b \in Nat /\ \A y \in S : y <= b
    BY <1>2
  <2>3. PICK z : z \in S
    OBVIOUS
  <2>4. b - 1 \in Nat
    BY <2>2, <2>3
  <2>5. \A y \in S : y <= b - 1
    BY <2>2, <2>1
  <2>6. b - 1 \in U
    BY <2>4, <2>5
  <2> QED BY <2>6, <2>2, <1>2
<1>4. \E x \in S : \A y \in S : x >= y
  BY <1>2, <1>3
<1> QED BY <1>4 DEF Max

\* Without its Max such a set is one of numbers up to k - 1.
LEMMA Rest ==
  ASSUME NEW k \in Nat, NEW S \in SUBSET (1 .. k + 1), S # {}
  PROVE  Max(S) \in 1 .. k + 1 /\ S \ {Max(S)} \in SUBSET (1 .. k)
<1>1. Max(S) \in S /\ \A y \in S : y <= Max(S)
  BY Largest, k + 1 \in Nat
<1>2. ASSUME NEW y \in S, y # Max(S) PROVE y \in 1 .. k
  <2>1. y \in 1 .. k + 1 /\ Max(S) \in 1 .. k + 1
    BY <1>1
  <2>2. y <= Max(S)
    BY <1>1
  <2> QED BY <1>2, <2>1, <2>2
<1> QED BY <1>1, <1>2

\* What holds of the beginning of a fold and is kept by each of its steps holds of its end.
LEMMA FoldStays ==
  ASSUME NEW n \in Nat, NEW B, NEW iter, iter[{}] \in B,
         \A S \in SUBSET (1 .. n) : S # {} /\ iter[S \ {Max(S)}] \in B => iter[S] \in B
  PROVE  \A S \in SUBSET (1 .. n) : iter[S] \in B
<1> DEFINE K == {k \in Nat : \A S \in SUBSET (1 .. k) : S \subseteq 1 .. n => iter[S] \in B}
<1>1. 0 \in K
  <2>1. \A S \in SUBSET (1 .. 0) : S = {}
    OBVIOUS
  <2> QED BY <2>1
<1>2. ASSUME NEW k \in K PROVE k + 1 \in K
  <2>1. SUFFICES ASSUME NEW S \in SUBSET (1 .. k + 1), S \subseteq 1 .. n, S # {} PROVE iter[S] \in B
    OBVIOUS
  <2>2. S \ {Max(S)} \in SUBSET (1 .. k)
    BY <2>1, Rest
  <2>3. iter[S \ {Max(S)}] \in B
    BY <2>1, <2>2
  <2> QED BY <2>1, <2>3
<1>3. K = Nat
  <2> HIDE DEF K
  <2>1. K \subseteq Nat
    BY DEF K
  <2> QED BY <2>1, <1>1, <1>2, Induction
<1>4. n \in K
  BY <1>3
<1> QED BY <1>4

\* iter folds the sets of numbers up to k, from the largest, as MapThenFoldSet does.
IsFold(iter, k, base, g) ==
    \A S \in SUBSET (1 .. k) : iter[S] = IF S = {} THEN base ELSE g[<<Max(S), iter[S \ {Max(S)}]>>]

\* The function FoldLeft chooses exists, for every operation within a set B.
LEMMA FoldExists ==
  ASSUME NEW n \in Nat, NEW B, NEW base \in B, NEW g \in [(1 .. n) \X B -> B]
  PROVE  \E iter \in [SUBSET (1 .. n) -> B] : IsFold(iter, n, base, g)
<1> DEFINE K == {k \in Nat : k <= n => \E iter \in [SUBSET (1 .. k) -> B] : IsFold(iter, k, base, g)}
<1>1. 0 \in K
  <2>1. \A S \in SUBSET (1 .. 0) : S = {}
    OBVIOUS
  <2>2. [S \in SUBSET (1 .. 0) |-> base] \in [SUBSET (1 .. 0) -> B]
    OBVIOUS
  <2> QED BY <2>1, <2>2 DEF IsFold
<1>2. ASSUME NEW k \in K, k + 1 <= n PROVE k + 1 \in K
  <2>0. k \in Nat
    OBVIOUS
  <2>1. PICK f \in [SUBSET (1 .. k) -> B] : IsFold(f, k, base, g)
    BY <1>2, k \in K, k <= n
  <2> DEFINE h == [S \in SUBSET (1 .. k + 1) |-> IF S = {} THEN base ELSE g[<<Max(S), f[S \ {Max(S)}]>>]]
  <2>2. \A S \in SUBSET (1 .. k + 1) : S # {} =>
           /\ Max(S) \in 1 .. n /\ S \ {Max(S)} \in SUBSET (1 .. k)
           /\ f[S \ {Max(S)}] \in B
    BY Rest, <1>2, <2>1
  <2>3. h \in [SUBSET (1 .. k + 1) -> B]
    BY <2>2
  <2>4. \A S \in SUBSET (1 .. k) : S \in SUBSET (1 .. k + 1)
    OBVIOUS
  <2>5. \A S \in SUBSET (1 .. k) : h[S] = f[S]
    BY <2>1, <2>4 DEF IsFold
  <2>6. \A S \in SUBSET (1 .. k + 1) : S # {} => h[S \ {Max(S)}] = f[S \ {Max(S)}]
    BY <2>2, <2>5
  <2>7. IsFold(h, k + 1, base, g)
    BY <2>6 DEF IsFold
  <2>8. \E iter \in [SUBSET (1 .. k + 1) -> B] : IsFold(iter, k + 1, base, g)
    <3> HIDE DEF h
    <3> QED BY <2>3, <2>7
  <2> QED BY <2>0, <2>8
<1>3. ASSUME NEW k \in K PROVE k + 1 \in K
  <2>1. CASE k + 1 <= n
    BY <1>2, <2>1
  <2>2. CASE ~(k + 1 <= n)
    BY <2>2
  <2> QED BY <2>1, <2>2
<1>4. K = Nat
  <2> HIDE DEF K
  <2>1. K \subseteq Nat
    BY DEF K
  <2> QED BY <2>1, <1>1, <1>3, Induction
<1>5. n \in K
  BY <1>4
<1>6. n <= n => \E iter \in [SUBSET (1 .. n) -> B] : IsFold(iter, n, base, g)
  BY Zenon, <1>5
<1>7. n <= n
  OBVIOUS
<1> QED BY <1>6, <1>7

(***************************************************************************)
(* Part 2: what becomes of one tux.                                        *)
(***************************************************************************)

\* Boxes of the size of a tux.
TuxBoxes == [x : Int, y : Int, w : {TuxSize}, h : {TuxSize}]

\* Half a tux is a whole number of pixels.
LEMMA HalfIsInt == TuxSize \div 2 \in Int /\ TuxSize \in Nat
BY PursuitAssumption

\* At a place a tux takes a box of its size.
LEMMA PlaceIsBox == ASSUME NEW p, p.x \in Int, p.y \in Int PROVE TuxBox(p) \in TuxBoxes
BY DEF TuxBox, Box, TuxBoxes

\* A step from a place leads to a place.
LEMMA AheadIsPlace ==
  ASSUME NEW p, p.x \in Int, p.y \in Int, NEW n \in Dirs, NEW k \in Int
  PROVE  Ahead(p, n, k).x \in Int /\ Ahead(p, n, k).y \in Int
<1>1. CASE n = "up"
  BY <1>1 DEF Ahead, Heading
<1>2. CASE n = "down"
  BY <1>2 DEF Ahead, Heading
<1>3. CASE n = "left"
  BY <1>3 DEF Ahead, Heading
<1>4. CASE n = "right"
  BY <1>4 DEF Ahead, Heading
<1> QED BY <1>1, <1>2, <1>3, <1>4 DEF Dirs

\* A tux that is put into a box takes that box, and keeps its status and its bonus.
LEMMA AtIsThere ==
  ASSUME NEW r \in TuxRecord, NEW box \in TuxBoxes
  PROVE  /\ At(r, box) \in TuxRecord /\ BoxOf(At(r, box)) = box
         /\ At(r, box).status = r.status /\ At(r, box).bonus = r.bonus
<1> DEFINE h == TuxSize \div 2
<1>1. At(r, box) \in TuxRecord
  <2>1. box.x + h \in Int /\ box.y + h \in Int
    BY HalfIsInt DEF TuxBoxes
  <2>2. At(r, box) = [r EXCEPT !.x = box.x + h, !.y = box.y + h, !.stuck = FALSE]
    BY DEF At
  <2> HIDE DEF h
  <2> QED BY <2>1, <2>2 DEF TuxRecord
<1>2. /\ At(r, box).x = box.x + TuxSize \div 2 /\ At(r, box).y = box.y + TuxSize \div 2
      /\ At(r, box).status = r.status /\ At(r, box).bonus = r.bonus
  BY DEF At, TuxRecord
<1>3. (box.x + TuxSize \div 2) - TuxSize \div 2 = box.x /\ (box.y + TuxSize \div 2) - TuxSize \div 2 = box.y
  BY HalfIsInt DEF TuxBoxes
<1>4. BoxOf(At(r, box)) = Box(box.x, box.y, TuxSize, TuxSize)
  BY <1>2, <1>3 DEF BoxOf
<1>5. box = Box(box.x, box.y, TuxSize, TuxSize)
  BY DEF TuxBoxes, Box
<1> QED BY <1>1, <1>2, <1>4, <1>5

\* The box of a tux is a place.
LEMMA BoxIsPlace == ASSUME NEW r \in TuxRecord PROVE BoxOf(r) \in TuxBoxes /\ BoxOf(r).x \in Int /\ BoxOf(r).y \in Int
BY HalfIsInt DEF TuxRecord, BoxOf, Box, TuxBoxes

\* One tux becomes a record that stands free.
LEMMA OneStands ==
  ASSUME NEW T \in Standing, NEW t \in Tuxes, NEW r \in TuxRecord, StandsFree(r)
  PROVE  [T EXCEPT ![t] = r] \in Standing
BY DEF Standing

\* Each of the tuxes is a record and stands free.
LEMMA OneIsTux == ASSUME NEW T \in Standing, NEW t \in Tuxes PROVE T[t] \in TuxRecord /\ StandsFree(T[t])
BY DEF Standing

\* A tux may be put wherever there is no wall, and a ghost anywhere.
LEMMA PutStands ==
  ASSUME NEW T \in Standing, NEW t \in Tuxes, NEW box \in TuxBoxes,
         InElement(box) => T[t].bonus = "ghost"
  PROVE  [T EXCEPT ![t] = At(@, box)] \in Standing
<1>1. At(T[t], box) \in TuxRecord /\ BoxOf(At(T[t], box)) = box /\ At(T[t], box).bonus = T[t].bonus
  BY OneIsTux, AtIsThere
<1>2. StandsFree(At(T[t], box))
  BY <1>1 DEF StandsFree
<1>3. [T EXCEPT ![t] = At(T[t], box)] \in Standing
  BY <1>1, <1>2, OneStands
<1> QED BY <1>3

\* Whatever a tux picks up: who becomes solid in a wall by it is noted as stuck.
LEMMA PicksStand ==
  ASSUME NEW T \in Standing, NEW t \in Tuxes PROVE Picks(T, t) \subseteq Standing
<1> DEFINE r == T[t]
           wedged == (r.bonus = "ghost" \/ r.stuck) /\ InElement(BoxOf(r))
           with(b) == [T EXCEPT ![t].bonus = b, ![t].time = BonusTime, ![t].stuck = wedged]
           killed(R) == [R EXCEPT ![t].status = "dead"]
           dead == [killed(T) EXCEPT ![t].bonus = "none", ![t].time = 0]
<1>1. r \in TuxRecord /\ StandsFree(r) /\ T \in [Tuxes -> TuxRecord]
  BY OneIsTux DEF Standing
<1>2. dead \in Standing
  <2>1. dead = [T EXCEPT ![t] = [r EXCEPT !.status = "dead", !.bonus = "none", !.time = 0]]
    BY <1>1 DEF TuxRecord
  <2>2. [r EXCEPT !.status = "dead", !.bonus = "none", !.time = 0] \in TuxRecord
    BY <1>1 DEF TuxRecord
  <2>3. StandsFree([r EXCEPT !.status = "dead", !.bonus = "none", !.time = 0])
    BY <1>1 DEF StandsFree, TuxRecord
  <2> QED BY <2>1, <2>2, <2>3, OneStands
<1>3. ASSUME NEW b \in Bonuses PROVE with(b) \in Standing /\ killed(with(b)) \in Standing
  <2> DEFINE q == [r EXCEPT !.bonus = b, !.time = BonusTime, !.stuck = wedged]
             k == [q EXCEPT !.status = "dead"]
  <2>1. with(b) = [T EXCEPT ![t] = q]
    BY <1>1
  <2>2. q \in TuxRecord /\ q.status = r.status /\ q.x = r.x /\ q.y = r.y /\ q.bonus = b /\ q.stuck = wedged
    BY <1>1, CourseAssumption DEF TuxRecord
  <2>3. BoxOf(q) = BoxOf(r)
    BY <2>2 DEF BoxOf
  <2>4. StandsFree(q)
    BY <2>2, <2>3, <1>1 DEF StandsFree
  <2>5. with(b) \in Standing
    BY <2>1, <2>2, <2>4, OneStands
  <2>6. k \in TuxRecord /\ k.status = "dead"
    BY <2>2 DEF TuxRecord
  <2>7. StandsFree(k)
    BY <2>6 DEF StandsFree
  <2>8. killed(with(b)) = [T EXCEPT ![t] = k]
    BY <2>1, <1>1
  <2>9. killed(with(b)) \in Standing
    BY <2>6, <2>7, <2>8, OneStands
  <2> QED BY <2>5, <2>9
<1>4. Picks(T, t) = {T, dead} \cup {with(b) : b \in Bonuses} \cup {killed(with(b)) : b \in Bonuses}
  BY DEF Picks
<1> QED BY <1>2, <1>3, <1>4

\* A step leads into no wall, unless the tux is a ghost.
LEMMA MoveStands ==
  ASSUME NEW T \in Standing, NEW t \in Tuxes, NEW n \in Dirs PROVE MoveTux(T, t, n) \subseteq Standing
<1> DEFINE there == Ahead(BoxOf(T[t]), n, Step(T[t]))
           box == TuxBox(there)
<1>1. T[t] \in TuxRecord /\ StandsFree(T[t]) /\ T \in [Tuxes -> TuxRecord]
  BY OneIsTux DEF Standing
<1>2. Step(T[t]) \in Int
  BY CourseAssumption DEF Step
<1>3. box \in TuxBoxes
  BY <1>1, <1>2, BoxIsPlace, AheadIsPlace, PlaceIsBox
<1>4. [T EXCEPT ![t].position = n] \in Standing
  <2>1. [T EXCEPT ![t].position = n] = [T EXCEPT ![t] = [T[t] EXCEPT !.position = n]]
    BY <1>1
  <2>2. [T[t] EXCEPT !.position = n] \in TuxRecord
    BY <1>1 DEF TuxRecord
  <2>3. BoxOf([T[t] EXCEPT !.position = n]) = BoxOf(T[t])
    BY <1>1 DEF BoxOf, TuxRecord
  <2>4. StandsFree([T[t] EXCEPT !.position = n])
    BY <1>1, <2>3 DEF StandsFree, TuxRecord
  <2> QED BY <2>1, <2>2, <2>4, OneStands
<1>5. ASSUME T[t].bonus # "ghost" => ~InElement(box)
      PROVE  Picks([T EXCEPT ![t] = At(@, box)], t) \subseteq Standing
  BY <1>5, <1>3, PutStands, PicksStand
<1> HIDE DEF box
<1>6. MoveTux(T, t, n) \subseteq {[T EXCEPT ![t].position = n], T} \/
      ((T[t].bonus # "ghost" => ~InElement(box)) /\ MoveTux(T, t, n) = Picks([T EXCEPT ![t] = At(@, box)], t))
  BY DEF MoveTux, box
<1> QED BY <1>4, <1>5, <1>6

\* Neither does an action.
LEMMA ActionStands ==
  ASSUME NEW T \in Standing, NEW t \in Tuxes, NEW n \in Dirs PROVE TuxAction(T, t, n) \subseteq Standing
BY MoveStands DEF TuxAction

\* A ghost in a wall keeps its bonus when the time is over.
LEMMA BonusStands ==
  ASSUME NEW r \in TuxRecord, StandsFree(r) PROVE EventBonus(r) \in TuxRecord /\ StandsFree(EventBonus(r))
<1> DEFINE left == IF r.time > 0 THEN r.time - 1 ELSE 0
           over == [r EXCEPT !.bonus = "none", !.time = 0]
           on == [r EXCEPT !.time = left]
<1>1. left \in Nat
  BY DEF TuxRecord
<1>2. over \in TuxRecord /\ over.status = r.status /\ over.stuck = r.stuck
  BY DEF TuxRecord
<1>3. on \in TuxRecord /\ on.status = r.status /\ on.stuck = r.stuck /\ on.bonus = r.bonus
  BY <1>1 DEF TuxRecord
<1>4. BoxOf(over) = BoxOf(r) /\ BoxOf(on) = BoxOf(r)
  BY DEF BoxOf, TuxRecord
<1>5. StandsFree(on)
  BY <1>3, <1>4 DEF StandsFree
<1>6. ASSUME r.bonus # "none", ~(r.bonus = "ghost" /\ InElement(BoxOf(r))) PROVE StandsFree(over)
  BY <1>2, <1>4, <1>6 DEF StandsFree
<1> HIDE DEF over, on
<1>7. EventBonus(r) \in {r, on} \/ (EventBonus(r) = over /\ r.bonus # "none" /\ ~(r.bonus = "ghost" /\ InElement(BoxOf(r))))
  BY DEF EventBonus, over, on
<1> QED BY <1>2, <1>3, <1>5, <1>6, <1>7

\* A place that was found has no wall in it.
LEMMA FreeIsFound ==
  ASSUME NEW T, NEW b \in FoundPlaces(T) PROVE b \in TuxBoxes /\ ~InElement(b)
BY CourseAssumption DEF FoundPlaces, IsFree, Box, TuxBoxes

\* A teleport puts a tux beside the other end only where it is free.
LEMMA BesideStands ==
  ASSUME NEW T \in Standing, NEW t \in Tuxes, NEW far, far.box \in Boxes
  PROVE  MovedBeside(T, t, far) \subseteq Standing
<1> DEFINE b == far.box
           n == T[t].position
           px == CASE n \in Vertical -> b.x + b.w \div 2
                   [] n = "left" -> b.x - (TuxSize + TuxGap)
                   [] n = "right" -> b.x + b.w + TuxGap
           py == CASE n \notin Vertical -> b.y + b.h \div 2
                   [] n = "up" -> b.y - (TuxSize + TuxGap)
                   [] n = "down" -> b.y + b.h + TuxGap
           box == TuxBox([x |-> px, y |-> py])
<1>1. n \in Dirs
  BY OneIsTux DEF TuxRecord
<1>2. b.x \in Int /\ b.y \in Int /\ b.w \in Int /\ b.h \in Int /\ TuxGap \in Int /\ TuxSize \in Int
  BY HalfIsInt, CourseAssumption DEF Boxes
<1>3. b.w \div 2 \in Int /\ b.h \div 2 \in Int
  BY <1>2
<1>4. px \in Int
  BY <1>1, <1>2, <1>3 DEF Dirs, Vertical
<1>5. py \in Int
  BY <1>1, <1>2, <1>3 DEF Dirs, Vertical
<1>6. box \in TuxBoxes
  <2> HIDE DEF px, py
  <2> QED BY <1>4, <1>5 DEF TuxBox, Box, TuxBoxes
<1>7. MovedBeside(T, t, far) = {T} \cup IF IsFree(T, box) THEN {[T EXCEPT ![t] = At(@, box)]} ELSE {}
  BY DEF MovedBeside
<1> HIDE DEF box
<1>8. IsFree(T, box) => [T EXCEPT ![t] = At(@, box)] \in Standing
  BY <1>6, PutStands DEF IsFree
<1> QED BY <1>7, <1>8

(***************************************************************************)
(* Part 3: the search of the computer player.  It is compared, round by    *)
(* round, with what can be reached in as many rounds.                      *)
(***************************************************************************)

Spots == [x : Int, y : Int]
Alternatives == [first : Dirs, route : Dirs, place : Spots]
Searches == [list : Seq(Alternatives), forks : Seq(Alternatives), at : Nat,
             end : {"no", "cut off", "given up", "found"}, route : Dirs \cup {"none"}]
\* A search that goes on has an index within its list, or is about to begin.
Sound == {s \in Searches : (s.end = "no" => s.at <= Len(s.list)) /\ (s.end = "found" => s.route \in Dirs)}

\* What a list holds, and what both lists of a search do.
Elements(q) == {q[i] : i \in 1 .. Len(q)}
Held(s) == Elements(s.list) \cup Elements(s.forks)

\* A tux could stand at p among the tuxes T; a look, given them.
FreeIn(T, p) == IsFree(T, TuxBox(p))
LookIn(T, last, s, rival) == LET Free(p) == FreeIn(T, p) IN Look(last, s, Free, rival)

\* A step from a spot leads to a spot.
LEMMA AheadIsSpot ==
  ASSUME NEW p \in Spots, NEW n \in Dirs, NEW k \in Int PROVE Ahead(p, n, k) \in Spots
<1>1. Ahead(p, n, k).x \in Int /\ Ahead(p, n, k).y \in Int
  BY AheadIsPlace DEF Spots
<1> QED BY <1>1 DEF Ahead, Spots

\* What a free alternative leads to is itself, moved on, and its two forks.
LEMMA MovedIsOnward ==
  ASSUME NEW a \in Alternatives
  PROVE  /\ Moved(a) \in Alternatives /\ Moved(a).place = Probe(a) /\ Moved(a).first = a.first
         /\ Fork(Moved(a)) \in Seq(Alternatives) /\ Len(Fork(Moved(a))) = 2
         /\ Onward(a) = {Moved(a), Fork(Moved(a))[1], Fork(Moved(a))[2]}
<1> DEFINE b == Moved(a)
<1>1. Ahead(a.place, a.route, 2 * TuxSize) \in Spots
  BY AheadIsSpot, HalfIsInt DEF Alternatives
<1>2. b \in Alternatives /\ b.first = a.first /\ b.route = a.route /\ b.place = Probe(a) /\ a.route \in Dirs
  BY <1>1 DEF Moved, Alternatives, Probe
<1>3. b = Alternative(a.first, a.route, Probe(a))
  BY <1>2 DEF Alternatives, Alternative
<1>4. Sides(a.route) \in Seq(Dirs) /\ Len(Sides(a.route)) = 2 /\ ToSet(Sides(a.route)) = {Sides(a.route)[1], Sides(a.route)[2]}
  <2> DEFINE q == Sides(a.route)
  <2>4. q = <<"right", "left">> \/ q = <<"up", "down">>
    BY DEF Sides
  <2> HIDE DEF q
  <2>1. q \in Seq(Dirs) /\ Len(q) = 2
    <3>1. <<"right", "left">> \in Seq(Dirs) /\ Len(<<"right", "left">>) = 2
      BY DEF Dirs
    <3>2. <<"up", "down">> \in Seq(Dirs) /\ Len(<<"up", "down">>) = 2
      BY DEF Dirs
    <3> QED BY <2>4, <3>1, <3>2, Zenon
  <2>2. DOMAIN q = 1 .. 2
    BY <2>1
  <2>3. ToSet(q) = {q[1], q[2]}
    BY <2>2 DEF ToSet
  <2> QED BY <2>1, <2>3 DEF q
<1>5. Fork(b) = [i \in 1 .. 2 |-> Alternative(a.first, Sides(a.route)[i], Probe(a))]
  BY <1>2 DEF Fork
<1>6. \A i \in 1 .. 2 : Alternative(a.first, Sides(a.route)[i], Probe(a)) \in Alternatives
  BY <1>2, <1>4 DEF Alternative, Alternatives
<1>7. Fork(b) \in Seq(Alternatives) /\ Len(Fork(b)) = 2
  BY <1>5, <1>6
<1>8. Onward(a) = {b, Fork(b)[1], Fork(b)[2]}
  BY <1>3, <1>4, <1>5 DEF Onward
<1> QED BY <1>2, <1>7, <1>8

\* A list with another appended holds what both held.
LEMMA ConcatHoldsBoth ==
  ASSUME NEW q \in Seq(Alternatives), NEW f \in Seq(Alternatives)
  PROVE  /\ q \o f \in Seq(Alternatives) /\ Len(q \o f) = Len(q) + Len(f)
         /\ Elements(q \o f) = Elements(q) \cup Elements(f)
<1> DEFINE c == q \o f
<1>1. /\ c \in Seq(Alternatives) /\ Len(c) = Len(q) + Len(f)
      /\ \A i \in 1 .. Len(q) + Len(f) : c[i] = IF i <= Len(q) THEN q[i] ELSE f[i - Len(q)]
  BY ConcatProperties
<1>2. Len(q) \in Nat /\ Len(f) \in Nat
  OBVIOUS
<1> HIDE DEF c
<1>3. ASSUME NEW i \in 1 .. Len(c) PROVE c[i] \in Elements(q) \cup Elements(f)
  <2>1. CASE i <= Len(q)
    BY <1>1, <1>2, <2>1 DEF Elements
  <2>2. CASE ~(i <= Len(q))
    <3>1. i - Len(q) \in 1 .. Len(f) /\ c[i] = f[i - Len(q)]
      BY <1>1, <1>2, <2>2
    <3> QED BY <3>1 DEF Elements
  <2> QED BY <2>1, <2>2
<1>4. ASSUME NEW i \in 1 .. Len(q) PROVE q[i] \in Elements(c)
  <2>1. i \in 1 .. Len(c) /\ c[i] = q[i]
    BY <1>1, <1>2
  <2> QED BY <2>1 DEF Elements
<1>5. ASSUME NEW i \in 1 .. Len(f) PROVE f[i] \in Elements(c)
  <2>1. Len(q) + i \in 1 .. Len(c) /\ ~(Len(q) + i <= Len(q)) /\ (Len(q) + i) - Len(q) = i
    BY <1>1, <1>2
  <2>2. c[Len(q) + i] = f[i]
    BY <1>1, <2>1
  <2> QED BY <2>1, <2>2 DEF Elements
<1>6. Elements(c) = Elements(q) \cup Elements(f)
  <2>1. Elements(c) \subseteq Elements(q) \cup Elements(f)
    BY <1>3 DEF Elements
  <2>2. Elements(q) \subseteq Elements(c)
    BY <1>4 DEF Elements
  <2>3. Elements(f) \subseteq Elements(c)
    BY <1>5 DEF Elements
  <2> QED BY <2>1, <2>2, <2>3
<1> QED BY <1>1, <1>6 DEF c

\* Passing the end of the list adds the forks to it: nothing is lost, and the index is in the list.
LEMMA NextIsSound ==
  ASSUME NEW s \in Sound, s.end = "no"
  PROVE  LET n == NextAlternative(s) IN
           /\ n \in Searches /\ n.end = s.end /\ n.route = s.route
           /\ n.list # <<>> => n.at \in 1 .. Len(n.list)
           /\ n.list = <<>> => n.forks = <<>>
           /\ Held(n) = Held(s)
<1> DEFINE n == NextAlternative(s)
<1>0. s \in Searches /\ s.at <= Len(s.list)
  BY DEF Sound
<1>1. /\ s \in Searches /\ s.at \in Nat /\ s.at <= Len(s.list)
      /\ s.list \in Seq(Alternatives) /\ s.forks \in Seq(Alternatives)
  BY <1>0 DEF Searches
<1>2. CASE s.at + 1 <= Len(s.list)
  <2> DEFINE k == s.at + 1
  <2>0. k \in Nat
    BY <1>1
  <2>1. k \in 1 .. Len(s.list)
    BY <1>1, <1>2
  <2>2. NextAlternative(s) = [s EXCEPT !.at = k]
    BY <1>2 DEF NextAlternative
  <2> HIDE DEF k
  <2>3. /\ [s EXCEPT !.at = k] \in Searches /\ [s EXCEPT !.at = k].list = s.list
        /\ [s EXCEPT !.at = k].forks = s.forks /\ [s EXCEPT !.at = k].at = k
        /\ [s EXCEPT !.at = k].end = s.end /\ [s EXCEPT !.at = k].route = s.route
    BY <2>0, <1>1 DEF Searches
  <2>4. s.list # <<>>
    BY <1>1, <2>1
  <2> QED BY <2>1, <2>2, <2>3, <2>4 DEF Held
<1>3. CASE ~(s.at + 1 <= Len(s.list))
  <2> DEFINE both == s.list \o s.forks
             m == [s EXCEPT !.list = both, !.forks = <<>>, !.at = 1]
  <2>1. both \in Seq(Alternatives) /\ Elements(both) = Elements(s.list) \cup Elements(s.forks)
    BY <1>1, ConcatHoldsBoth
  <2>2. NextAlternative(s) = m
    BY <1>3 DEF NextAlternative
  <2> HIDE DEF both
  <2>3. <<>> \in Seq(Alternatives) /\ 1 \in Nat
    OBVIOUS
  <2>4. m \in Searches /\ m.list = both /\ m.forks = <<>> /\ m.at = 1 /\ m.end = s.end /\ m.route = s.route
    BY <2>1, <2>3, <1>1 DEF Searches
  <2>5. Elements(<<>>) = {}
    BY DEF Elements
  <2> HIDE DEF m
  <2>6. Held(m) = Held(s)
    BY <2>1, <2>4, <2>5 DEF Held
  <2>7. both # <<>> => 1 \in 1 .. Len(both)
    BY <2>1
  <2>8. both = <<>> => s.forks = <<>>
    BY <1>1, ConcatEmptySeq DEF both
  <2> QED BY <2>2, <2>4, <2>6, <2>7
<1> QED BY <1>2, <1>3

\* Who is removed is the only one to go.
LEMMA RemoveKeepsRest ==
  ASSUME NEW q \in Seq(Alternatives), NEW i \in 1 .. Len(q)
  PROVE  /\ RemoveAt(q, i) \in Seq(Alternatives) /\ Len(RemoveAt(q, i)) = Len(q) - 1
         /\ Elements(RemoveAt(q, i)) \subseteq Elements(q)
         /\ Elements(q) \ {q[i]} \subseteq Elements(RemoveAt(q, i))
<1> DEFINE a == SubSeq(q, 1, i - 1)
           b == SubSeq(q, i + 1, Len(q))
<1>1. a \in Seq(Alternatives) /\ Len(a) = i - 1 /\ \A j \in 1 .. i - 1 : a[j] = q[j]
  OBVIOUS
<1>2. b \in Seq(Alternatives) /\ Len(b) = Len(q) - i /\ \A j \in 1 .. Len(q) - i : b[j] = q[i + j]
  OBVIOUS
<1>3. RemoveAt(q, i) = a \o b
  BY DEF RemoveAt
<1> HIDE DEF a, b
<1>4. RemoveAt(q, i) \in Seq(Alternatives) /\ Len(RemoveAt(q, i)) = Len(q) - 1
  BY <1>1, <1>2, <1>3
<1>5. \A j \in 1 .. i - 1 : RemoveAt(q, i)[j] = q[j]
  BY <1>1, <1>2, <1>3
<1>6. \A j \in i .. Len(q) - 1 : RemoveAt(q, i)[j] = q[j + 1]
  <2>1. SUFFICES ASSUME NEW j \in i .. Len(q) - 1 PROVE RemoveAt(q, i)[j] = q[j + 1]
    OBVIOUS
  <2>2. (a \o b)[j] = b[j - (i - 1)]
    BY <1>1, <1>2
  <2>3. j - (i - 1) \in 1 .. Len(q) - i /\ i + (j - (i - 1)) = j + 1
    OBVIOUS
  <2> QED BY <2>2, <2>3, <1>2, <1>3
<1>7. \A j \in 1 .. Len(q) - 1 : RemoveAt(q, i)[j] \in Elements(q)
  BY <1>5, <1>6 DEF Elements
<1>8. \A j \in 1 .. Len(q) : j # i => q[j] \in Elements(RemoveAt(q, i))
  <2>1. SUFFICES ASSUME NEW j \in 1 .. Len(q), j # i PROVE q[j] \in Elements(RemoveAt(q, i))
    OBVIOUS
  <2>2. CASE j < i
    <3>1. j \in 1 .. i - 1 /\ j \in 1 .. Len(q) - 1
      BY <2>2
    <3> QED BY <3>1, <1>4, <1>5 DEF Elements
  <2>3. CASE j > i
    <3>1. j - 1 \in i .. Len(q) - 1 /\ j - 1 \in 1 .. Len(q) - 1 /\ (j - 1) + 1 = j
      BY <2>3
    <3> QED BY <3>1, <1>4, <1>6 DEF Elements
  <2> QED BY <2>1, <2>2, <2>3
<1> QED BY <1>4, <1>7, <1>8 DEF Elements

\* Who is replaced is the only one to go.
LEMMA ReplaceKeepsRest ==
  ASSUME NEW q \in Seq(Alternatives), NEW i \in 1 .. Len(q), NEW a \in Alternatives
  PROVE  LET r == [q EXCEPT ![i] = a] IN
         /\ r \in Seq(Alternatives) /\ Len(r) = Len(q)
         /\ Elements(r) \subseteq Elements(q) \cup {a}
         /\ (Elements(q) \ {q[i]}) \cup {a} \subseteq Elements(r)
BY DEF Elements

\* What one look may do: a free place is gone on from, the rival is found, or the
\* alternative is dropped.
GoesOn(T, s, r, old) ==
    /\ FreeIn(T, Probe(old)) /\ r.end = "no"
    /\ Held(r) \subseteq Held(s) \cup Onward(old)
    /\ (Held(s) \ {old}) \cup Onward(old) \subseteq Held(r)

Arrives(T, s, r, old, rival) ==
    /\ ~FreeIn(T, Probe(old)) /\ Conflict(TuxBox(Probe(old)), rival)
    /\ r.end = "found" /\ r.route = old.first

Drops(T, s, r, old, rival) ==
    /\ ~FreeIn(T, Probe(old)) /\ ~Conflict(TuxBox(Probe(old)), rival) /\ r.end = "no"
    /\ Held(r) \subseteq Held(s)
    /\ Held(s) \ {old} \subseteq Held(r)

Looks(T, last, s, r, rival) ==
    \/ r.end = "cut off" /\ Held(s) = {}
    \/ r.end = "given up" /\ last
    \/ ~last /\ \E old \in Held(s) : GoesOn(T, s, r, old) \/ Arrives(T, s, r, old, rival) \/ Drops(T, s, r, old, rival)

\* A look is one of these, whatever is free.
LEMMA LookIsOneOf ==
  ASSUME NEW T, NEW last \in BOOLEAN, NEW s \in Sound, s.end = "no", NEW rival
  PROVE  /\ LookIn(T, last, s, rival) \in Sound
         /\ Looks(T, last, s, LookIn(T, last, s, rival), rival)
<1> DEFINE n == NextAlternative(s)
           old == n.list[n.at]
           a == Moved(old)
           r == LookIn(T, last, s, rival)
<1>1. /\ n \in Searches /\ n.end = "no" /\ n.route = s.route
      /\ n.list # <<>> => n.at \in 1 .. Len(n.list)
      /\ n.list = <<>> => n.forks = <<>>
      /\ Held(n) = Held(s)
  BY NextIsSound DEF n
<1>2. r = IF n.list = <<>> THEN [n EXCEPT !.end = "cut off"]
          ELSE IF last THEN [n EXCEPT !.end = "given up"]
          ELSE IF FreeIn(T, a.place) THEN [n EXCEPT !.list[n.at] = a, !.forks = @ \o Fork(a)]
          ELSE IF Conflict(TuxBox(a.place), rival) THEN [n EXCEPT !.end = "found", !.route = a.first]
          ELSE [n EXCEPT !.list = RemoveAt(@, n.at), !.at = @ - 1]
  BY DEF LookIn, Look
<1> HIDE DEF n, r
<1>3. n.list \in Seq(Alternatives) /\ n.forks \in Seq(Alternatives) /\ n.at \in Nat
  BY <1>1 DEF Searches
<1>4. CASE n.list = <<>>
  <2>1. r = [n EXCEPT !.end = "cut off"]
    BY <1>2, <1>4
  <2>2. r \in Searches /\ r.end = "cut off"
    BY <2>1, <1>1 DEF Searches
  <2>3. r \in Sound
    BY <2>2 DEF Sound
  <2>4. n.forks = <<>>
    BY <1>1, <1>4
  <2>5. Held(s) = {}
    <3>1. Elements(<<>>) = {}
      BY DEF Elements
    <3>2. Held(n) = Elements(<<>>) \cup Elements(<<>>)
      BY <1>4, <2>4 DEF Held
    <3> QED BY <3>1, <3>2, <1>1
  <2> QED BY <2>2, <2>3, <2>5 DEF Looks, r
<1>5. CASE n.list # <<>> /\ last
  <2>1. r = [n EXCEPT !.end = "given up"]
    BY <1>2, <1>5
  <2>2. r \in Searches /\ r.end = "given up"
    BY <2>1, <1>1 DEF Searches
  <2>3. r \in Sound
    BY <2>2 DEF Sound
  <2> QED BY <2>2, <2>3, <1>5 DEF Looks, r
<1>6. ASSUME n.list # <<>>, ~last PROVE r \in Sound /\ Looks(T, last, s, r, rival)
  <2>1. n.at \in 1 .. Len(n.list)
    BY <1>1, <1>6
  <2>2. old \in Alternatives /\ old \in Held(s)
    <3>1. old \in Elements(n.list)
      BY <2>1 DEF Elements
    <3> QED BY <3>1, <2>1, <1>3, <1>1 DEF Held
  <2> HIDE DEF old
  <2>3. /\ a \in Alternatives /\ a.place = Probe(old) /\ a.first = old.first
        /\ Fork(a) \in Seq(Alternatives) /\ Len(Fork(a)) = 2
        /\ Onward(old) = {a, Fork(a)[1], Fork(a)[2]}
    BY <2>2, MovedIsOnward
  <2> DEFINE f == Fork(a)
  <2> HIDE DEF a, f
  <2>4. CASE FreeIn(T, Probe(old))
    <3> DEFINE ls == [n.list EXCEPT ![n.at] = a]
               fs == n.forks \o f
    <3>1. r = [n EXCEPT !.list = ls, !.forks = fs]
      BY <1>2, <1>6, <2>4, <2>3, <1>1 DEF Searches, f
    <3>2. /\ ls \in Seq(Alternatives) /\ Len(ls) = Len(n.list)
          /\ Elements(ls) \subseteq Elements(n.list) \cup {a}
          /\ (Elements(n.list) \ {old}) \cup {a} \subseteq Elements(ls)
      BY <1>3, <2>1, <2>3, ReplaceKeepsRest DEF old
    <3>3. fs \in Seq(Alternatives) /\ Elements(fs) = Elements(n.forks) \cup Elements(f)
      BY <1>3, <2>3, ConcatHoldsBoth DEF f
    <3>4. Elements(f) = {f[1], f[2]}
      BY <2>3 DEF Elements, f
    <3> HIDE DEF ls, fs
    <3>5. r \in Searches /\ r.list = ls /\ r.forks = fs /\ r.at = n.at /\ r.end = "no"
      BY <3>1, <3>2, <3>3, <1>1 DEF Searches
    <3>6. r \in Sound
      BY <3>5, <3>2, <2>1 DEF Sound
    <3>7. Held(r) \subseteq Held(n) \cup Onward(old) /\ (Held(n) \ {old}) \cup Onward(old) \subseteq Held(r)
      BY <3>5, <3>2, <3>3, <3>4, <2>3 DEF Held, f
    <3>8. GoesOn(T, s, r, old)
      BY <3>5, <3>7, <1>1, <2>4 DEF GoesOn
    <3> QED BY <3>6, <3>8, <2>2, <1>6 DEF Looks
  <2>5. CASE ~FreeIn(T, Probe(old)) /\ Conflict(TuxBox(Probe(old)), rival)
    <3>1. r = [n EXCEPT !.end = "found", !.route = old.first]
      BY <1>2, <1>6, <2>5, <2>3
    <3>2. old.first \in Dirs
      BY <2>2 DEF Alternatives
    <3>3. r \in Searches /\ r.end = "found" /\ r.route = old.first
      BY <3>1, <3>2, <1>1 DEF Searches
    <3>4. r \in Sound
      BY <3>2, <3>3 DEF Sound
    <3>5. Arrives(T, s, r, old, rival)
      BY <3>3, <2>5 DEF Arrives
    <3> QED BY <3>4, <3>5, <2>2, <1>6 DEF Looks
  <2>6. CASE ~FreeIn(T, Probe(old)) /\ ~Conflict(TuxBox(Probe(old)), rival)
    <3> DEFINE ls == RemoveAt(n.list, n.at)
               k == n.at - 1
    <3>1. r = [n EXCEPT !.list = ls, !.at = k]
      BY <1>2, <1>6, <2>6, <2>3, <1>1 DEF Searches
    <3>2. /\ ls \in Seq(Alternatives) /\ Len(ls) = Len(n.list) - 1
          /\ Elements(ls) \subseteq Elements(n.list)
          /\ Elements(n.list) \ {old} \subseteq Elements(ls)
      BY <1>3, <2>1, RemoveKeepsRest DEF old
    <3>3. k \in Nat /\ k <= Len(n.list) - 1
      BY <2>1, <1>3
    <3> HIDE DEF ls, k
    <3>4. r \in Searches /\ r.list = ls /\ r.forks = n.forks /\ r.at = k /\ r.end = "no"
      BY <3>1, <3>2, <3>3, <1>1 DEF Searches
    <3>5. r \in Sound
      BY <3>2, <3>3, <3>4 DEF Sound
    <3>6. Held(r) \subseteq Held(n) /\ Held(n) \ {old} \subseteq Held(r)
      BY <3>4, <3>2 DEF Held
    <3>7. Drops(T, s, r, old, rival)
      BY <3>4, <3>6, <1>1, <2>6 DEF Drops
    <3> QED BY <3>5, <3>7, <2>2, <1>6 DEF Looks
  <2> QED BY <2>4, <2>5, <2>6
<1> QED BY <1>4, <1>5, <1>6 DEF r

\* Induction up to n.
LEMMA Climb ==
  ASSUME NEW n \in Nat, NEW K, 0 \in K, \A k \in 0 .. n - 1 : k \in K => k + 1 \in K
  PROVE  \A k \in 0 .. n : k \in K
<1> DEFINE L == {k \in Nat : k <= n => k \in K}
<1>1. 0 \in L
  OBVIOUS
<1>2. \A k \in L : k + 1 \in L
  OBVIOUS
<1>3. L = Nat
  <2> HIDE DEF L
  <2>1. L \subseteq Nat
    BY DEF L
  <2> QED BY <2>1, <1>1, <1>2, Induction
<1>4. ASSUME NEW k \in 0 .. n PROVE k \in K
  <2>1. k \in L /\ k <= n
    BY <1>3
  <2> QED BY <2>1
<1> QED BY <1>4

\* f goes from base by steps of g.
StepsTo(f, k, base, g) == f[0] = base /\ \A j \in 1 .. k : f[j] = g[<<j, f[j - 1]>>]

\* A recursive function over 0 .. n exists, for every step within a set B.
LEMMA StepsExist ==
  ASSUME NEW n \in Nat, NEW B, NEW base \in B, NEW g \in [(1 .. n) \X B -> B]
  PROVE  \E f \in [0 .. n -> B] : StepsTo(f, n, base, g)
<1> DEFINE K == {k \in Nat : \E f \in [0 .. k -> B] : StepsTo(f, k, base, g)}
<1>1. 0 \in K
  <2>1. [j \in 0 .. 0 |-> base] \in [0 .. 0 -> B] /\ StepsTo([j \in 0 .. 0 |-> base], 0, base, g)
    BY DEF StepsTo
  <2> QED BY <2>1
<1>2. ASSUME NEW k \in 0 .. n - 1, k \in K PROVE k + 1 \in K
  <2>1. PICK f \in [0 .. k -> B] : StepsTo(f, k, base, g)
    BY <1>2
  <2> DEFINE h == [j \in 0 .. k + 1 |-> IF j = k + 1 THEN g[<<k + 1, f[k]>>] ELSE f[j]]
  <2>2. f[k] \in B /\ k + 1 \in 1 .. n
    OBVIOUS
  <2>3. g[<<k + 1, f[k]>>] \in B
    BY <2>2
  <2>4. h \in [0 .. k + 1 -> B]
    BY <2>3
  <2>5. h[0] = base /\ h[k + 1] = g[<<k + 1, h[k]>>]
    <3>1. 0 # k + 1 /\ k # k + 1 /\ 0 \in 0 .. k + 1 /\ k \in 0 .. k + 1 /\ k + 1 \in 0 .. k + 1
      BY <1>2
    <3>2. h[0] = f[0] /\ h[k] = f[k] /\ h[k + 1] = g[<<k + 1, f[k]>>]
      BY <3>1
    <3> QED BY <3>2, <2>1 DEF StepsTo
  <2>6. ASSUME NEW j \in 1 .. k PROVE h[j] = g[<<j, h[j - 1]>>]
    <3>1. j \in 0 .. k + 1 /\ j - 1 \in 0 .. k + 1 /\ j # k + 1 /\ j - 1 # k + 1
      BY <1>2
    <3>3. h[j] = f[j] /\ h[j - 1] = f[j - 1]
      BY <3>1
    <3>2. f[j] = g[<<j, f[j - 1]>>]
      BY <2>1 DEF StepsTo
    <3> QED BY <3>3, <3>2
  <2>7. StepsTo(h, k + 1, base, g)
    <3> HIDE DEF h
    <3>1. \A j \in 1 .. k + 1 : j \in 1 .. k \/ (j = k + 1 /\ j - 1 = k)
      OBVIOUS
    <3> QED BY <2>5, <2>6, <3>1 DEF StepsTo
  <2>8. \E q \in [0 .. k + 1 -> B] : StepsTo(q, k + 1, base, g)
    <3> HIDE DEF h
    <3> QED BY <2>4, <2>7
  <2> QED BY <2>8
<1>3. n \in K
  <2> HIDE DEF K
  <2>1. \A k \in 0 .. n : k \in K
    BY <1>1, <1>2, Climb
  <2> QED BY <2>1
<1> QED BY Zenon, <1>3

-----------------------------------------------------------------------------
\* A search begins, and goes round by round.
Begin(p) == [list |-> Beside(p), forks |-> <<>>, at |-> 0, end |-> "no", route |-> "none"]

Round(T, k, s, rival) == IF s.end = "no" THEN LookIn(T, k = MaxLooks, s, rival) ELSE s

SearchIn(T, p, rival) == LET Free(q) == FreeIn(T, q) IN Search(p, Free, rival)

\* The search begins with the four places beside the tux.
LEMMA BeginIsSound ==
  ASSUME NEW p \in Spots
  PROVE  /\ Begin(p) \in Sound /\ Begin(p).end = "no"
         /\ Held(Begin(p)) = ToSet(Beside(p)) /\ ToSet(Beside(p)) \subseteq Alternatives
<1> DEFINE m(i) == <<"up", "right", "left", "down">>[i]
           alt(i) == Alternative(m(i), m(i), Ahead(p, m(i), TuxSize + LookGap))
<1>1. \A i \in 1 .. 4 : m(i) \in Dirs
  BY DEF Dirs
<1>2. TuxSize + LookGap \in Int
  BY PursuitAssumption
<1> HIDE DEF m
<1>3. \A i \in 1 .. 4 : alt(i) \in Alternatives
  BY <1>1, <1>2, AheadIsSpot DEF Alternative, Alternatives
<1>4. Beside(p) = [i \in 1 .. 4 |-> alt(i)]
  BY DEF Beside, m
<1> HIDE DEF alt
<1>5. Beside(p) \in Seq(Alternatives) /\ Len(Beside(p)) = 4 /\ DOMAIN Beside(p) = 1 .. 4
  BY <1>3, <1>4
<1>6. Begin(p) \in Searches
  BY <1>5 DEF Begin, Searches
<1>7. Begin(p) \in Sound /\ Begin(p).end = "no"
  BY <1>5, <1>6 DEF Sound, Begin
<1>8. Elements(<<>>) = {}
  BY DEF Elements
<1>9. Held(Begin(p)) = Elements(Beside(p))
  BY <1>8 DEF Held, Begin
<1>10. Elements(Beside(p)) = ToSet(Beside(p))
  BY <1>5 DEF Elements, ToSet
<1>11. ToSet(Beside(p)) \subseteq Alternatives
  BY <1>3, <1>4, <1>5 DEF ToSet
<1> QED BY <1>7, <1>9, <1>10, <1>11

\* A round keeps what every search is.
LEMMA RoundIsSound ==
  ASSUME NEW T, NEW k, NEW s \in Sound, NEW rival PROVE Round(T, k, s, rival) \in Sound
BY LookIsOneOf DEF Round

\* The search is the last of MaxLooks rounds, one after the other.
LEMMA SearchRounds ==
  ASSUME NEW T, NEW p \in Spots, NEW rival
  PROVE  \E look \in [0 .. MaxLooks -> Sound] :
           /\ SearchIn(T, p, rival) = look[MaxLooks] /\ look[0] = Begin(p)
           /\ \A k \in 1 .. MaxLooks : look[k] = Round(T, k, look[k - 1], rival)
<1> DEFINE N == MaxLooks
           Body(lk) == [k \in 0 .. N |-> IF k = 0 THEN Begin(p) ELSE Round(T, k, lk[k - 1], rival)]
           look == CHOOSE lk : lk = Body(lk)
           g == [q \in (1 .. N) \X Sound |-> Round(T, q[1], q[2], rival)]
<1>1. SearchIn(T, p, rival) = look[MaxLooks]
  BY DEF SearchIn, Search, Begin, Round, LookIn, Look
<1>2. N \in Nat
  BY PursuitAssumption
<1>3. g \in [(1 .. N) \X Sound -> Sound]
  BY RoundIsSound
<1>4. PICK f \in [0 .. N -> Sound] : StepsTo(f, N, Begin(p), g)
  <2> HIDE DEF g, N
  <2> QED BY <1>2, <1>3, BeginIsSound, StepsExist
<1>5. ASSUME NEW k \in 1 .. N PROVE f[k] = Round(T, k, f[k - 1], rival)
  <2>1. f[k] = g[<<k, f[k - 1]>>]
    BY <1>4, <1>5 DEF StepsTo
  <2>2. f[k - 1] \in Sound
    BY <1>4, <1>5, <1>2
  <2> QED BY <2>1, <2>2
<1>6. f = Body(f)
  BY <1>4, <1>5, <1>2 DEF StepsTo
<1>7. look = Body(look)
  <2> HIDE DEF Body
  <2> QED BY <1>6
<1> HIDE DEF look
<1>8. look[0] = Begin(p) /\ \A k \in 1 .. N : look[k] = Round(T, k, look[k - 1], rival)
  BY <1>7, <1>2
<1>9. \A k \in 0 .. N : look[k] \in Sound
  <2> DEFINE K == {k \in Nat : look[k] \in Sound}
  <2>1. 0 \in K
    BY <1>8, BeginIsSound
  <2>2. ASSUME NEW k \in 0 .. N - 1, k \in K PROVE k + 1 \in K
    <3>1. k + 1 \in 1 .. N /\ (k + 1) - 1 = k /\ k + 1 \in Nat
      BY <1>2
    <3>2. look[k + 1] = Round(T, k + 1, look[k], rival)
      BY <1>8, <3>1
    <3> QED BY <2>2, <3>1, <3>2, RoundIsSound
  <2>3. \A k \in 0 .. N : k \in K
    <3> HIDE DEF K, N
    <3> QED BY <1>2, <2>1, <2>2, Climb
  <2> QED BY <2>3
<1>10. DOMAIN look = 0 .. N /\ look = [k \in 0 .. N |-> look[k]]
  BY <1>7
<1>11. look \in [0 .. N -> Sound]
  BY <1>9, <1>10
<1> QED BY <1>1, <1>8, <1>11

-----------------------------------------------------------------------------
\* The ways that lead to the rival, among the tuxes T.
LeadsIn(T, p, rival) == LET Free(q) == FreeIn(T, q) IN Leads(p, Free, rival)

Reaches == [seen : SUBSET Alternatives, new : SUBSET Alternatives]

\* Where the places that are free among the last ones lead to.
Goals(T, r) == UNION {Onward(a) : a \in {b \in r.new : FreeIn(T, Probe(b))}}

\* One round of what can be reached, and all that was.
Spread(T, r) == [seen |-> r.seen \cup r.new, new |-> Goals(T, r) \ (r.seen \cup r.new)]
All(r) == r.seen \cup r.new

\* What an alternative leads to are alternatives.
LEMMA OnwardIsAlternative == ASSUME NEW a \in Alternatives PROVE Onward(a) \subseteq Alternatives
<1>1. Moved(a) \in Alternatives /\ Fork(Moved(a)) \in Seq(Alternatives) /\ Len(Fork(Moved(a))) = 2
  BY MovedIsOnward
<1>2. Fork(Moved(a))[1] \in Alternatives /\ Fork(Moved(a))[2] \in Alternatives
  BY <1>1
<1> QED BY <1>1, <1>2, MovedIsOnward

\* A round of what can be reached keeps what was reached.
LEMMA SpreadIsReach ==
  ASSUME NEW T, NEW r \in Reaches
  PROVE  /\ Spread(T, r) \in Reaches
         /\ Spread(T, r).seen = All(r)
         /\ All(Spread(T, r)) = All(r) \cup Goals(T, r)
<1>1. Goals(T, r) \subseteq Alternatives
  BY OnwardIsAlternative DEF Reaches, Goals
<1> QED BY <1>1 DEF Reaches, All, Spread

\* What Leads computes is the last of MaxLooks rounds as well.
LEMMA LeadsRounds ==
  ASSUME NEW T, NEW p \in Spots, NEW rival
  PROVE  \E reach \in [0 .. MaxLooks -> Reaches] :
           /\ reach[0] = [seen |-> {}, new |-> ToSet(Beside(p))]
           /\ \A k \in 1 .. MaxLooks : reach[k] = Spread(T, reach[k - 1])
           /\ LeadsIn(T, p, rival) =
                {a.first : a \in {b \in reach[MaxLooks].seen :
                                    ~FreeIn(T, Probe(b)) /\ Conflict(TuxBox(Probe(b)), rival)}}
<1> DEFINE N == MaxLooks
           b0 == [seen |-> {}, new |-> ToSet(Beside(p))]
           Body(re) == [k \in 0 .. N |-> IF k = 0 THEN b0 ELSE Spread(T, re[k - 1])]
           reach == CHOOSE re : re = Body(re)
           g == [q \in (1 .. N) \X Reaches |-> Spread(T, q[2])]
<1>1. LeadsIn(T, p, rival) = {a.first : a \in {b \in reach[MaxLooks].seen :
                                    ~FreeIn(T, Probe(b)) /\ Conflict(TuxBox(Probe(b)), rival)}}
  BY DEF LeadsIn, Leads, Spread, Goals
<1>2. N \in Nat
  BY PursuitAssumption
<1>3. b0 \in Reaches
  BY BeginIsSound DEF Reaches
<1>4. g \in [(1 .. N) \X Reaches -> Reaches]
  BY SpreadIsReach
<1> HIDE DEF b0
<1>5. PICK f \in [0 .. N -> Reaches] : StepsTo(f, N, b0, g)
  <2> HIDE DEF g, N
  <2> QED BY <1>2, <1>3, <1>4, StepsExist
<1>6. ASSUME NEW k \in 1 .. N PROVE f[k] = Spread(T, f[k - 1])
  <2>1. f[k] = g[<<k, f[k - 1]>>]
    BY <1>5, <1>6 DEF StepsTo
  <2>2. f[k - 1] \in Reaches
    BY <1>5, <1>6, <1>2
  <2> QED BY <2>1, <2>2
<1>7. f = Body(f)
  BY <1>5, <1>6, <1>2 DEF StepsTo
<1>8. reach = Body(reach)
  <2> HIDE DEF Body
  <2> QED BY <1>7
<1> HIDE DEF reach
<1>9. reach[0] = b0 /\ \A k \in 1 .. N : reach[k] = Spread(T, reach[k - 1])
  BY <1>8, <1>2
<1>10. \A k \in 0 .. N : reach[k] \in Reaches
  <2> DEFINE K == {k \in Nat : reach[k] \in Reaches}
  <2>1. 0 \in K
    BY <1>9, <1>3
  <2>2. ASSUME NEW k \in 0 .. N - 1, k \in K PROVE k + 1 \in K
    <3>1. k + 1 \in 1 .. N /\ (k + 1) - 1 = k /\ k + 1 \in Nat
      BY <1>2
    <3>2. reach[k + 1] = Spread(T, reach[k])
      BY <1>9, <3>1
    <3> QED BY <2>2, <3>1, <3>2, SpreadIsReach
  <2>3. \A k \in 0 .. N : k \in K
    <3> HIDE DEF K, N
    <3> QED BY <1>2, <2>1, <2>2, Climb
  <2> QED BY <2>3
<1>11. DOMAIN reach = 0 .. N /\ reach = [k \in 0 .. N |-> reach[k]]
  BY <1>8
<1>12. reach \in [0 .. N -> Reaches]
  BY <1>10, <1>11
<1> QED BY <1>1, <1>9, <1>12 DEF b0

\* P is closed as far as what is held is still to come.
Settled(T, P, held, rival) ==
    \A b \in P : IF FreeIn(T, Probe(b)) THEN Onward(b) \subseteq P \cup held
                 ELSE ~Conflict(TuxBox(Probe(b)), rival)

\* What was left so far is settled, and holds the beginnings.
Known(T, p, s, rival) ==
    \E P \in SUBSET Alternatives :
      Settled(T, P, Held(s), rival) /\ ToSet(Beside(p)) \subseteq P \cup Held(s)

\* The search after some rounds, seen from what can be reached in as many.
Follows(T, p, s, r, rival) ==
    /\ \A b \in r.seen : FreeIn(T, Probe(b)) => Onward(b) \subseteq All(r)
    /\ s.end = "no" => Held(s) \subseteq All(r) /\ Known(T, p, s, rival)
    /\ s.end = "found" => \E a \in r.seen :
         a.first = s.route /\ ~FreeIn(T, Probe(a)) /\ Conflict(TuxBox(Probe(a)), rival)
    /\ s.end = "cut off" => \E P \in SUBSET Alternatives :
         Settled(T, P, {}, rival) /\ ToSet(Beside(p)) \subseteq P

\* A look that goes on or drops an alternative moves it into the settled set.
LEMMA KnownGrows ==
  ASSUME NEW T, NEW p, NEW s \in Sound, NEW r \in Sound, NEW rival, NEW old \in Held(s), Known(T, p, s, rival),
         GoesOn(T, s, r, old) \/ Drops(T, s, r, old, rival)
  PROVE  Known(T, p, r, rival)
<1>1. PICK P \in SUBSET Alternatives : Settled(T, P, Held(s), rival) /\ ToSet(Beside(p)) \subseteq P \cup Held(s)
  BY DEF Known
<1> DEFINE Q == P \cup {old}
<1>2. Held(s) \subseteq Q \cup Held(r)
  BY DEF GoesOn, Drops
<1>3. Q \in SUBSET Alternatives
  <2>1. Held(s) \subseteq Alternatives
    <3>1. s.list \in Seq(Alternatives) /\ s.forks \in Seq(Alternatives)
      BY DEF Sound, Searches
    <3> QED BY <3>1 DEF Held, Elements
  <2> QED BY <2>1
<1>4. ToSet(Beside(p)) \subseteq Q \cup Held(r)
  BY <1>1, <1>2
<1>5. Settled(T, Q, Held(r), rival)
  <2>1. ASSUME NEW b \in P PROVE IF FreeIn(T, Probe(b)) THEN Onward(b) \subseteq Q \cup Held(r)
                                  ELSE ~Conflict(TuxBox(Probe(b)), rival)
    BY <1>1, <1>2 DEF Settled
  <2>2. IF FreeIn(T, Probe(old)) THEN Onward(old) \subseteq Q \cup Held(r)
        ELSE ~Conflict(TuxBox(Probe(old)), rival)
    BY DEF GoesOn, Drops
  <2> QED BY <2>1, <2>2 DEF Settled
<1> QED BY <1>3, <1>4, <1>5 DEF Known

\* The search and what can be reached go a round together.
LEMMA FollowsOn ==
  ASSUME NEW T, NEW p, NEW s \in Sound, NEW e \in Reaches, NEW rival, NEW k,
         Follows(T, p, s, e, rival)
  PROVE  Follows(T, p, Round(T, k, s, rival), Spread(T, e), rival)
<1> DEFINE r == Round(T, k, s, rival)
           f == Spread(T, e)
<1>1. /\ f \in Reaches /\ f.seen = All(e) /\ All(e) \subseteq All(f) /\ e.seen \subseteq f.seen
      /\ \A a \in e.new : FreeIn(T, Probe(a)) => Onward(a) \subseteq All(f)
  BY SpreadIsReach DEF All, Goals
<1> HIDE DEF f, r
<1>2. \A b \in f.seen : FreeIn(T, Probe(b)) => Onward(b) \subseteq All(f)
  BY <1>1 DEF Follows, All
<1>3. CASE s.end # "no"
  <2>1. r = s
    BY <1>3 DEF r, Round
  <2> QED BY <2>1, <1>1, <1>2, <1>3 DEF Follows, f, r
<1>4. ASSUME s.end = "no" PROVE Follows(T, p, r, f, rival)
  <2>1. Held(s) \subseteq All(e) /\ Known(T, p, s, rival)
    BY <1>4 DEF Follows
  <2>2. r = LookIn(T, k = MaxLooks, s, rival)
    BY <1>4 DEF r, Round
  <2> DEFINE last == (k = MaxLooks)
  <2>3. last \in BOOLEAN
    OBVIOUS
  <2>4. r \in Sound /\ Looks(T, last, s, r, rival)
    <3> HIDE DEF last
    <3>1. r = LookIn(T, last, s, rival)
      BY <2>2 DEF last
    <3> QED BY <2>3, <3>1, <1>4, LookIsOneOf
  <2> HIDE DEF last
  <2>5. CASE r.end = "cut off" /\ Held(s) = {}
    <3>1. PICK P \in SUBSET Alternatives : Settled(T, P, Held(s), rival) /\ ToSet(Beside(p)) \subseteq P \cup Held(s)
      BY <2>1 DEF Known
    <3>2. Settled(T, P, {}, rival) /\ ToSet(Beside(p)) \subseteq P
      BY <3>1, <2>5
    <3> QED BY <3>2, <2>5, <1>2 DEF Follows
  <2>6. CASE r.end = "given up"
    BY <2>6, <1>2 DEF Follows
  <2>7. ASSUME NEW old \in Held(s), GoesOn(T, s, r, old) PROVE Follows(T, p, r, f, rival)
    <3>1. r.end = "no" /\ Held(r) \subseteq Held(s) \cup Onward(old) /\ FreeIn(T, Probe(old))
      BY <2>7 DEF GoesOn
    <3>2. Onward(old) \subseteq All(f)
      BY <2>1, <3>1, <1>1, <1>2
    <3>3. Known(T, p, r, rival)
      BY <2>1, <2>4, <2>7, KnownGrows
    <3>4. Held(r) \subseteq All(f)
      BY <2>1, <3>1, <3>2, <1>1
    <3> QED BY <3>1, <3>3, <3>4, <1>2 DEF Follows
  <2>8. ASSUME NEW old \in Held(s), Drops(T, s, r, old, rival) PROVE Follows(T, p, r, f, rival)
    <3>1. r.end = "no" /\ Held(r) \subseteq Held(s)
      BY <2>8 DEF Drops
    <3>2. Known(T, p, r, rival)
      BY <2>1, <2>4, <2>8, KnownGrows
    <3> QED BY <3>1, <3>2, <2>1, <1>1, <1>2 DEF Follows
  <2>9. ASSUME NEW old \in Held(s), Arrives(T, s, r, old, rival) PROVE Follows(T, p, r, f, rival)
    <3>1. /\ r.end = "found" /\ r.route = old.first /\ ~FreeIn(T, Probe(old))
          /\ Conflict(TuxBox(Probe(old)), rival)
      BY <2>9 DEF Arrives
    <3>2. old \in f.seen
      BY <2>1, <1>1
    <3> QED BY <3>1, <3>2, <1>2 DEF Follows
  <2> QED BY <2>4, <2>5, <2>6, <2>7, <2>8, <2>9 DEF Looks
<1> QED BY <1>3, <1>4 DEF f, r

\* They begin together.
LEMMA BeginFollows ==
  ASSUME NEW T, NEW p \in Spots, NEW rival
  PROVE  Follows(T, p, Begin(p), [seen |-> {}, new |-> ToSet(Beside(p))], rival)
<1> DEFINE s == Begin(p)
           r == [seen |-> {}, new |-> ToSet(Beside(p))]
<1>1. s.end = "no" /\ Held(s) = ToSet(Beside(p))
  BY BeginIsSound
<1>2. r.seen = {} /\ All(r) = ToSet(Beside(p))
  BY DEF All
<1> HIDE DEF s, r
<1>3. Known(T, p, s, rival)
  <2>1. Settled(T, {}, Held(s), rival) /\ ToSet(Beside(p)) \subseteq {} \cup Held(s)
    BY <1>1 DEF Settled
  <2> QED BY <2>1 DEF Known
<1> QED BY <1>1, <1>2, <1>3 DEF Follows, s, r

\* Nothing outside a settled set that holds the beginnings can be reached.
LEMMA SettledHoldsAll ==
  ASSUME NEW T, NEW p, NEW rival, NEW P \in SUBSET Alternatives,
         Settled(T, P, {}, rival), ToSet(Beside(p)) \subseteq P, NEW r \in Reaches, All(r) \subseteq P
  PROVE  All(Spread(T, r)) \subseteq P
<1>1. All(Spread(T, r)) = All(r) \cup Goals(T, r)
  BY SpreadIsReach
<1>2. \A a \in r.new : FreeIn(T, Probe(a)) => Onward(a) \subseteq P
  BY DEF Settled, All
<1> QED BY <1>1, <1>2 DEF Goals

\* What the search finds leads to the rival, and where it is cut off nothing does: for
\* any tuxes, any place and any rival.
LEMMA SearchFindsTheWay ==
  ASSUME NEW T, NEW p \in Spots, NEW rival
  PROVE  LET s == SearchIn(T, p, rival)
             leads == LeadsIn(T, p, rival) IN
           /\ s \in Sound
           /\ s.end \in {"found", "cut off", "given up"}
           /\ s.end = "found" => s.route \in leads
           /\ s.end = "cut off" => leads = {}
<1>1. PICK look \in [0 .. MaxLooks -> Sound] :
           /\ SearchIn(T, p, rival) = look[MaxLooks] /\ look[0] = Begin(p)
           /\ \A k \in 1 .. MaxLooks : look[k] = Round(T, k, look[k - 1], rival)
  BY SearchRounds
<1>2. PICK reach \in [0 .. MaxLooks -> Reaches] :
           /\ reach[0] = [seen |-> {}, new |-> ToSet(Beside(p))]
           /\ \A k \in 1 .. MaxLooks : reach[k] = Spread(T, reach[k - 1])
           /\ LeadsIn(T, p, rival) =
                {a.first : a \in {b \in reach[MaxLooks].seen :
                                    ~FreeIn(T, Probe(b)) /\ Conflict(TuxBox(Probe(b)), rival)}}
  BY LeadsRounds
<1> DEFINE N == MaxLooks
<1>3. N \in Nat /\ N # 0
  BY PursuitAssumption
<1>4. \A k \in 0 .. N : Follows(T, p, look[k], reach[k], rival)
  <2> DEFINE K == {k \in Nat : Follows(T, p, look[k], reach[k], rival)}
  <2>1. 0 \in K
    BY <1>1, <1>2, BeginFollows
  <2>2. ASSUME NEW k \in 0 .. N - 1, k \in K PROVE k + 1 \in K
    <3>1. k + 1 \in 1 .. N /\ (k + 1) - 1 = k /\ k + 1 \in Nat /\ k \in 0 .. N
      BY <1>3
    <3>2. look[k + 1] = Round(T, k + 1, look[k], rival) /\ reach[k + 1] = Spread(T, reach[k])
      BY <1>1, <1>2, <3>1
    <3>3. look[k] \in Sound /\ reach[k] \in Reaches
      BY <1>1, <1>2, <3>1
    <3>4. Follows(T, p, look[k], reach[k], rival)
      BY <2>2
    <3>5. Follows(T, p, Round(T, k + 1, look[k], rival), Spread(T, reach[k]), rival)
      BY <3>3, <3>4, FollowsOn
    <3> QED BY <3>1, <3>2, <3>5
  <2>3. \A k \in 0 .. N : k \in K
    <3> HIDE DEF K, N
    <3> QED BY <1>3, <2>1, <2>2, Climb
  <2> QED BY <2>3
<1> DEFINE s == look[N]
           r == reach[N]
<1>5. s \in Sound /\ r \in Reaches /\ Follows(T, p, s, r, rival)
  BY <1>1, <1>2, <1>3, <1>4
<1>6. s.end # "no"
  <2>1. s = Round(T, N, look[N - 1], rival) /\ look[N - 1] \in Sound
    BY <1>1, <1>3
  <2> DEFINE q == look[N - 1]
  <2>2. CASE q.end = "no"
    <3>1. s = LookIn(T, TRUE, q, rival)
      BY <2>1, <2>2 DEF Round
    <3> HIDE DEF s, q
    <3>2. Looks(T, TRUE, q, s, rival)
      BY <3>1, <2>1, <2>2, LookIsOneOf DEF q
    <3> QED BY <3>2 DEF Looks
  <2>3. CASE q.end # "no"
    BY <2>1, <2>3 DEF Round
  <2> QED BY <2>2, <2>3
<1>7. s.end \in {"found", "cut off", "given up"}
  BY <1>5, <1>6 DEF Sound, Searches
<1>8. s.end = "found" => s.route \in LeadsIn(T, p, rival)
  BY <1>2, <1>5 DEF Follows
<1>9. ASSUME s.end = "cut off" PROVE LeadsIn(T, p, rival) = {}
  <2>1. PICK P \in SUBSET Alternatives : Settled(T, P, {}, rival) /\ ToSet(Beside(p)) \subseteq P
    BY <1>5, <1>9 DEF Follows
  <2>2. \A k \in 0 .. N : All(reach[k]) \subseteq P
    <3> DEFINE K == {k \in Nat : All(reach[k]) \subseteq P}
    <3>1. 0 \in K
      BY <1>2, <2>1 DEF All
    <3>2. ASSUME NEW k \in 0 .. N - 1, k \in K PROVE k + 1 \in K
      <4>1. k + 1 \in 1 .. N /\ (k + 1) - 1 = k /\ k + 1 \in Nat /\ k \in 0 .. N
        BY <1>3
      <4>2. reach[k + 1] = Spread(T, reach[k]) /\ reach[k] \in Reaches
        BY <1>2, <4>1
      <4>3. All(reach[k]) \subseteq P
        BY <3>2
      <4>4. All(Spread(T, reach[k])) \subseteq P
        BY <4>2, <4>3, <2>1, SettledHoldsAll
      <4> QED BY <4>1, <4>2, <4>4
    <3>3. \A k \in 0 .. N : k \in K
      <4> HIDE DEF K, N
      <4> QED BY <1>3, <3>1, <3>2, Climb
    <3> QED BY <3>3
  <2>3. r.seen \subseteq P
    BY <2>2, <1>3 DEF All
  <2>4. \A b \in r.seen : FreeIn(T, Probe(b)) \/ ~Conflict(TuxBox(Probe(b)), rival)
    BY <2>1, <2>3 DEF Settled
  <2> QED BY <1>2, <2>4
<1> QED BY <1>1, <1>5, <1>7, <1>8, <1>9

(***************************************************************************)
(* Part 4: what the computer player and the teleports do to tuxes.         *)
(***************************************************************************)

\* What the modules keep, as far as their treatment of tuxes and shots needs it.
Kept == \A m \in Keepers : IsFiniteSet(elements[m]) /\ \A e \in elements[m] : e \in Lines /\ e.cmd = m

\* An order of finitely many objects is a sequence of them.
LEMMA OrderIsSequence ==
  ASSUME NEW S, IsFiniteSet(S), NEW order \in SetToSeqs(S)
  PROVE  \E n \in Nat : DOMAIN order = 1 .. n /\ \A i \in 1 .. n : order[i] \in S
<1>1. Cardinality(S) \in Nat
  BY FS_CardinalityType
<1>2. order \in [1 .. Cardinality(S) -> S]
  BY DEF SetToSeqs
<1> QED BY <1>1, <1>2

\* The line of an object has a box.
LEMMA LineHasBox ==
  ASSUME NEW e \in Lines, e.cmd \in Keepers PROVE e.box \in Boxes
BY DEF Lines, Keepers

\* So have the other ends of a teleport.
LEMMA OthersAreBoxes ==
  ASSUME Kept, NEW e, NEW f \in Others(e) PROVE f.box \in Boxes
<1>1. f \in elements["teleport"] /\ "teleport" \in Keepers
  BY DEF Others, Keepers
<1> QED BY <1>1, LineHasBox DEF Kept

\* However many teleports a tux meets, it comes to stand free.
LEMMA TeleportsStand ==
  ASSUME Kept, NEW T0 \in Standing, NEW t \in Tuxes, NEW n \in Nat, NEW order, DOMAIN order = 1 .. n
  PROVE  Teleported(T0, t, order) \subseteq Standing
<1> DEFINE Q == 1 .. n
           B == SUBSET Standing
           Op(R, e) == UNION {MovedBeside(T, t, f) : T \in R, f \in Others(e)}
           Body(it) == [S \in SUBSET Q |-> IF S = {} THEN {T0} ELSE Op(it[S \ {Max(S)}], order[Max(S)])]
           fold == CHOOSE it : it = Body(it)
           g == [q \in Q \X B |-> Op(q[2], order[q[1]])]
<1>1. Teleported(T0, t, order) = fold[Q]
  BY DEF Teleported, FoldLeft, MapThenFoldSet
<1>2. ASSUME NEW R \in B, NEW e PROVE Op(R, e) \in B
  <2>1. \A T \in R, f \in Others(e) : MovedBeside(T, t, f) \subseteq Standing
    BY BesideStands, OthersAreBoxes
  <2> QED BY <2>1
<1>3. {T0} \in B
  OBVIOUS
<1> HIDE DEF B, Op
<1>4. g \in [Q \X B -> B]
  BY <1>2
<1>5. PICK f \in [SUBSET Q -> B] : IsFold(f, n, {T0}, g)
  <2> HIDE DEF g
  <2> QED BY <1>3, <1>4, FoldExists
<1>6. f = Body(f)
  <2>1. ASSUME NEW S \in SUBSET Q, S # {} PROVE f[S] = Op(f[S \ {Max(S)}], order[Max(S)])
    <3>1. f[S] = g[<<Max(S), f[S \ {Max(S)}]>>]
      BY <1>5, <2>1 DEF IsFold
    <3>2. Max(S) \in Q
      BY <2>1, Largest
    <3>3. f[S \ {Max(S)}] \in B
      BY <1>5
    <3> QED BY <3>1, <3>2, <3>3
  <2>2. f[{}] = {T0}
    BY <1>5 DEF IsFold
  <2> QED BY <2>1, <2>2
<1>7. fold = Body(fold)
  <2> HIDE DEF Body
  <2> QED BY <1>6
<1>8. fold[{}] \in B
  BY <1>3, <1>7
<1>9. ASSUME NEW S \in SUBSET Q, S # {}, fold[S \ {Max(S)}] \in B PROVE fold[S] \in B
  <2>1. fold[S] = Op(fold[S \ {Max(S)}], order[Max(S)])
    BY <1>7, <1>9
  <2> QED BY <1>9, <2>1, <1>2
<1>10. fold[Q] \in B
  <2> HIDE DEF fold
  <2> QED BY <1>8, <1>9, FoldStays
<1> QED BY <1>1, <1>10 DEF B

\* The four ways the computer player may aim at b from a.
Aims(a, b) ==
    LET near(c, k) == k > c /\ k < c + AimLimit IN
      << <<b.y < a.y /\ near(a.x, b.x), "up">>,
         <<b.x > a.x /\ near(a.y, b.y), "right">>,
         <<b.x < a.x /\ near(a.y, b.y), "left">>,
         <<b.y > a.y /\ near(a.x, b.x), "down">> >>

\* Turning to the rival, four ways at most, leaves it standing free.
LEMMA TurnsStand ==
  ASSUME NEW T0 \in Standing, NEW t \in Tuxes, NEW u PROVE Turns(T0, t, u) \subseteq Standing
<1> DEFINE aims == Aims(BoxOf(T0[t]), BoxOf(T0[u]))
           Q == 1 .. 4
           B == SUBSET Standing
           Op(R, aim) == IF aim[1] THEN UNION {TuxAction(V, t, aim[2]) : V \in R} ELSE R
           Body(it) == [S \in SUBSET Q |-> IF S = {} THEN {T0} ELSE Op(it[S \ {Max(S)}], aims[Max(S)])]
           fold == CHOOSE it : it = Body(it)
           g == [q \in Q \X B |-> Op(q[2], aims[q[1]])]
<1>0. DOMAIN aims = Q /\ \A i \in Q : aims[i][2] \in Dirs
  BY DEF Aims, Dirs
<1>1. Turns(T0, t, u) = FoldLeft(LAMBDA R, aim : IF aim[1] THEN UNION {TuxAction(V, t, aim[2]) : V \in R} ELSE R, {T0}, aims)
  BY DEF Turns, Aims
<1> HIDE DEF aims
<1>2. FoldLeft(LAMBDA R, aim : IF aim[1] THEN UNION {TuxAction(V, t, aim[2]) : V \in R} ELSE R, {T0}, aims) = fold[Q]
  BY <1>0 DEF FoldLeft, MapThenFoldSet
<1>3. ASSUME NEW R \in B, NEW i \in Q PROVE Op(R, aims[i]) \in B
  <2>1. \A V \in R : TuxAction(V, t, aims[i][2]) \subseteq Standing
    BY <1>0, ActionStands
  <2> QED BY <2>1
<1>4. {T0} \in B /\ 4 \in Nat
  OBVIOUS
<1> HIDE DEF B, Op
<1>5. g \in [Q \X B -> B]
  BY <1>3
<1>6. PICK f \in [SUBSET Q -> B] : IsFold(f, 4, {T0}, g)
  <2> HIDE DEF g
  <2> QED BY <1>4, <1>5, FoldExists
<1>7. f = Body(f)
  <2>1. ASSUME NEW S \in SUBSET Q, S # {} PROVE f[S] = Op(f[S \ {Max(S)}], aims[Max(S)])
    <3>1. f[S] = g[<<Max(S), f[S \ {Max(S)}]>>]
      BY <1>6, <2>1 DEF IsFold
    <3>2. Max(S) \in Q
      BY <1>4, <2>1, Largest
    <3>3. f[S \ {Max(S)}] \in B
      BY <1>6
    <3> QED BY <3>1, <3>2, <3>3
  <2>2. f[{}] = {T0}
    BY <1>6 DEF IsFold
  <2> QED BY <2>1, <2>2
<1>8. fold = Body(fold)
  <2> HIDE DEF Body
  <2> QED BY <1>7
<1>9. fold[{}] \in B
  BY <1>4, <1>8
<1>10. ASSUME NEW S \in SUBSET Q, S # {}, fold[S \ {Max(S)}] \in B PROVE fold[S] \in B
  <2>1. fold[S] = Op(fold[S \ {Max(S)}], aims[Max(S)])
    BY <1>8, <1>10
  <2>2. Max(S) \in Q
    BY <1>4, <1>10, Largest
  <2> QED BY <1>10, <2>1, <2>2, <1>3
<1>11. fold[Q] \in B
  <2> HIDE DEF fold
  <2> QED BY <1>4, <1>9, <1>10, FoldStays
<1> QED BY <1>1, <1>2, <1>11 DEF B

\* So does the step that the search has found.
LEMMA PursuesStand ==
  ASSUME tux \in Standing, NEW T \in Standing, NEW t \in Tuxes, NEW u
  PROVE  Pursues(T, t, u) \subseteq Standing
<1> DEFINE s == SearchIn(T, Place(t), BoxOf(T[u]))
<1>1. Pursues(T, t, u) = IF s.end = "found" THEN TuxAction(T, t, s.route) ELSE {T}
  BY DEF Pursues, SearchIn, FreeIn
<1>2. Place(t) \in Spots
  BY OneIsTux, BoxIsPlace DEF Place, Spots
<1>3. s \in Sound
  BY <1>2, SearchFindsTheWay
<1> HIDE DEF s
<1>4. s.end = "found" => s.route \in Dirs
  BY <1>3 DEF Sound
<1> QED BY <1>1, <1>4, ActionStands

(***************************************************************************)
(* Part 5: what the modules do to a shot.                                  *)
(***************************************************************************)

\* A shot that is past a box does not meet it.
LEMMA PastIsClear ==
  ASSUME NEW r \in ShotRecord, NEW box \in Boxes, Past(r, box) PROVE ~Conflict(ShotBox(r), box)
<1>1. r.x \in Int /\ r.y \in Int /\ r.w \in Int /\ r.h \in Int
  BY DEF ShotRecord
<1>2. box.x \in Int /\ box.y \in Int /\ box.w \in Int /\ box.h \in Int
  BY DEF Boxes
<1> QED BY <1>1, <1>2 DEF Past, Conflict, ShotBox, Box

\* The parts of a shot.
LEMMA LeavingIsShot ==
  ASSUME NEW r \in Leaving
  PROVE  /\ r \in ShotRecord /\ r.x \in Int /\ r.y \in Int /\ r.w \in Int /\ r.h \in Int
         /\ r.px \in Int /\ r.py \in Int /\ r.position \in Dirs /\ r.exit \subseteq Boxes
         /\ \A box \in r.exit : Past(r, box)
BY DEF Leaving, ShotRecord

\* No shot has no exit.
LEMMA NoShotLeaves == NoShot \in Leaving
<1>1. (CHOOSE t \in Tuxes : TRUE) \in Tuxes
  BY CourseAssumption
<1>2. NoShot \in ShotRecord
  BY <1>1 DEF NoShot, ShotRecord, Dirs
<1>3. NoShot.exit = {}
  BY DEF NoShot
<1> QED BY <1>2, <1>3 DEF Leaving

\* How fast a shot flies.
Speed(r) ==
    LET larger(a, b) == IF a > b THEN a ELSE b
        abs(a) == IF a < 0 THEN -a ELSE a IN larger(abs(r.px), abs(r.py))

\* A shot that is turned flies the way it is turned to.
LEMMA TransformedIsShot ==
  ASSUME NEW r \in ShotRecord, NEW n \in Dirs
  PROVE  LET q == Transformed(r, n) IN
           /\ q \in ShotRecord
           /\ n = "left" => q.px <= 0
           /\ n = "right" => q.px >= 0
           /\ n = "up" => q.py <= 0
           /\ n = "down" => q.py >= 0
<1> DEFINE a == Speed(r) * Heading(n).x
           b == Speed(r) * Heading(n).y
           turned == [r EXCEPT !.position = n, !.px = a, !.py = b]
           w == IF n \in Vertical THEN 1 ELSE LaserLength
           h == IF n \in Vertical THEN LaserLength ELSE 1
           long == [turned EXCEPT !.w = w, !.h = h]
<1>1. Speed(r) \in Int /\ Speed(r) >= 0
  BY DEF Speed, ShotRecord
<1> HIDE DEF Speed
<1>2. /\ a \in Int /\ b \in Int
      /\ n = "left" => a <= 0
      /\ n = "right" => a >= 0
      /\ n = "up" => b <= 0
      /\ n = "down" => b >= 0
  <2>1. CASE n = "up"
    BY <1>1, <2>1 DEF Heading
  <2>2. CASE n = "down"
    BY <1>1, <2>2 DEF Heading
  <2>3. CASE n = "left"
    BY <1>1, <2>3 DEF Heading
  <2>4. CASE n = "right"
    BY <1>1, <2>4 DEF Heading
  <2> QED BY <2>1, <2>2, <2>3, <2>4 DEF Dirs
<1>3. w \in Int /\ h \in Int
  BY CourseAssumption
<1>4. Transformed(r, n) = IF r.gun # "laser" THEN turned ELSE long
  BY DEF Transformed, Speed
<1> HIDE DEF a, b, w, h
<1>5. turned \in ShotRecord /\ turned.px = a /\ turned.py = b
  BY <1>2 DEF ShotRecord
<1> HIDE DEF turned
<1>6. long \in ShotRecord /\ long.px = a /\ long.py = b
  BY <1>3, <1>5 DEF ShotRecord
<1> HIDE DEF long
<1> QED BY <1>2, <1>4, <1>5, <1>6

\* A shot that comes out of a box is past the side it comes out of, by its size after the turn.
LEMMA MovedShotLeaves ==
  ASSUME NEW r \in ShotRecord, NEW n \in Dirs, NEW e, e.box \in Boxes, NEW far, far.box \in Boxes
  PROVE  MoveShot(r, n, e, far) \in Leaving
<1> DEFINE s == Transformed(r, n)
           box == far.box
           k == Offset(r, e)
           x == CASE n \in Vertical -> box.x + k
                  [] n = "left" -> box.x - (s.w + ShotGap)
                  [] n = "right" -> box.x + box.w + ShotGap
           y == CASE n \notin Vertical -> box.y + k
                  [] n = "up" -> box.y - (s.h + ShotGap)
                  [] n = "down" -> box.y + box.h + ShotGap
           q == [s EXCEPT !.x = x, !.y = y, !.exit = {box}]
<1>1. /\ s \in ShotRecord
      /\ n = "left" => s.px <= 0
      /\ n = "right" => s.px >= 0
      /\ n = "up" => s.py <= 0
      /\ n = "down" => s.py >= 0
  BY TransformedIsShot
<1>2. k \in Int
  BY DEF Offset, ShotRecord, Boxes
<1>3. MoveShot(r, n, e, far) = q
  BY DEF MoveShot, Beyond
<1> HIDE DEF s, k
<1>4. box \in Boxes /\ box.x \in Int /\ box.y \in Int /\ box.w \in Int /\ box.h \in Int /\ s.w \in Int /\ s.h \in Int /\ ShotGap \in Nat
  BY <1>1, CourseAssumption DEF Boxes, ShotRecord
<1>5. /\ x \in Int /\ y \in Int
      /\ n = "left" => x + s.w <= box.x
      /\ n = "right" => box.x + box.w <= x
      /\ n = "up" => y + s.h <= box.y
      /\ n = "down" => box.y + box.h <= y
  <2> HIDE DEF box
  <2>1. CASE n = "up"
    BY <1>2, <1>4, <2>1 DEF Vertical
  <2>2. CASE n = "down"
    BY <1>2, <1>4, <2>2 DEF Vertical
  <2>3. CASE n = "left"
    BY <1>2, <1>4, <2>3 DEF Vertical
  <2>4. CASE n = "right"
    BY <1>2, <1>4, <2>4 DEF Vertical
  <2> QED BY <2>1, <2>2, <2>3, <2>4 DEF Dirs
<1> HIDE DEF x, y, box
<1>6. /\ q \in ShotRecord /\ q.x = x /\ q.y = y /\ q.exit = {box}
      /\ q.w = s.w /\ q.h = s.h /\ q.px = s.px /\ q.py = s.py
  BY <1>1, <1>4, <1>5 DEF ShotRecord
<1> HIDE DEF q
<1>7. Past(q, box)
  BY <1>1, <1>5, <1>6 DEF Past, Dirs
<1> QED BY <1>3, <1>6, <1>7 DEF Leaving

\* A shot that bounces has no exit any more, and one that is stopped is to go.
LEMMA StoppedLeaves ==
  ASSUME NEW r \in Leaving PROVE Stopped(r) \subseteq Leaving
<1>1. r \in ShotRecord
  BY LeavingIsShot
<1>2. ASSUME NEW a \in {1, -1, 0}, NEW b \in {1, -1, 0}
      PROVE  Thrown(r, a, b) \in Leaving
  <2> DEFINE q == [r EXCEPT !.px = a, !.py = b, !.exit = {}]
  <2>1. a \in Int /\ b \in Int /\ {} \in SUBSET Boxes
    OBVIOUS
  <2>2. q \in ShotRecord
    BY <1>1, <2>1 DEF ShotRecord
  <2>3. q.exit = {}
    BY <1>1 DEF ShotRecord
  <2> HIDE DEF q
  <2>4. q \in Leaving
    BY <2>2, <2>3 DEF Leaving
  <2> QED BY <2>4 DEF q, Thrown
<1>3. Bounced(r) \subseteq Leaving
  <2>1. SUFFICES ASSUME NEW q \in Bounced(r) PROVE q \in Leaving
    OBVIOUS
  <2>3. PICK a \in {1, -1, 0} \ {r.px}, b \in {1, -1, 0} \ {r.py} : q = Thrown(r, a, b)
    BY DEF Bounced
  <2>4. a \in {1, -1, 0} /\ b \in {1, -1, 0}
    OBVIOUS
  <2> QED BY <2>3, <2>4, <1>2
<1>4. [r EXCEPT !.del = TRUE] \in Leaving
  <2> DEFINE q == [r EXCEPT !.del = TRUE]
  <2>1. /\ q \in ShotRecord /\ q.x = r.x /\ q.y = r.y /\ q.w = r.w /\ q.h = r.h
        /\ q.px = r.px /\ q.py = r.py /\ q.exit = r.exit
    <3>1. r.del \in BOOLEAN /\ TRUE \in BOOLEAN
      BY <1>1 DEF ShotRecord
    <3>2. q \in ShotRecord
      BY <1>1, <3>1 DEF ShotRecord
    <3>3. q.x = r.x /\ q.y = r.y /\ q.w = r.w /\ q.h = r.h /\ q.px = r.px /\ q.py = r.py /\ q.exit = r.exit
      BY <1>1 DEF ShotRecord
    <3> QED BY <3>2, <3>3
  <2> HIDE DEF q
  <2>2. \A box \in q.exit : Past(q, box)
    BY <2>1, LeavingIsShot DEF Past
  <2> QED BY <2>1, <2>2 DEF Leaving, q
<1> QED BY <1>3, <1>4 DEF Stopped

\* The three modules, one object.
LEMMA TreatLeaves ==
  ASSUME Kept, NEW m \in Keepers, NEW e \in elements[m], NEW r \in Leaving
  PROVE  Treat(e, r) \subseteq Leaving
<1>1. r \in ShotRecord /\ r.position \in Dirs
  BY LeavingIsShot
<1>2. e \in Lines /\ e.cmd = m /\ e.box \in Boxes
  BY LineHasBox DEF Kept
<1>3. CASE m = "wall"
  BY <1>2, <1>3, StoppedLeaves DEF Treat
<1>4. ByPipe(e, r) \subseteq Leaving
  <2>1. ASSUME NEW f \in Outlets(e) PROVE MoveShot(r, f.position, e, f) \in Leaving
    <3>1. f \in Lines /\ f.cmd = "pipe"
      BY DEF Outlets, Kept, Keepers
    <3>2. f.position \in Dirs
      BY <3>1 DEF Lines
    <3>3. f.box \in Boxes
      BY <3>1, LineHasBox DEF Keepers
    <3> QED BY <3>2, <3>3, <1>1, <1>2, MovedShotLeaves
  <2> QED BY <2>1, StoppedLeaves DEF ByPipe
<1>5. ByTeleport(e, r) \subseteq Leaving
  BY <1>1, <1>2, OthersAreBoxes, MovedShotLeaves DEF ByTeleport
<1> QED BY <1>2, <1>3, <1>4, <1>5 DEF Treat, Keepers

\* The flight does not lead back.
LEMMA FlownLeaves ==
  ASSUME NEW r \in Leaving PROVE Flown(r) \in Leaving
<1> DEFINE q == [r EXCEPT !.x = @ + r.px, !.y = @ + r.py]
<1>1. /\ r \in ShotRecord /\ r.x \in Int /\ r.y \in Int /\ r.w \in Int /\ r.h \in Int
      /\ r.px \in Int /\ r.py \in Int /\ r.exit \subseteq Boxes
      /\ \A box \in r.exit : Past(r, box)
  BY LeavingIsShot
<1>2. /\ q \in ShotRecord /\ q.x = r.x + r.px /\ q.y = r.y + r.py /\ q.w = r.w /\ q.h = r.h
      /\ q.px = r.px /\ q.py = r.py /\ q.exit = r.exit
  <2>1. r.x + r.px \in Int /\ r.y + r.py \in Int
    BY <1>1
  <2> QED BY <1>1, <2>1 DEF ShotRecord
<1> HIDE DEF q
<1>3. ASSUME NEW box \in q.exit PROVE Past(q, box)
  <2>1. box.x \in Int /\ box.y \in Int /\ box.w \in Int /\ box.h \in Int /\ Past(r, box)
    BY <1>1, <1>2 DEF Boxes
  <2> QED BY <2>1, <1>1, <1>2 DEF Past
<1>4. q \in Leaving
  BY <1>2, <1>3 DEF Leaving
<1> QED BY <1>4, NoShotLeaves DEF Flown, q

\* All objects a shot has met, in any order.
LEMMA TreatedLeaves ==
  ASSUME Kept, NEW m \in Keepers, NEW r0 \in Leaving, NEW n \in Nat, NEW order,
         DOMAIN order = 1 .. n, \A i \in 1 .. n : order[i] \in elements[m]
  PROVE  Treated(r0, order) \subseteq Leaving
<1> DEFINE Q == 1 .. n
           B == SUBSET Leaving
           Op(R, e) == UNION {Treat(e, q) : q \in R}
           Body(it) == [S \in SUBSET Q |-> IF S = {} THEN {r0} ELSE Op(it[S \ {Max(S)}], order[Max(S)])]
           fold == CHOOSE it : it = Body(it)
           g == [q \in Q \X B |-> Op(q[2], order[q[1]])]
<1>1. Treated(r0, order) = fold[Q]
  BY DEF Treated, FoldLeft, MapThenFoldSet
<1>2. ASSUME NEW R \in B, NEW i \in Q PROVE Op(R, order[i]) \in B
  <2>1. \A q \in R : Treat(order[i], q) \subseteq Leaving
    BY TreatLeaves
  <2> QED BY <2>1
<1>3. {r0} \in B
  OBVIOUS
<1> HIDE DEF B, Op
<1>4. g \in [Q \X B -> B]
  BY <1>2
<1>5. PICK f \in [SUBSET Q -> B] : IsFold(f, n, {r0}, g)
  <2> HIDE DEF g
  <2> QED BY <1>3, <1>4, FoldExists
<1>6. f = Body(f)
  <2>1. ASSUME NEW S \in SUBSET Q, S # {} PROVE f[S] = Op(f[S \ {Max(S)}], order[Max(S)])
    <3>1. f[S] = g[<<Max(S), f[S \ {Max(S)}]>>]
      BY <1>5, <2>1 DEF IsFold
    <3>2. Max(S) \in Q
      BY <2>1, Largest
    <3>3. f[S \ {Max(S)}] \in B
      BY <1>5
    <3> QED BY <3>1, <3>2, <3>3
  <2>2. f[{}] = {r0}
    BY <1>5 DEF IsFold
  <2> QED BY <2>1, <2>2
<1>7. fold = Body(fold)
  <2> HIDE DEF Body
  <2> QED BY <1>6
<1>8. fold[{}] \in B
  BY <1>3, <1>7
<1>9. ASSUME NEW S \in SUBSET Q, S # {}, fold[S \ {Max(S)}] \in B PROVE fold[S] \in B
  <2>1. fold[S] = Op(fold[S \ {Max(S)}], order[Max(S)])
    BY <1>7, <1>9
  <2>2. Max(S) \in Q
    BY <1>9, Largest
  <2> QED BY <1>9, <2>1, <2>2, <1>2
<1>10. fold[Q] \in B
  <2> HIDE DEF fold
  <2> QED BY <1>8, <1>9, FoldStays
<1> QED BY <1>1, <1>10 DEF B

\* One module.
LEMMA ModuleEventLeaves ==
  ASSUME Kept, NEW m, NEW r \in Leaving PROVE ModuleEvent(m, r) \subseteq Leaving
<1>1. CASE m \notin Keepers \/ r.gun = "none"
  BY <1>1 DEF ModuleEvent
<1>2. ASSUME m \in Keepers, r.gun # "none" PROVE ModuleEvent(m, r) \subseteq Leaving
  <2> DEFINE met == {e \in elements[m] : Conflict(ShotBox(r), e.box)}
             treated == UNION {Treated(r, order) : order \in SetToSeqs(met)}
  <2>1. ModuleEvent(m, r) = {IF q.del THEN NoShot ELSE q : q \in treated}
    BY <1>2 DEF ModuleEvent, Treated
  <2>2. IsFiniteSet(met)
    BY <1>2, FS_Subset DEF Kept
  <2>3. ASSUME NEW order \in SetToSeqs(met) PROVE Treated(r, order) \subseteq Leaving
    <3> HIDE DEF met
    <3>1. PICK n \in Nat : DOMAIN order = 1 .. n /\ \A i \in 1 .. n : order[i] \in met
      BY <2>2, OrderIsSequence
    <3>2. \A i \in 1 .. n : order[i] \in elements[m]
      BY <3>1 DEF met
    <3> QED BY <3>1, <3>2, <1>2, TreatedLeaves
  <2>4. treated \subseteq Leaving
    BY <2>3
  <2> HIDE DEF treated
  <2> QED BY <2>1, <2>4, NoShotLeaves
<1> QED BY <1>1, <1>2

\* All modules that are loaded, in the order of their list.
LEMMA RoundLeaves ==
  ASSUME Kept, loaded \in Seq(Modules), NEW r0 \in Leaving PROVE RoundOf(r0) \subseteq Leaving
<1> DEFINE n == Len(loaded)
           Q == 1 .. n
           B == SUBSET Leaving
           Op(R, m) == UNION {ModuleEvent(m, q) : q \in R}
           Body(it) == [S \in SUBSET Q |-> IF S = {} THEN {r0} ELSE Op(it[S \ {Max(S)}], loaded[Max(S)])]
           fold == CHOOSE it : it = Body(it)
           g == [q \in Q \X B |-> Op(q[2], loaded[q[1]])]
<1>0. n \in Nat /\ DOMAIN loaded = 1 .. n
  OBVIOUS
<1> HIDE DEF n
<1>1. RoundOf(r0) = fold[Q]
  BY <1>0 DEF RoundOf, FoldLeft, MapThenFoldSet
<1>2. ASSUME NEW R \in B, NEW m PROVE Op(R, m) \in B
  BY ModuleEventLeaves
<1>3. {r0} \in B
  OBVIOUS
<1> HIDE DEF B, Op
<1>4. g \in [Q \X B -> B]
  BY <1>2
<1>5. PICK f \in [SUBSET Q -> B] : IsFold(f, n, {r0}, g)
  <2> HIDE DEF g
  <2> QED BY <1>0, <1>3, <1>4, FoldExists
<1>6. f = Body(f)
  <2>1. ASSUME NEW S \in SUBSET Q, S # {} PROVE f[S] = Op(f[S \ {Max(S)}], loaded[Max(S)])
    <3>1. f[S] = g[<<Max(S), f[S \ {Max(S)}]>>]
      BY <1>5, <2>1 DEF IsFold
    <3>2. Max(S) \in Q
      BY <1>0, <2>1, Largest
    <3>3. f[S \ {Max(S)}] \in B
      BY <1>5
    <3> QED BY <3>1, <3>2, <3>3
  <2>2. f[{}] = {r0}
    BY <1>5 DEF IsFold
  <2> QED BY <2>1, <2>2
<1>7. fold = Body(fold)
  <2> HIDE DEF Body
  <2> QED BY <1>6
<1>8. fold[{}] \in B
  BY <1>3, <1>7
<1>9. ASSUME NEW S \in SUBSET Q, S # {}, fold[S \ {Max(S)}] \in B PROVE fold[S] \in B
  <2>1. fold[S] = Op(fold[S \ {Max(S)}], loaded[Max(S)])
    BY <1>7, <1>9
  <2> QED BY <1>9, <2>1, <1>2
<1>10. fold[Q] \in B
  <2> HIDE DEF fold
  <2> QED BY <1>0, <1>8, <1>9, FoldStays
<1> QED BY <1>1, <1>10 DEF B

(***************************************************************************)
(* Part 6: loading.  The invariant also says that a module is in the list  *)
(* exactly if a line that was read loads it.                               *)
(***************************************************************************)

\* A list of modules holds each once, and what depends on "move" after it.
WellOrdered(q) ==
    /\ q \in Seq(Modules)
    /\ \A i, j \in DOMAIN q : q[i] = q[j] => i = j
    /\ \A j \in DOMAIN q : q[j] \in {"pipe", "teleport"} => \E i \in 1 .. j - 1 : q[i] = "move"

\* r is q with m at its end.
Longer(q, m, r) ==
    /\ r \in Seq(Modules) /\ Len(r) = Len(q) + 1 /\ r[Len(q) + 1] = m
    /\ \A i \in 1 .. Len(q) : r[i] = q[i]

\* A module that is not in the list may be added if it does not miss "move".
LEMMA LongerIsWellOrdered ==
  ASSUME NEW q, NEW m, NEW r, WellOrdered(q), m \notin ToSet(q), Longer(q, m, r),
         m \in {"pipe", "teleport"} => "move" \in ToSet(q)
  PROVE  WellOrdered(r) /\ ToSet(r) = ToSet(q) \cup {m}
<1>1. q \in Seq(Modules) /\ r \in Seq(Modules) /\ Len(q) \in Nat /\ DOMAIN q = 1 .. Len(q) /\ DOMAIN r = 1 .. Len(q) + 1
  BY DEF WellOrdered, Longer
<1>2. \A i \in 1 .. Len(q) : r[i] = q[i] /\ r[i] # m
  BY <1>1 DEF Longer, ToSet
<1>3. r[Len(q) + 1] = m
  BY DEF Longer
<1>4. \A i \in 1 .. Len(q) + 1 : i \in 1 .. Len(q) \/ i = Len(q) + 1
  BY <1>1
<1>5. \A i, j \in DOMAIN r : r[i] = r[j] => i = j
  BY <1>1, <1>2, <1>3, <1>4 DEF WellOrdered
<1>6. ASSUME NEW j \in DOMAIN r, r[j] \in {"pipe", "teleport"} PROVE \E i \in 1 .. j - 1 : r[i] = "move"
  <2>1. CASE j \in 1 .. Len(q)
    <3>1. PICK i \in 1 .. j - 1 : q[i] = "move"
      BY <1>1, <1>2, <1>6, <2>1 DEF WellOrdered
    <3>2. i \in 1 .. Len(q)
      BY <1>1, <2>1
    <3> QED BY <3>1, <3>2, <1>2
  <2>2. CASE j = Len(q) + 1
    <3>1. PICK i \in 1 .. Len(q) : q[i] = "move"
      BY <1>1, <1>3, <1>6, <2>2 DEF ToSet
    <3>2. i \in 1 .. j - 1
      BY <1>1, <2>2
    <3> QED BY <3>1, <3>2, <1>2
  <2> QED BY <1>1, <1>4, <2>1, <2>2
<1>7. ToSet(r) = ToSet(q) \cup {m}
  <2>1. ToSet(r) \subseteq ToSet(q) \cup {m}
    BY <1>1, <1>2, <1>3, <1>4 DEF ToSet
  <2>2. ToSet(q) \subseteq ToSet(r)
    <3>1. \A i \in 1 .. Len(q) : i \in 1 .. Len(q) + 1
      BY <1>1
    <3> QED BY <1>1, <1>2, <3>1 DEF ToSet
  <2>3. m \in ToSet(r)
    <3>1. Len(q) + 1 \in 1 .. Len(q) + 1
      BY <1>1
    <3> QED BY <1>1, <1>3, <3>1 DEF ToSet
  <2> QED BY <2>1, <2>2, <2>3
<1> QED BY <1>1, <1>5, <1>6, <1>7 DEF WellOrdered

\* What appending one does.
LEMMA OneMore ==
  ASSUME NEW q \in Seq(Modules), NEW m \in Modules
  PROVE  Longer(q, m, q \o <<m>>)
<1>1. <<m>> \in Seq(Modules) /\ Len(<<m>>) = 1 /\ <<m>>[1] = m
  OBVIOUS
<1> DEFINE s == <<m>>
<1> HIDE DEF s
<1>2. /\ q \o s \in Seq(Modules) /\ Len(q \o s) = Len(q) + 1
      /\ \A i \in 1 .. Len(q) + 1 : (q \o s)[i] = IF i <= Len(q) THEN q[i] ELSE s[i - Len(q)]
  BY <1>1, ConcatProperties DEF s
<1>3. Len(q) \in Nat
  OBVIOUS
<1>4. (q \o s)[Len(q) + 1] = m
  <2>1. Len(q) + 1 \in 1 .. Len(q) + 1 /\ ~(Len(q) + 1 <= Len(q)) /\ (Len(q) + 1) - Len(q) = 1
    BY <1>3
  <2> QED BY <2>1, <1>1, <1>2 DEF s
<1>5. \A i \in 1 .. Len(q) : (q \o s)[i] = q[i]
  BY <1>2, <1>3
<1> QED BY <1>2, <1>4, <1>5 DEF Longer, s

\* A module with what it depends on.
LEMMA WithDepIsWellOrdered ==
  ASSUME NEW q, NEW m \in Modules, WellOrdered(q), m \notin ToSet(q)
  PROVE  LET r == q \o WithDep(m, q) IN
           /\ WellOrdered(r)
           /\ ToSet(q) \subseteq ToSet(r) /\ m \in ToSet(r) /\ ToSet(r) \subseteq ToSet(q) \cup {m, "move"}
<1>1. q \in Seq(Modules)
  BY DEF WellOrdered
<1>2. CASE m \in {"pipe", "teleport"} /\ "move" \notin ToSet(q)
  <2>1. "move" \in Modules /\ m # "move"
    BY <1>2 DEF Modules
  <2> DEFINE r1 == q \o <<"move">>
             r2 == r1 \o <<m>>
  <2>2. Longer(q, "move", r1)
    BY <1>1, <2>1, OneMore
  <2>3. WellOrdered(r1) /\ ToSet(r1) = ToSet(q) \cup {"move"}
    BY <1>2, <2>2, LongerIsWellOrdered
  <2> HIDE DEF r1
  <2>4. Longer(r1, m, r2)
    BY <2>3, OneMore DEF WellOrdered
  <2> HIDE DEF r2
  <2>5. WellOrdered(r2) /\ ToSet(r2) = ToSet(r1) \cup {m}
    BY <1>2, <2>1, <2>3, <2>4, LongerIsWellOrdered
  <2>6. r2 = q \o <<"move", m>>
    <3>1. <<"move">> \in Seq(Modules) /\ <<m>> \in Seq(Modules)
      BY <2>1
    <3>2. r2 = q \o (<<"move">> \o <<m>>)
      BY <1>1, <3>1, ConcatAssociative DEF r1, r2
    <3>3. <<"move">> \o <<m>> = <<"move", m>>
      <4> DEFINE a == <<"move">>
                 b == <<m>>
                 c == <<"move", m>>
      <4>1. Len(a) = 1 /\ Len(b) = 1 /\ a[1] = "move" /\ b[1] = m
        OBVIOUS
      <4>2. c \in Seq(Modules) /\ Len(c) = 2 /\ c[1] = "move" /\ c[2] = m
        BY <2>1
      <4>3. a \in Seq(Modules) /\ b \in Seq(Modules)
        BY <3>1
      <4> HIDE DEF a, b, c
      <4>4. /\ a \o b \in Seq(Modules) /\ Len(a \o b) = Len(a) + Len(b)
            /\ \A i \in 1 .. Len(a) + Len(b) : (a \o b)[i] = IF i <= Len(a) THEN a[i] ELSE b[i - Len(a)]
        BY <4>3, ConcatProperties
      <4>5. Len(a \o b) = 2 /\ (a \o b)[1] = "move" /\ (a \o b)[2] = m
        BY <4>1, <4>4
      <4>6. a \o b = c
        BY <4>2, <4>4, <4>5, SeqEqual
      <4> QED BY <4>6 DEF a, b, c
    <3> QED BY <3>2, <3>3
  <2>7. WithDep(m, q) = <<"move", m>>
    BY <1>2 DEF WithDep
  <2> QED BY <2>3, <2>5, <2>6, <2>7
<1>3. CASE ~(m \in {"pipe", "teleport"} /\ "move" \notin ToSet(q))
  <2>1. WithDep(m, q) = <<m>>
    BY <1>3 DEF WithDep
  <2>2. Longer(q, m, q \o <<m>>)
    BY <1>1, OneMore
  <2>3. WellOrdered(q \o <<m>>) /\ ToSet(q \o <<m>>) = ToSet(q) \cup {m}
    BY <1>3, <2>2, LongerIsWellOrdered
  <2> QED BY <2>1, <2>3
<1> QED BY <1>2, <1>3

\* The list and the functions fit together.
Shared == WellOrdered(loaded) /\ shared \subseteq Moves /\ (IsLoaded("move") => Moves \subseteq shared)

\* Loading a module loads no other of the three.
LEMMA ModuleLoadAdds ==
  ASSUME Shared, NEW m, ModuleLoad(m)
  PROVE  /\ Shared'
         /\ \A k \in Keepers : IsLoaded(k)' <=> (IsLoaded(k) \/ (k = m))
<1>1. WellOrdered(loaded')
  BY WithDepIsWellOrdered DEF Shared, ModuleLoad, IsLoaded
<1>2. \A k \in Keepers : k \in ToSet(loaded') <=> (k \in ToSet(loaded) \/ (k = m))
  <2>1. Keepers \subseteq Modules /\ "move" \notin Keepers
    BY DEF Keepers, Modules
  <2>2. CASE IsLoaded(m) \/ m \notin Modules
    BY <2>1, <2>2 DEF ModuleLoad, IsLoaded
  <2>3. CASE ~(IsLoaded(m) \/ m \notin Modules)
    <3>1. loaded' = loaded \o WithDep(m, loaded)
      BY <2>3 DEF ModuleLoad
    <3> QED BY <2>1, <2>3, <3>1, WithDepIsWellOrdered DEF Shared, IsLoaded
  <2> QED BY <2>2, <2>3
<1>3. shared' = IF "move" \in ToSet(loaded') THEN Moves ELSE shared
  BY DEF ModuleLoad
<1> QED BY <1>1, <1>2, <1>3 DEF Shared, IsLoaded

\* The lines that load m, and those that bring an object of m to a module that is there.
LoadOf(m) == {i \in 1 .. line : file[i].cmd = "loadModule" /\ file[i].file = m}
LinesOf(m) == {i \in 1 .. line : file[i].cmd = m /\ file[i].whole /\ \E j \in LoadOf(m) : j < i}

\* The modules and their objects are those of the lines that were read.
Listed ==
    /\ phase = "menu" => file = <<>> /\ line = 0 /\ loaded = <<>>
    /\ phase \in {"menu", "load", "play"} => \A m \in Keepers :
         /\ IsLoaded(m) <=> LoadOf(m) # {}
         /\ elements[m] = {file[i] : i \in LinesOf(m)}

\* The inductive invariant of loading.
Loading ==
    /\ phase \in Phases /\ file \in Seq(Lines) /\ line \in 0 .. Len(file) /\ current \in BOOLEAN
    /\ DOMAIN elements = Keepers /\ Kept /\ Shared /\ Listed

\* This says what LoadsInOrder does.
LEMMA LoadingMeansInOrder == ASSUME Loading PROVE LoadsInOrder
<1>1. \A m \in Keepers : phase \in {"menu", "load", "play"} => elements[m] = {file[i] : i \in LinesOf(m)}
  BY DEF Loading, Listed
<1>2. WellOrdered(loaded) /\ (IsLoaded("move") => Moves \subseteq shared)
  BY DEF Loading, Shared
<1>3. \A j \in DOMAIN loaded : loaded[j] \in {"pipe", "teleport"} => Moves \subseteq shared /\ \E i \in 1 .. j - 1 : loaded[i] = "move"
  <2>1. SUFFICES ASSUME NEW j \in DOMAIN loaded, loaded[j] \in {"pipe", "teleport"}
                 PROVE  Moves \subseteq shared /\ \E i \in 1 .. j - 1 : loaded[i] = "move"
    OBVIOUS
  <2>2. PICK i \in 1 .. j - 1 : loaded[i] = "move"
    BY <1>2, <2>1 DEF WellOrdered
  <2>3. i \in DOMAIN loaded
    BY <1>2 DEF WellOrdered
  <2>4. IsLoaded("move")
    BY <2>2, <2>3 DEF IsLoaded, ToSet
  <2> QED BY <1>2, <2>2, <2>4
<1> QED BY <1>1, <1>2, <1>3 DEF LoadsInOrder, WellOrdered, LinesOf, LoadOf

\* One more line is read.
LEMMA OneMoreLine ==
  ASSUME Loading, line < Len(file), line' = line + 1, file' = file, NEW m \in Keepers
  PROVE  LET l == file[line + 1] IN
           /\ l \in Lines /\ line' \in 0 .. Len(file')
           /\ LoadOf(m)' = LoadOf(m) \cup {i \in {line + 1} : l.cmd = "loadModule" /\ l.file = m}
           /\ {file'[i] : i \in LinesOf(m)'} =
                {file[i] : i \in LinesOf(m)} \cup {k \in {l} : l.cmd = m /\ l.whole /\ LoadOf(m) # {}}
<1> DEFINE l == file[line + 1]
<1>1. line \in Nat /\ file \in Seq(Lines) /\ Len(file) \in Nat /\ line + 1 \in 1 .. Len(file)
  BY DEF Loading
<1>2. 1 .. line + 1 = (1 .. line) \cup {line + 1} /\ \A j \in 1 .. line : j < line + 1 /\ ~(line + 1 < j)
  BY <1>1
<1>3. LoadOf(m)' = LoadOf(m) \cup {i \in {line + 1} : l.cmd = "loadModule" /\ l.file = m}
  BY <1>2 DEF LoadOf
<1>4. l.cmd = m => l.cmd # "loadModule"
  BY DEF Keepers
<1>5. LinesOf(m)' = LinesOf(m) \cup {i \in {line + 1} : l.cmd = m /\ l.whole /\ LoadOf(m) # {}}
  <2>1. \A i \in 1 .. line : (\E j \in LoadOf(m)' : j < i) <=> (\E j \in LoadOf(m) : j < i)
    BY <1>2, <1>3
  <2>2. l.cmd = m => ((\E j \in LoadOf(m)' : j < line + 1) <=> LoadOf(m) # {})
    <3>1. LoadOf(m) \subseteq 1 .. line
      BY DEF LoadOf
    <3>2. l.cmd = m => LoadOf(m)' = LoadOf(m)
      BY <1>3, <1>4
    <3> QED BY <1>2, <3>1, <3>2
  <2>3. \A i : i \in LinesOf(m)' <=> i \in 1 .. line + 1 /\ file[i].cmd = m /\ file[i].whole /\ \E j \in LoadOf(m)' : j < i
    BY DEF LinesOf
  <2>4. \A i : i \in LinesOf(m) <=> i \in 1 .. line /\ file[i].cmd = m /\ file[i].whole /\ \E j \in LoadOf(m) : j < i
    BY DEF LinesOf
  <2>5. line + 1 \notin 1 .. line
    BY <1>1
  <2>6. ASSUME NEW i PROVE i \in LinesOf(m)' <=> i \in LinesOf(m) \cup {k \in {line + 1} : l.cmd = m /\ l.whole /\ LoadOf(m) # {}}
    <3>1. CASE i \in 1 .. line
      BY <1>2, <2>1, <2>3, <2>4, <2>5, <3>1
    <3>2. CASE i = line + 1
      BY <1>2, <2>2, <2>3, <2>4, <2>5, <3>2
    <3>3. CASE i \notin 1 .. line /\ i # line + 1
      BY <1>2, <2>3, <2>4, <3>3
    <3> QED BY <3>1, <3>2, <3>3
  <2> QED BY <2>6
<1>6. {file'[i] : i \in LinesOf(m)'} = {file[i] : i \in LinesOf(m)} \cup {k \in {l} : l.cmd = m /\ l.whole /\ LoadOf(m) # {}}
  <2> DEFINE more == l.cmd = m /\ l.whole /\ LoadOf(m) # {}
  <2>1. CASE more
    <3>1. LinesOf(m)' = LinesOf(m) \cup {line + 1}
      BY <1>5, <2>1
    <3> QED BY <3>1, <2>1
  <2>2. CASE ~more
    <3>1. LinesOf(m)' = LinesOf(m)
      BY <1>5, <2>2
    <3> QED BY <3>1, <2>2
  <2> QED BY <2>1, <2>2
<1> QED BY <1>1, <1>3, <1>6

\* Reading a line keeps it, whatever the line says.
LEMMA ReadLineLoads ==
  ASSUME Loading, ReadLine PROVE Loading'
<1> DEFINE l == file[line + 1]
<1>1. /\ phase = "load" /\ line < Len(file) /\ line' = line + 1 /\ file' = file
      /\ AddsElement(l) \/ IgnoresLine(l) \/ MissesArena(l) \/ ReadsArena(l) \/ LoadsModule(l)
  BY DEF ReadLine
<1>2. \A m \in Keepers :
        /\ l \in Lines /\ line' \in 0 .. Len(file')
        /\ LoadOf(m)' = LoadOf(m) \cup {i \in {line + 1} : l.cmd = "loadModule" /\ l.file = m}
        /\ {file'[i] : i \in LinesOf(m)'} =
             {file[i] : i \in LinesOf(m)} \cup {k \in {l} : l.cmd = m /\ l.whole /\ LoadOf(m) # {}}
  BY <1>1, OneMoreLine
<1>3. l \in Lines /\ line' \in 0 .. Len(file') /\ file' \in Seq(Lines) /\ "wall" \in Keepers
  BY <1>1, <1>2 DEF Loading, Keepers
<1> HIDE DEF l
<1>4. \A m \in Keepers : (IsLoaded(m) <=> LoadOf(m) # {}) /\ elements[m] = {file[i] : i \in LinesOf(m)}
  BY <1>1 DEF Loading, Listed
<1>5. Kept /\ Shared /\ current \in BOOLEAN /\ DOMAIN elements = Keepers /\ phase \in Phases
  BY DEF Loading
<1>6. ASSUME AddsElement(l) PROVE Loading'
  <2>1. l.cmd \in Keepers /\ IsLoaded(l.cmd) /\ l.whole /\ UNCHANGED <<current, loaded, shared>>
    BY <1>6 DEF AddsElement
  <2>2. Shared'
    BY <1>5, <2>1 DEF Shared, IsLoaded
  <2>3. CASE phase' \in {"no arena", "cyclic index"} /\ UNCHANGED elements
    <3>1. Kept' /\ DOMAIN elements' = Keepers
      BY <1>5, <2>3 DEF Kept
    <3>2. Listed'
      BY <2>3 DEF Listed
    <3> QED BY <1>3, <1>5, <2>1, <2>2, <2>3, <3>1, <3>2 DEF Loading, Phases
  <2>4. CASE elements' = [elements EXCEPT ![l.cmd] = @ \cup {l}] /\ UNCHANGED phase
    <3>1. DOMAIN elements' = Keepers /\ \A m \in Keepers : elements'[m] = IF m = l.cmd THEN elements[m] \cup {l} ELSE elements[m]
      BY <1>5, <2>1, <2>4
    <3>2. Kept'
      <4>1. \A m \in Keepers : IsFiniteSet(elements[m] \cup {l}) /\ IsFiniteSet(elements[m])
        BY <1>5, FS_AddElement DEF Kept
      <4> QED BY <1>3, <1>5, <3>1, <4>1 DEF Kept
    <3>3. l.cmd # "loadModule"
      BY <2>1 DEF Keepers
    <3>4. ASSUME NEW m \in Keepers
          PROVE  (IsLoaded(m)' <=> LoadOf(m)' # {}) /\ elements'[m] = {file'[i] : i \in LinesOf(m)'}
      <4>1. LoadOf(m)' = LoadOf(m)
        BY <1>2, <3>3
      <4>2. IsLoaded(m)' <=> IsLoaded(m)
        BY <2>1 DEF IsLoaded
      <4>3. CASE m = l.cmd
        <5>1. LoadOf(m) # {}
          BY <1>4, <2>1, <4>3
        <5> QED BY <1>2, <1>4, <2>1, <3>1, <4>1, <4>2, <4>3, <5>1
      <4>4. CASE m # l.cmd
        BY <1>2, <1>4, <3>1, <4>1, <4>2, <4>4
      <4> QED BY <4>3, <4>4
    <3>5. Listed'
      BY <3>4, <1>1, <2>4 DEF Listed
    <3> QED BY <1>3, <1>5, <2>1, <2>2, <2>4, <3>1, <3>2, <3>5 DEF Loading
  <2> QED BY <1>6, <2>3, <2>4 DEF AddsElement
<1>7. ASSUME IgnoresLine(l) \/ ReadsArena(l) PROVE Loading'
  <2>1. UNCHANGED <<phase, loaded, shared, elements>> /\ current' \in BOOLEAN
    BY <1>5, <1>7 DEF IgnoresLine, ReadsArena
  <2>2. /\ l.cmd # "loadModule"
        /\ l.cmd \in Keepers => ~IsLoaded(l.cmd) \/ ~l.whole
    BY <1>7 DEF IgnoresLine, ReadsArena, Keepers
  <2>3. ASSUME NEW m \in Keepers
        PROVE  (IsLoaded(m)' <=> LoadOf(m)' # {}) /\ elements'[m] = {file'[i] : i \in LinesOf(m)'}
    <3>1. LoadOf(m)' = LoadOf(m)
      BY <1>2, <2>2
    <3>2. IsLoaded(m)' <=> IsLoaded(m)
      BY <2>1 DEF IsLoaded
    <3>3. ~(l.cmd = m /\ l.whole /\ LoadOf(m) # {})
      BY <1>4, <2>2
    <3>4. {file'[i] : i \in LinesOf(m)'} = {file[i] : i \in LinesOf(m)}
      BY <1>2, <3>3
    <3> QED BY <1>4, <2>1, <3>1, <3>2, <3>4
  <2>4. Kept' /\ Shared'
    BY <1>5, <2>1 DEF Kept, Shared, IsLoaded
  <2>5. Listed'
    BY <2>1, <2>3, <1>1 DEF Listed
  <2> QED BY <1>3, <1>5, <2>1, <2>4, <2>5 DEF Loading
<1>8. ASSUME LoadsModule(l) PROVE Loading'
  <2>1. l.cmd = "loadModule" /\ ModuleLoad(l.file) /\ UNCHANGED <<phase, current, elements>>
    BY <1>8 DEF LoadsModule
  <2>2. Shared' /\ \A k \in Keepers : IsLoaded(k)' <=> (IsLoaded(k) \/ (k = l.file))
    BY <1>5, <2>1, ModuleLoadAdds
  <2>3. ASSUME NEW m \in Keepers
        PROVE  (IsLoaded(m)' <=> LoadOf(m)' # {}) /\ elements'[m] = {file'[i] : i \in LinesOf(m)'}
    <3>1. l.cmd # m
      BY <2>1 DEF Keepers
    <3>2. {file'[i] : i \in LinesOf(m)'} = {file[i] : i \in LinesOf(m)}
      BY <1>2, <3>1
    <3>3. LoadOf(m)' # {} <=> (LoadOf(m) # {} \/ (m = l.file))
      BY <1>2, <2>1
    <3> QED BY <1>4, <2>1, <2>2, <3>2, <3>3
  <2>4. Kept'
    BY <1>5, <2>1 DEF Kept
  <2>5. Listed'
    BY <2>1, <2>3, <1>1 DEF Listed
  <2> QED BY <1>3, <1>5, <2>1, <2>2, <2>4, <2>5 DEF Loading
<1>9. ASSUME MissesArena(l) PROVE Loading'
  <2>1. phase' = "no arena" /\ UNCHANGED <<current, loaded, shared, elements>>
    BY <1>9 DEF MissesArena
  <2>2. Kept' /\ Shared'
    BY <1>5, <2>1 DEF Kept, Shared, IsLoaded
  <2>3. Listed'
    BY <2>1 DEF Listed
  <2> QED BY <1>3, <1>5, <2>1, <2>2, <2>3 DEF Loading, Phases
<1> QED BY <1>1, <1>6, <1>7, <1>8, <1>9 DEF l

\* Nothing but the phase changes, and the game does not come back by it.
LEMMA SameArena ==
  ASSUME Loading, UNCHANGED arena, phase' \in Phases, phase' = "menu" => phase = "menu",
         phase' \in {"load", "play"} => phase \in {"load", "play"}
  PROVE  Loading'
<1>1. UNCHANGED <<file, line, current, loaded, shared, elements>>
  BY DEF arena
<1>2. Kept' /\ Shared'
  BY <1>1 DEF Loading, Kept, Shared, IsLoaded
<1>3. \A m \in Keepers : LoadOf(m)' = LoadOf(m) /\ LinesOf(m)' = LinesOf(m)
  BY <1>1 DEF LoadOf, LinesOf
<1>4. Listed'
  <2>1. phase' = "menu" => file' = <<>> /\ line' = 0 /\ loaded' = <<>>
    BY <1>1 DEF Loading, Listed
  <2>2. phase' \in {"menu", "load", "play"} => phase \in {"menu", "load", "play"}
    OBVIOUS
  <2> QED BY <1>1, <1>3, <2>1, <2>2 DEF Loading, Listed, IsLoaded
<1> QED BY <1>1, <1>2, <1>4 DEF Loading

\* Before the first line is read nothing is loaded.
LEMMA NothingLoads ==
  ASSUME phase \in {"menu", "load"}, file \in Seq(Lines), line = 0, current \in BOOLEAN, loaded = <<>>,
         shared \subseteq Moves, elements = [m \in Keepers |-> {}], phase = "menu" => file = <<>>
  PROVE  Loading
<1>1. \A m : ~IsLoaded(m)
  BY DEF IsLoaded, ToSet
<1>2. 1 .. line = {}
  OBVIOUS
<1>3. \A m \in Keepers : LoadOf(m) = {} /\ LinesOf(m) = {}
  BY <1>2 DEF LoadOf, LinesOf
<1>4. Kept /\ DOMAIN elements = Keepers
  BY FS_EmptySet DEF Kept
<1>5. Shared
  BY <1>1 DEF Shared, WellOrdered
<1>6. Listed
  BY <1>1, <1>3 DEF Listed
<1>7. line \in 0 .. Len(file)
  OBVIOUS
<1> QED BY <1>4, <1>5, <1>6, <1>7 DEF Loading, Phases

\* A game begins with nothing loaded.
LEMMA StartLoads ==
  ASSUME Loading, NEW f \in Files, Start(f) PROVE Loading'
<1>1. phase = "menu" /\ phase' = "load" /\ file' = f /\ line' = 0 /\ current' = FALSE /\ UNCHANGED <<loaded, shared, elements>>
  BY DEF Start
<1>2. loaded = <<>> /\ line = 0 /\ shared \subseteq Moves
  BY <1>1 DEF Loading, Listed, Shared
<1>3. \A m \in Keepers : elements[m] = {}
  BY <1>1, <1>2 DEF Loading, Listed, LinesOf
<1>4. f \in Seq(Lines)
  BY CourseAssumption
<1>5. \A m \in Keepers : LoadOf(m)' = {} /\ LinesOf(m)' = {}
  BY <1>1 DEF LoadOf, LinesOf
<1>6. \A m \in Keepers : ~IsLoaded(m)'
  BY <1>1, <1>2 DEF IsLoaded, ToSet
<1>7. Kept' /\ Shared'
  BY <1>1 DEF Loading, Kept, Shared, IsLoaded
<1>8. Listed'
  BY <1>1, <1>3, <1>5, <1>6 DEF Listed
<1>9. Len(f) \in Nat
  BY <1>4
<1>10. line' \in 0 .. Len(file')
  BY <1>1, <1>9
<1>11. phase' \in Phases /\ file' \in Seq(Lines) /\ current' \in BOOLEAN /\ DOMAIN elements' = Keepers
  BY <1>1, <1>4 DEF Loading, Phases
<1> QED BY <1>7, <1>8, <1>10, <1>11 DEF Loading

\* The end of a game leaves nothing loaded, or stops the program.
LEMMA QuitLoads ==
  ASSUME Loading, Quit PROVE Loading'
<1>1. CASE phase' = "no space" /\ UNCHANGED arena
  BY <1>1, SameArena DEF Phases
<1>2. CASE /\ phase' = "menu" /\ file' = <<>> /\ line' = 0 /\ loaded' = <<>> /\ shared' = {}
           /\ elements' = [m \in Keepers |-> {}] /\ UNCHANGED current
  <2>1. \A m : ~IsLoaded(m)'
    BY <1>2 DEF IsLoaded, ToSet
  <2>2. \A m \in Keepers : LoadOf(m)' = {} /\ LinesOf(m)' = {}
    BY <1>2 DEF LoadOf, LinesOf
  <2>3. Kept' /\ DOMAIN elements' = Keepers
    BY <1>2, FS_EmptySet DEF Kept
  <2>4. Shared'
    BY <1>2, <2>1 DEF Shared, WellOrdered
  <2>5. Listed'
    BY <1>2, <2>1, <2>2 DEF Listed
  <2>6. file' \in Seq(Lines) /\ line' \in 0 .. Len(file')
    BY <1>2
  <2>7. phase' \in Phases /\ current' \in BOOLEAN
    BY <1>2 DEF Loading, Phases
  <2> QED BY <2>3, <2>4, <2>5, <2>6, <2>7 DEF Loading
<1> QED BY <1>1, <1>2 DEF Quit, Destroy

\* The module of the computer player, loaded in the game, is none of the three.
LEMMA JoinsAILoads ==
  ASSUME Loading, NEW t \in Tuxes, JoinsAI(t) PROVE Loading'
<1>1. Plays /\ ModuleLoad("ai") /\ UNCHANGED <<phase, file, line, current, elements>>
  BY DEF JoinsAI
<1>2. Shared' /\ \A k \in Keepers : IsLoaded(k)' <=> (IsLoaded(k) \/ (k = "ai"))
  BY <1>1, ModuleLoadAdds DEF Loading
<1>3. \A k \in Keepers : (IsLoaded(k)' <=> IsLoaded(k)) /\ LoadOf(k)' = LoadOf(k) /\ LinesOf(k)' = LinesOf(k)
  BY <1>1, <1>2 DEF Keepers, LoadOf, LinesOf
<1>4. Kept'
  BY <1>1 DEF Loading, Kept
<1>5. Listed'
  BY <1>1, <1>3 DEF Loading, Listed, Plays
<1> QED BY <1>1, <1>2, <1>4, <1>5 DEF Loading

\* Every step keeps it.
LEMMA NextLoads ==
  ASSUME Loading, [Next]_vars PROVE Loading'
<1>1. CASE UNCHANGED <<phase, arena>>
  BY <1>1, SameArena DEF Loading
<1>2. CASE Ready \/ DrawsForEver
  <2>1. UNCHANGED arena /\ phase' \in {"play", "no arena", "draws for ever"} /\ (phase' = "play" => phase = "load")
    BY <1>2 DEF Ready, DrawsForEver
  <2> QED BY <2>1, SameArena DEF Phases
<1>3. ASSUME NEW t \in Tuxes, NEW n \in Dirs, Acts(t, n) PROVE Loading'
  BY <1>1, <1>3 DEF Acts
<1>4. ASSUME NEW t \in Tuxes, NEW s \in Shots, IsHit(t, s) \/ \E g \in {"simple", "laser", "ball"} : Fire(t, s, g) PROVE Loading'
  BY <1>1, <1>4 DEF IsHit, Fire
<1>5. ASSUME NEW t \in Tuxes, Joins(t) \/ TuxEvent(t) \/ TeleportTux(t) \/ Respawns(t) \/ TuxEventAI(t) PROVE Loading'
  <2>1. Joins(t) => UNCHANGED <<phase, arena>>
    BY DEF Joins
  <2>2. TuxEvent(t) => UNCHANGED <<phase, arena>>
    BY DEF TuxEvent
  <2>3. TeleportTux(t) => UNCHANGED <<phase, arena>>
    BY DEF TeleportTux
  <2>4. Respawns(t) => UNCHANGED <<phase, arena>>
    BY DEF Respawns
  <2>5. TuxEventAI(t) => UNCHANGED <<phase, arena>>
    BY DEF TuxEventAI
  <2> QED BY <1>1, <1>5, <2>1, <2>2, <2>3, <2>4, <2>5
<1>6. ASSUME NEW s \in Shots, ShotRound(s) PROVE Loading'
  BY <1>1, <1>6 DEF ShotRound
<1>7. CASE UNCHANGED vars
  BY <1>1, <1>7 DEF vars
<1> QED BY <1>2, <1>3, <1>4, <1>5, <1>6, <1>7, StartLoads, ReadLineLoads, QuitLoads, JoinsAILoads DEF Next

\* It holds at the beginning.
LEMMA InitLoads == ASSUME Init PROVE Loading
<1>1. /\ phase = "menu" /\ file = <<>> /\ line = 0 /\ current = FALSE /\ loaded = <<>> /\ shared = {}
      /\ elements = [m \in Keepers |-> {}]
  BY DEF Init
<1>2. file \in Seq(Lines) /\ shared \subseteq Moves
  BY <1>1
<1> QED BY <1>1, <1>2, NothingLoads

\* The list of modules, the functions and the objects of the arena file always fit the
\* lines that were read: inductive, and more than LoadsInOrder says.
THEOREM AlwaysLoading == Spec => []Loading
BY InitLoads, NextLoads, PTL DEF Spec

\* Every module is loaded once and after what it needs, and has exactly the objects of
\* the lines of its own file (module_load, module_cmd), for any arena files.
THEOREM AlwaysLoadsInOrder == Spec => []LoadsInOrder
BY AlwaysLoading, LoadingMeansInOrder, PTL

(***************************************************************************)
(* Part 7: tuxes, whatever step is taken.                                  *)
(***************************************************************************)

\* Nobody has come before the arena file is read.
Vacant == phase \in {"menu", "load"} => \A t \in Tuxes : tux[t].status = "none"

\* The inductive invariant of the tuxes.
TuxesStand == tux \in Standing /\ Vacant

\* Who stands free does so as long as the walls are the same.
LEMMA StandingStays == ASSUME UNCHANGED elements PROVE Standing' = Standing
BY DEF Standing, StandsFree, InElement

\* Who is not there stands in no wall.
LEMMA NobodyStands == Nobody \in TuxRecord /\ StandsFree(Nobody) /\ [t \in Tuxes |-> Nobody] \in Standing
<1>1. Nobody \in TuxRecord
  BY DEF Nobody, TuxRecord, Dirs
<1>2. Nobody.status = "none"
  BY DEF Nobody
<1>3. StandsFree(Nobody)
  BY <1>2 DEF StandsFree
<1> QED BY <1>1, <1>3 DEF Standing

\* A place that was found is one to stand.
LEMMA FoundStands ==
  ASSUME NEW T, NEW b \in FoundPlaces(T), NEW r \in TuxRecord
  PROVE  At(r, b) \in TuxRecord /\ StandsFree(At(r, b))
<1>1. b \in TuxBoxes /\ ~InElement(b)
  BY FreeIsFound
<1>2. At(r, b) \in TuxRecord /\ BoxOf(At(r, b)) = b
  BY <1>1, AtIsThere
<1> QED BY <1>1, <1>2 DEF StandsFree

\* The actions of a game that is played.
LEMMA TuxEventStands ==
  ASSUME tux \in Standing, NEW t \in Tuxes, TuxEvent(t) PROVE tux' \in Standing
<1>1. PICK T \in Picks([tux EXCEPT ![t] = EventBonus(@)], t) : tux' = T
  BY DEF TuxEvent, Become
<1>2. EventBonus(tux[t]) \in TuxRecord /\ StandsFree(EventBonus(tux[t]))
  BY OneIsTux, BonusStands
<1>3. [tux EXCEPT ![t] = EventBonus(@)] \in Standing
  <2>1. [tux EXCEPT ![t] = EventBonus(tux[t])] \in Standing
    BY <1>2, OneStands
  <2> QED BY <2>1
<1> QED BY <1>1, <1>3, PicksStand

\* A player acts.
LEMMA ActsStands ==
  ASSUME tux \in Standing, NEW t \in Tuxes, NEW n \in Dirs, Acts(t, n) PROVE tux' \in Standing
BY ActionStands DEF Acts, Become

\* A dead tux comes back.
LEMMA RespawnsStands ==
  ASSUME tux \in Standing, NEW t \in Tuxes, Respawns(t) PROVE tux' \in Standing
<1>1. PICK b \in FoundPlaces(tux) : tux' = [tux EXCEPT ![t] = [At(@, b) EXCEPT !.status = "alive"]]
  BY DEF Respawns
<1> DEFINE r == [tux[t] EXCEPT !.status = "alive"]
<1>2. r \in TuxRecord
  BY OneIsTux DEF TuxRecord
<1>3. [At(tux[t], b) EXCEPT !.status = "alive"] = At(r, b)
  BY OneIsTux DEF At, TuxRecord
<1> HIDE DEF r
<1>4. tux' = [tux EXCEPT ![t] = At(r, b)]
  BY <1>1, <1>3
<1> QED BY <1>2, <1>4, FoundStands, OneStands

\* A shot kills a tux or sends it elsewhere.
LEMMA IsHitStands ==
  ASSUME tux \in Standing, NEW t \in Tuxes, NEW s \in Shots, IsHit(t, s) PROVE tux' \in Standing
<1>1. CASE tux' = [tux EXCEPT ![t] = [@ EXCEPT !.status = "dead", !.bonus = "none", !.time = 0]]
  <2> DEFINE r == [tux[t] EXCEPT !.status = "dead", !.bonus = "none", !.time = 0]
  <2>1. r \in TuxRecord /\ r.status = "dead"
    BY OneIsTux DEF TuxRecord
  <2>2. StandsFree(r)
    BY <2>1 DEF StandsFree
  <2> QED BY <1>1, <2>1, <2>2, OneStands
<1>2. ASSUME NEW b \in FoundPlaces(tux), tux' = [tux EXCEPT ![t] = At(@, b)] PROVE tux' \in Standing
  <2>1. tux' = [tux EXCEPT ![t] = At(tux[t], b)]
    BY <1>2
  <2> QED BY <2>1, OneIsTux, FoundStands, OneStands
<1>3. CASE UNCHANGED tux
  BY <1>3
<1> QED BY <1>1, <1>2, <1>3 DEF IsHit

\* A tux joins.
LEMMA JoinsStands ==
  ASSUME tux \in Standing, NEW t \in Tuxes, Joins(t) \/ JoinsAI(t) PROVE tux' \in Standing
<1>1. PICK a \in BOOLEAN, b \in FoundPlaces(tux) :
        tux' = [tux EXCEPT ![t] = At([Nobody EXCEPT !.status = "alive", !.ai = a], b)]
  <2>1. [Nobody EXCEPT !.status = "alive"] = [Nobody EXCEPT !.status = "alive", !.ai = FALSE]
    <3>1. /\ [Nobody EXCEPT !.status = "alive"] \in TuxRecord
          /\ [Nobody EXCEPT !.status = "alive", !.ai = FALSE] \in TuxRecord /\ Nobody.ai = FALSE
      BY NobodyStands DEF TuxRecord, Nobody
    <3> QED BY <3>1, NobodyStands DEF TuxRecord
  <2>2. (~IsLoaded("ai")) = TRUE \/ (~IsLoaded("ai")) = FALSE
    BY Zenon
  <2> QED BY <2>1, <2>2 DEF Joins, JoinsAI
<1>2. [Nobody EXCEPT !.status = "alive", !.ai = a] \in TuxRecord
  BY NobodyStands DEF TuxRecord
<1> QED BY <1>1, <1>2, FoundStands, OneStands

\* A tux enters teleports.
LEMMA TeleportTuxStands ==
  ASSUME Loading, tux \in Standing, NEW t \in Tuxes, TeleportTux(t) PROVE tux' \in Standing
<1> DEFINE met == {e \in elements["teleport"] : Conflict(BoxOf(tux[t]), e.box)}
<1>1. Kept
  BY DEF Loading
<1>2. IsFiniteSet(met)
  BY <1>1, FS_Subset DEF Kept, Keepers
<1>3. PICK order \in SetToSeqs(met) : tux' \in Teleported(tux, t, order)
  BY DEF TeleportTux, Become
<1> HIDE DEF met
<1>4. PICK n \in Nat : DOMAIN order = 1 .. n
  BY <1>2, <1>3, OrderIsSequence
<1> QED BY <1>1, <1>3, <1>4, TeleportsStand

\* The computer player turns and goes.
LEMMA TuxEventAIStands ==
  ASSUME tux \in Standing, NEW t \in Tuxes, TuxEventAI(t) PROVE tux' \in Standing
<1>1. PICK u \in Rivals(t) : \E T \in Turns(tux, t, u) : tux' \in Pursues(T, t, u)
  BY DEF TuxEventAI, Become
<1> QED BY <1>1, TurnsStand, PursuesStand

\* Every step keeps it: the walls change while nobody is there, the tuxes while the walls stay.
LEMMA NextStands ==
  ASSUME Loading, TuxesStand, [Next]_vars PROVE TuxesStand'
<1>0. tux \in Standing /\ Vacant
  BY DEF TuxesStand
<1>1. ASSUME UNCHANGED elements, tux' \in Standing, Plays, UNCHANGED phase PROVE TuxesStand'
  BY <1>1, StandingStays DEF TuxesStand, Vacant, Plays
<1>2. ASSUME UNCHANGED <<elements, tux>>, phase' \in {"menu", "load"} => phase \in {"menu", "load"} PROVE TuxesStand'
  BY <1>0, <1>2, StandingStays DEF TuxesStand, Vacant
<1>3. ASSUME NEW f \in Files, Start(f) PROVE TuxesStand'
  BY <1>2, <1>3 DEF Start
<1>4. CASE Ready \/ DrawsForEver
  BY <1>2, <1>4 DEF Ready, DrawsForEver, arena
<1>5. CASE UNCHANGED vars
  BY <1>2, <1>5 DEF vars, arena
<1>6. CASE ReadLine
  <2>1. phase = "load" /\ tux' = tux
    BY <1>6 DEF ReadLine
  <2>2. \A t \in Tuxes : tux[t] \in TuxRecord /\ tux[t].status = "none"
    BY <1>0, <2>1, OneIsTux DEF Vacant
  <2>3. tux \in [Tuxes -> TuxRecord] /\ \A t \in Tuxes : StandsFree(tux[t])'
    BY <1>0, <2>1, <2>2 DEF Standing, StandsFree
  <2> QED BY <2>1, <2>2, <2>3 DEF TuxesStand, Vacant, Standing
<1>7. CASE Quit
  <2>1. CASE phase' = "no space" /\ UNCHANGED <<arena, tux, shot>>
    BY <1>2, <2>1 DEF arena
  <2>2. CASE phase' = "menu" /\ tux' = [t \in Tuxes |-> Nobody]
    <3>1. tux' \in [Tuxes -> TuxRecord] /\ \A t \in Tuxes : tux'[t].status = "none"
      BY <2>2, NobodyStands DEF Nobody
    <3>2. \A t \in Tuxes : StandsFree(tux[t])'
      BY <3>1 DEF StandsFree
    <3> QED BY <3>1, <3>2 DEF TuxesStand, Vacant, Standing
  <2> QED BY <1>7, <2>1, <2>2 DEF Quit
<1>8. ASSUME NEW t \in Tuxes, Joins(t) \/ JoinsAI(t) PROVE TuxesStand'
  <2>1. UNCHANGED elements /\ Plays /\ UNCHANGED phase
    BY <1>8 DEF Joins, JoinsAI, arena
  <2> QED BY <1>0, <1>1, <1>8, <2>1, JoinsStands
<1>9. ASSUME NEW t \in Tuxes, TuxEvent(t) PROVE TuxesStand'
  <2>1. UNCHANGED elements /\ Plays /\ UNCHANGED phase
    BY <1>9 DEF TuxEvent, arena
  <2> QED BY <1>0, <1>1, <1>9, <2>1, TuxEventStands
<1>10. ASSUME NEW t \in Tuxes, TeleportTux(t) PROVE TuxesStand'
  <2>1. UNCHANGED elements /\ Plays /\ UNCHANGED phase
    BY <1>10 DEF TeleportTux, arena
  <2> QED BY <1>0, <1>1, <1>10, <2>1, TeleportTuxStands
<1>11. ASSUME NEW t \in Tuxes, Respawns(t) PROVE TuxesStand'
  <2>1. UNCHANGED elements /\ Plays /\ UNCHANGED phase
    BY <1>11 DEF Respawns, arena
  <2> QED BY <1>0, <1>1, <1>11, <2>1, RespawnsStands
<1>12. ASSUME NEW t \in Tuxes, TuxEventAI(t) PROVE TuxesStand'
  <2>1. UNCHANGED elements /\ Plays /\ UNCHANGED phase
    BY <1>12 DEF TuxEventAI, arena
  <2> QED BY <1>0, <1>1, <1>12, <2>1, TuxEventAIStands
<1>13. ASSUME NEW t \in Tuxes, NEW n \in Dirs, Acts(t, n) PROVE TuxesStand'
  <2>1. UNCHANGED elements /\ Plays /\ UNCHANGED phase
    BY <1>13 DEF Acts, arena
  <2> QED BY <1>0, <1>1, <1>13, <2>1, ActsStands
<1>14. ASSUME NEW t \in Tuxes, NEW s \in Shots, IsHit(t, s) PROVE TuxesStand'
  <2>1. UNCHANGED elements /\ Plays /\ UNCHANGED phase
    BY <1>14 DEF IsHit, arena
  <2> QED BY <1>0, <1>1, <1>14, <2>1, IsHitStands
<1>15. ASSUME NEW t \in Tuxes, NEW s \in Shots, NEW g \in {"simple", "laser", "ball"}, Fire(t, s, g) PROVE TuxesStand'
  <2>1. UNCHANGED <<elements, tux, phase>>
    BY <1>15 DEF Fire, arena
  <2> QED BY <1>2, <2>1
<1>16. ASSUME NEW s \in Shots, ShotRound(s) PROVE TuxesStand'
  <2>1. UNCHANGED <<elements, tux, phase>>
    BY <1>16 DEF ShotRound, arena
  <2> QED BY <1>2, <2>1
<1> QED BY <1>3, <1>4, <1>5, <1>6, <1>7, <1>8, <1>9, <1>10, <1>11, <1>12, <1>13, <1>14, <1>15, <1>16 DEF Next

\* It holds at the beginning.
LEMMA InitStands == ASSUME Init PROVE TuxesStand
<1>1. tux = [t \in Tuxes |-> Nobody]
  BY DEF Init
<1>2. \A t \in Tuxes : tux[t].status = "none"
  BY <1>1 DEF Nobody
<1> QED BY <1>1, <1>2, NobodyStands DEF TuxesStand, Vacant

\* The tuxes are tux records that stand free, and nobody is there before the arena is read.
THEOREM AlwaysTuxesStand == Spec => []TuxesStand
BY AlwaysLoading, InitStands, NextStands, PTL DEF Spec

\* Nobody who is alive and solid stands in a wall or a pipe, except who became solid
\* there by another bonus (moveTux, eventBonus, move_tux, arena_find_free_space).
THEOREM AlwaysStandsFree == Spec => []SolidStandsFree
<1>1. TuxesStand => SolidStandsFree
  BY OneIsTux DEF TuxesStand, SolidStandsFree, StandsFree, Alive
<1> QED BY <1>1, AlwaysTuxesStand, PTL

(***************************************************************************)
(* Part 8: shots, and the search.                                          *)
(***************************************************************************)

\* The inductive invariant of the shots.
ShotsLeave == shot \in [Shots -> Leaving]

\* A new shot has no exit.
LEMMA FireLeaves ==
  ASSUME TuxesStand, ShotsLeave, NEW t \in Tuxes, NEW s \in Shots, NEW gun \in {"simple", "laser", "ball"},
         Fire(t, s, gun)
  PROVE  ShotsLeave'
<1> DEFINE n == tux[t].position
           long == gun = "laser"
           side == IF gun = "ball" THEN BallSide ELSE 1
           w == IF long /\ n \notin Vertical THEN LaserLength ELSE side
           h == IF long /\ n \in Vertical THEN LaserLength ELSE side
           left == IF long /\ n = "left" THEN LaserLength ELSE 0
           up == IF long /\ n = "up" THEN LaserLength ELSE 0
           r == [x |-> tux[t].x - left, y |-> tux[t].y - up, w |-> w, h |-> h,
                 px |-> Heading(n).x, py |-> Heading(n).y, position |-> n,
                 gun |-> gun, author |-> t, del |-> FALSE, exit |-> {}]
<1>1. shot' = [shot EXCEPT ![s] = r]
  BY DEF Fire
<1>2. tux[t].x \in Int /\ tux[t].y \in Int /\ n \in Dirs
  BY OneIsTux DEF TuxesStand, TuxRecord
<1>3. w \in Int /\ h \in Int /\ left \in Int /\ up \in Int
  BY CourseAssumption
<1>4. Heading(n).x \in Int /\ Heading(n).y \in Int
  BY <1>2 DEF Heading, Dirs
<1>5. r \in ShotRecord /\ r.exit = {}
  <2> HIDE DEF n, w, h, left, up
  <2> QED BY <1>2, <1>3, <1>4 DEF ShotRecord
<1>6. r \in Leaving
  <2> HIDE DEF r
  <2> QED BY <1>5 DEF Leaving
<1> HIDE DEF r
<1> QED BY <1>1, <1>6 DEF ShotsLeave

\* A round of the modules and of the flight.
LEMMA ShotRoundLeaves ==
  ASSUME Loading, ShotsLeave, NEW s \in Shots, ShotRound(s) PROVE ShotsLeave'
<1>1. PICK r \in RoundOf(shot[s]) : shot' = [shot EXCEPT ![s] = Flown(r)]
  BY DEF ShotRound
<1>2. Kept /\ loaded \in Seq(Modules) /\ shot[s] \in Leaving
  BY DEF Loading, Shared, WellOrdered, ShotsLeave
<1>3. r \in Leaving
  BY <1>1, <1>2, RoundLeaves
<1> QED BY <1>1, <1>3, FlownLeaves DEF ShotsLeave

\* Every step keeps it.
LEMMA NextLeaves ==
  ASSUME Loading, TuxesStand, ShotsLeave, [Next]_vars PROVE ShotsLeave'
<1>1. CASE UNCHANGED shot
  BY <1>1 DEF ShotsLeave
<1>2. CASE UNCHANGED vars
  BY <1>1, <1>2 DEF vars
<1>3. ASSUME NEW f \in Files, Start(f) PROVE ShotsLeave'
  BY <1>1, <1>3 DEF Start
<1>4. CASE ReadLine \/ Ready \/ DrawsForEver
  BY <1>1, <1>4 DEF ReadLine, Ready, DrawsForEver
<1>5. CASE Quit
  BY <1>1, <1>5, NoShotLeaves DEF Quit, ShotsLeave
<1>6. ASSUME NEW t \in Tuxes, Joins(t) \/ JoinsAI(t) PROVE ShotsLeave'
  BY <1>1, <1>6 DEF Joins, JoinsAI
<1>7. ASSUME NEW t \in Tuxes, TuxEvent(t) \/ Respawns(t) \/ TuxEventAI(t) PROVE ShotsLeave'
  BY <1>1, <1>7 DEF TuxEvent, Respawns, TuxEventAI
<1>8. ASSUME NEW t \in Tuxes, TeleportTux(t) PROVE ShotsLeave'
  BY <1>1, <1>8 DEF TeleportTux
<1>9. ASSUME NEW t \in Tuxes, NEW n \in Dirs, Acts(t, n) PROVE ShotsLeave'
  BY <1>1, <1>9 DEF Acts
<1>10. ASSUME NEW t \in Tuxes, NEW s \in Shots, IsHit(t, s) PROVE ShotsLeave'
  BY <1>1, <1>10, NoShotLeaves DEF IsHit, ShotsLeave
<1> QED BY <1>2, <1>3, <1>4, <1>5, <1>6, <1>7, <1>8, <1>9, <1>10, FireLeaves, ShotRoundLeaves DEF Next

\* It holds at the beginning.
LEMMA InitLeaves == ASSUME Init PROVE ShotsLeave
BY NoShotLeaves DEF Init, ShotsLeave

\* Every shot is past the boxes it has come out of, on a side to which it does not fly
\* back: inductive, which ClearOfExit alone is not.
THEOREM AlwaysShotsLeave == Spec => []ShotsLeave
BY AlwaysLoading, AlwaysTuxesStand, InitLeaves, NextLeaves, PTL DEF Spec

\* A shot does not meet the pipe or the teleport it has come out of (move_shot,
\* shot_event_move_list), for any arena, sizes and order of the modules.
THEOREM AlwaysClearOfExit == Spec => []ClearOfExit
<1>1. ASSUME ShotsLeave PROVE ClearOfExit
  <2>1. SUFFICES ASSUME NEW s \in Shots, NEW box \in shot[s].exit PROVE ~Conflict(ShotBox(shot[s]), box)
    BY DEF ClearOfExit
  <2>2. shot[s] \in Leaving
    BY <1>1 DEF ShotsLeave
  <2> QED BY <2>1, <2>2, LeavingIsShot, PastIsClear
<1> QED BY <1>1, AlwaysShotsLeave, PTL

\* Whenever the computer player looks for its rival, the search of tux_eventAI ends, finds
\* a way only where there is one, and is cut off only where there is none.
THEOREM AlwaysFindsTheWay == Spec => []AIFindsTheWay
<1>1. ASSUME TuxesStand PROVE AIFindsTheWay
  <2>1. SUFFICES ASSUME NEW t \in Tuxes, NEW u \in Tuxes PROVE FindsTheWay(Place(t), FreeFor, BoxOf(tux[u]))
    BY DEF AIFindsTheWay
  <2>2. Place(t) \in Spots
    BY <1>1, OneIsTux, BoxIsPlace DEF TuxesStand, Place, Spots
  <2>3. FindsTheWay(Place(t), FreeFor, BoxOf(tux[u])) <=>
          LET s == SearchIn(tux, Place(t), BoxOf(tux[u]))
              leads == LeadsIn(tux, Place(t), BoxOf(tux[u])) IN
            /\ s.end \in {"found", "cut off", "given up"}
            /\ s.end = "found" => s.route \in leads
            /\ s.end = "cut off" => leads = {}
    BY DEF FindsTheWay, SearchIn, LeadsIn, FreeIn, FreeFor
  <2> QED BY <2>2, <2>3, SearchFindsTheWay
<1> QED BY <1>1, AlwaysTuxesStand, PTL
=============================================================================
