------------------------------ MODULE Pursuit ------------------------------
(***************************************************************************)
(* How the computer player looks for a way to its rival (tux_eventAI of    *)
(* modules/modAI.c), and the geometry it shares with the rest of the arena *)
(* (base/arena.c, base/tux.c).  Alternatives are probed a place at a time; *)
(* one that stands free goes on and forks to both sides, one that does not *)
(* is dropped, and the first that runs into the rival wins.                *)
(***************************************************************************)
EXTENDS Integers, Sequences, FiniteSets, SequencesExt

CONSTANTS
    TuxSize,        \* TUX_WIDTH and TUX_HEIGHT
    LookGap,        \* the 10 pixels between a tux and its first alternatives
    MaxLooks        \* the looks after which the search is given up, 100

ASSUME PursuitAssumption ==
    TuxSize \in Nat \ {0} /\ LookGap \in Nat /\ MaxLooks \in Nat \ {0}

Dirs == {"up", "right", "left", "down"}
Vertical == {"up", "down"}

\* tux_get_course.
Heading(n) == CASE n = "up" -> [x |-> 0, y |-> -1] [] n = "down" -> [x |-> 0, y |-> 1]
               [] n = "left" -> [x |-> -1, y |-> 0] [] n = "right" -> [x |-> 1, y |-> 0]

Box(x, y, w, h) == [x |-> x, y |-> y, w |-> w, h |-> h]
TuxBox(p) == Box(p.x, p.y, TuxSize, TuxSize)

\* arena_conflict_space.
Conflict(a, b) ==
    /\ a.x < b.x + b.w /\ b.x < a.x + a.w
    /\ a.y < b.y + b.h /\ b.y < a.y + a.h

Ahead(p, n, d) == [x |-> p.x + d * Heading(n).x, y |-> p.y + d * Heading(n).y]

-----------------------------------------------------------------------------
(* The search.  p is the place of the tux, Free(_) tells whether a tux could *)
(* stand at a place, rival is the box of the other tux.                     *)

Alternative(first, n, p) == [first |-> first, route |-> n, place |-> p]

\* The four first alternatives stand beside the tux; they are not looked at.
Beside(p) == [i \in 1 .. 4 |->
    LET n == <<"up", "right", "left", "down">>[i] IN
      Alternative(n, n, Ahead(p, n, TuxSize + LookGap))]

Sides(n) == IF n \in Vertical THEN <<"right", "left">> ELSE <<"up", "down">>

\* Mutant: the way is forked to one side only.
ForkOneWay(a) == <<Alternative(a.first, Sides(a.route)[1], a.place)>>

Fork(a) == [i \in 1 .. 2 |-> Alternative(a.first, Sides(a.route)[i], a.place)]

Moved(a) == [a EXCEPT !.place = Ahead(@, a.route, 2 * TuxSize)]

\* The lists once the end of listAlternative is passed: the forks are added.
NextAlternative(s) == IF s.at + 1 <= Len(s.list) THEN [s EXCEPT !.at = @ + 1]
              ELSE [s EXCEPT !.list = @ \o s.forks, !.forks = <<>>, !.at = 1]

\* A round of the loop; "at" is my_index, from 1.
Look(last, s, Free(_), rival) ==
    LET n == NextAlternative(s)
        a == Moved(n.list[n.at]) IN
      IF n.list = <<>> THEN [n EXCEPT !.end = "cut off"]
      ELSE IF last THEN [n EXCEPT !.end = "given up"]
      ELSE IF Free(a.place) THEN [n EXCEPT !.list[n.at] = a, !.forks = @ \o Fork(a)]
      ELSE IF Conflict(TuxBox(a.place), rival) THEN [n EXCEPT !.end = "found", !.route = a.first]
      ELSE [n EXCEPT !.list = RemoveAt(@, n.at), !.at = @ - 1]

Search(p, Free(_), rival) ==
    LET look[k \in 0 .. MaxLooks] ==
          IF k = 0
          THEN [list |-> Beside(p), forks |-> <<>>, at |-> 0, end |-> "no", route |-> "none"]
          ELSE LET s == look[k - 1] IN
                 IF s.end = "no" THEN Look(k = MaxLooks, s, Free, rival) ELSE s IN
      look[MaxLooks]

-----------------------------------------------------------------------------
(* What it looks for, without lists: the probes that stand free, from any   *)
(* of the four beginnings.                                                  *)

Probe(a) == Moved(a).place

\* What is looked at: a place to go on from, by a route, and the first route there.
Onward(a) == {Alternative(a.first, n, Probe(a)) : n \in {a.route} \cup ToSet(Sides(a.route))}

Leads(p, Free(_), rival) ==
    LET reach[d \in 0 .. MaxLooks] ==
          IF d = 0 THEN [seen |-> {}, new |-> ToSet(Beside(p))]
          ELSE LET r == reach[d - 1]
                   seen == r.seen \cup r.new IN
                 [seen |-> seen,
                  new |-> (UNION {Onward(a) : a \in {b \in r.new : Free(Probe(b))}}) \ seen] IN
      {a.first : a \in {b \in reach[MaxLooks].seen : ~Free(Probe(b)) /\ Conflict(TuxBox(Probe(b)), rival)}}

\* The search ends; the route it finds begins a way to the rival, and when it
\* has run out of alternatives there is none.
FindsTheWay(p, Free(_), rival) ==
    LET s == Search(p, Free, rival)
        leads == Leads(p, Free, rival) IN
      /\ s.end \in {"found", "cut off", "given up"}
      /\ s.end = "found" => s.route \in leads
      /\ s.end = "cut off" => leads = {}
=============================================================================
