------------------------------- MODULE Course -------------------------------
(***************************************************************************)
(* The arena as an obstacle course: the game modules (base/modules.c and   *)
(* modules/), loaded by the lines of an arena file (base/arenaFile.c), and *)
(* what their walls, pipes and teleports do to the tuxes and shots of the  *)
(* program that runs the arena.  Places and sizes are those of the code,   *)
(* in a smaller measure.  Guns, rounds and timers are in module Tux, the   *)
(* lists of objects in Space; what is shot or picked up is a free choice.  *)
(***************************************************************************)
EXTENDS Pursuit

CONSTANTS
    Tuxes, Shots,
    Files,          \* the arena files that may be chosen: sequences of lines
    Width, Height,  \* of the arena
    TuxStep,        \* TUX_STEP
    TuxGap,         \* the 20 pixels in front of a teleport
    ShotGap,        \* the 5 pixels in front of a pipe or a teleport
    LaserLength,    \* GUN_LASSER_HORIZONTAL
    BallSide,       \* GUN_BOMBBALL_WIDTH and GUN_BOMBBALL_HEIGHT
    AimLimit,       \* the 20 pixels within which the computer player aims
    BonusTime,      \* TUX_MAX_BONUS
    Bonuses,
    Places          \* bound: where arena_find_free_space may find a place

VARIABLES
    phase,          \* "menu", "load", "play", or what stopped the program
    file, line,     \* the arena file and the lines of it that were read
    current,        \* whether there is a current arena
    loaded,         \* listModule: names in the order of the list
    shared,         \* listShareFce: names of the functions
    elements,       \* the objects in the space of each module that has one
    tux,            \* tux -> a TuxRecord; nobody: status "none"
    shot            \* shot -> a ShotRecord; none: gun "none"

arena == <<file, line, current, loaded, shared, elements>>
vars == <<phase, arena, tux, shot>>

Keepers == {"wall", "pipe", "teleport"}
Modules == Keepers \cup {"move", "ai", "basic"}
Moves == {"move_tux", "move_shot"}

\* The lines of an arena file, as far as a module reads them.  "no" is the place of an
\* object in its file: two lines that are alike make two objects.
Boxes == [x : Int, y : Int, w : Int, h : Int]
Lines ==
    [cmd : {"arena", "playMusic", "other"}] \cup [cmd : {"loadModule"}, file : STRING]
    \cup [cmd : {"wall", "teleport"}, whole : BOOLEAN, box : Boxes, no : Nat]
    \cup [cmd : {"pipe"}, whole : BOOLEAN, box : Boxes, no : Nat,
          id : Int, out : Int, position : Dirs]

ASSUME CourseAssumption ==
    /\ Tuxes # {} /\ Files \subseteq Seq(Lines) /\ Places \subseteq Int \X Int
    /\ \A f \in Files : \A i \in DOMAIN f : f[i].cmd \in Keepers => f[i].no = i
    /\ {TuxStep, TuxGap, ShotGap, LaserLength, BallSide, BonusTime} \subseteq Nat

\* stuck is history: another bonus made a ghost solid where it stood, in a wall.
Nobody == [x |-> 0, y |-> 0, position |-> "down", status |-> "none",
           bonus |-> "none", time |-> 0, ai |-> FALSE, stuck |-> FALSE]
NoShot == [x |-> 0, y |-> 0, w |-> 0, h |-> 0, px |-> 0, py |-> 0, position |-> "down",
           gun |-> "none", author |-> CHOOSE t \in Tuxes : TRUE, del |-> FALSE, exit |-> {}]

Plays == phase = "play"

-----------------------------------------------------------------------------
(* Loading.  A line is [cmd, ...]; "whole" tells that no value is missing.  *)

IsLoaded(m) == m \in ToSet(loaded)

\* The functions of modMove are there once it is; pipes and teleports load it first
\* (module_load_dep in their init, before module_load adds them to the list).
WithDep(m, list) ==
    IF m \in {"pipe", "teleport"} /\ "move" \notin ToSet(list) THEN <<"move", m>> ELSE <<m>>

\* Mutant: a module that is loaded is loaded again.
ModuleLoadAgain(m) ==
    /\ loaded' = loaded \o WithDep(m, loaded)
    /\ shared' = IF "move" \in ToSet(loaded') THEN Moves ELSE shared

ModuleLoad(m) ==
    /\ loaded' = IF IsLoaded(m) \/ m \notin Modules THEN loaded ELSE loaded \o WithDep(m, loaded)
    /\ shared' = IF "move" \in ToSet(loaded') THEN Moves ELSE shared

\* module_cmd: only the module of that name takes the line, and the first object
\* needs the arena for its space.  Pipes bring their ids, which are keys.
LacksArena(l) == elements[l.cmd] = {} /\ ~current

AddsElement(l) ==
    /\ l.cmd \in Keepers /\ IsLoaded(l.cmd) /\ l.whole
    /\ IF LacksArena(l) THEN phase' = "no arena" /\ UNCHANGED elements
       ELSE IF l.cmd = "pipe" /\ \E e \in elements["pipe"] : e.id = l.id
       THEN phase' = "cyclic index" /\ UNCHANGED elements
       ELSE elements' = [elements EXCEPT ![l.cmd] = @ \cup {l}] /\ UNCHANGED phase
    /\ UNCHANGED <<current, loaded, shared>>

IgnoresLine(l) ==
    /\ \/ l.cmd \in Keepers /\ (~IsLoaded(l.cmd) \/ ~l.whole)
       \/ l.cmd = "playMusic" /\ current
       \/ l.cmd = "other"
    /\ UNCHANGED <<phase, current, loaded, shared, elements>>

\* cmd_music_play writes into the arena, which the line "arena" may not have made.
MissesArena(l) ==
    /\ l.cmd = "playMusic" /\ ~current /\ phase' = "no arena"
    /\ UNCHANGED <<current, loaded, shared, elements>>

ReadsArena(l) ==
    /\ l.cmd = "arena" /\ current' = TRUE
    /\ UNCHANGED <<phase, loaded, shared, elements>>

LoadsModule(l) ==
    /\ l.cmd = "loadModule" /\ ModuleLoad(l.file)
    /\ UNCHANGED <<phase, current, elements>>

ReadLine ==
    /\ phase = "load" /\ line < Len(file)
    /\ line' = line + 1
    /\ LET l == file[line + 1] IN
         AddsElement(l) \/ IgnoresLine(l) \/ MissesArena(l) \/ ReadsArena(l) \/ LoadsModule(l)
    /\ UNCHANGED <<file, tux, shot>>

\* startWorld: prepareArena begins without a current arena.
Start(f) ==
    /\ phase = "menu"
    /\ phase' = "load" /\ file' = f /\ line' = 0 /\ current' = FALSE
    /\ UNCHANGED <<loaded, shared, elements, tux, shot>>

-----------------------------------------------------------------------------
(* Places.                                                                  *)

Here(t) == tux[t].status # "none"
Alive(t) == tux[t].status = "alive"
Flies(s) == shot[s].gun # "none"

\* tux_get_proportion; a tux is kept by its centre.
BoxOf(r) == Box(r.x - TuxSize \div 2, r.y - TuxSize \div 2, TuxSize, TuxSize)
ShotBox(r) == Box(r.x, r.y, r.w, r.h)
At(r, box) == [r EXCEPT !.x = box.x + TuxSize \div 2, !.y = box.y + TuxSize \div 2,
                        !.stuck = FALSE]

\* module_is_conflict: of all modules only walls and pipes are solid.
InElement(box) == \E m \in {"wall", "pipe"} : \E e \in elements[m] : Conflict(box, e.box)

\* space_is_conflict_with_object_but.
OnTux(T, t, box) == \E u \in Tuxes \ {t} : T[u].status # "none" /\ Conflict(box, BoxOf(T[u]))

Inside(box) == box.x >= 0 /\ box.y >= 0 /\ box.x + box.w <= Width /\ box.y + box.h <= Height

\* arena_is_free_space; items, which it asks for as well, have no place here.
IsFree(T, box) ==
    /\ Inside(box) /\ ~InElement(box)
    /\ \A t \in Tuxes : T[t].status # "none" => ~Conflict(box, BoxOf(T[t]))
    /\ \A s \in Shots : Flies(s) => ~Conflict(box, ShotBox(shot[s]))

\* arena_find_free_space.
FoundPlaces(T) == {b \in {Box(p[1], p[2], TuxSize, TuxSize) : p \in Places} : IsFree(T, b)}

-----------------------------------------------------------------------------
(* Tuxes.  An operator on the tuxes T gives the set of what they may become. *)

\* item_tux_give_list_item: a bonus, a mine, both, or nothing of that.
Picks(T, t) ==
    LET wedged == (T[t].bonus = "ghost" \/ T[t].stuck) /\ InElement(BoxOf(T[t]))
        with(b) == [T EXCEPT ![t].bonus = b, ![t].time = BonusTime, ![t].stuck = wedged]
        killed(R) == [R EXCEPT ![t].status = "dead"]
        dead == [killed(T) EXCEPT ![t].bonus = "none", ![t].time = 0] IN
      {T, dead} \cup {with(b) : b \in Bonuses} \cup {killed(with(b)) : b \in Bonuses}

Step(r) == IF r.bonus = "speed" THEN 2 * TuxStep ELSE TuxStep

AtBorder(r, n) ==
    CASE n = "left" -> r.x - TuxStep <= 0 [] n = "right" -> r.x + TuxStep >= Width
      [] n = "up" -> r.y - TuxStep <= 0 [] n = "down" -> r.y + TuxStep >= Height

MoveTux(T, t, n) ==
    LET there == Ahead(BoxOf(T[t]), n, Step(T[t]))
        box == TuxBox(there)
        blocked == T[t].bonus # "ghost" /\ (OnTux(T, t, box) \/ InElement(box)) IN
      IF T[t].position # n THEN {[T EXCEPT ![t].position = n]}
      ELSE IF AtBorder(T[t], n) \/ blocked THEN {T}
      ELSE Picks([T EXCEPT ![t] = At(@, box)], t)

\* tux_action; shooting is Fire.
TuxAction(T, t, n) == IF T[t].status = "dead" THEN {T} ELSE MoveTux(T, t, n)

Become(results) == \E T \in results : tux' = T

Acts(t, n) ==
    /\ Plays /\ Alive(t) /\ ~tux[t].ai
    /\ Become(TuxAction(tux, t, n))
    /\ UNCHANGED <<phase, arena, shot>>

\* Mutant: the walls are not asked when the time of a ghost is over.
EventBonusAnyway(r) ==
    LET left == IF r.time > 0 THEN r.time - 1 ELSE 0 IN
      IF r.bonus = "none" THEN r
      ELSE IF left = 0 THEN [r EXCEPT !.bonus = "none", !.time = 0]
      ELSE [r EXCEPT !.time = left]

EventBonus(r) ==
    LET left == IF r.time > 0 THEN r.time - 1 ELSE 0 IN
      IF r.bonus = "none" THEN r
      ELSE IF left = 0 /\ ~(r.bonus = "ghost" /\ InElement(BoxOf(r)))
      THEN [r EXCEPT !.bonus = "none", !.time = 0]
      ELSE [r EXCEPT !.time = left]

TuxEvent(t) ==
    /\ Plays /\ Here(t)
    /\ Become(Picks([tux EXCEPT ![t] = EventBonus(@)], t))
    /\ UNCHANGED <<phase, arena, shot>>

\* timer_spawnTux.
Respawns(t) ==
    /\ Plays /\ tux[t].status = "dead"
    /\ \E b \in FoundPlaces(tux) : tux' = [tux EXCEPT ![t] = [At(@, b) EXCEPT !.status = "alive"]]
    /\ UNCHANGED <<phase, arena, shot>>

\* action_tux: a shot kills, or sends who has the bonus somewhere else.  A ball
\* explodes, and whoever is no ghost dies of it if the explosion meets it.
IsHit(t, s) ==
    /\ Plays /\ Flies(s) /\ Alive(t) /\ Conflict(BoxOf(tux[t]), ShotBox(shot[s]))
    /\ \/ /\ tux[t].bonus # "teleport" /\ (shot[s].gun = "ball" => tux[t].bonus # "ghost")
          /\ tux' = [tux EXCEPT ![t] = [@ EXCEPT !.status = "dead", !.bonus = "none", !.time = 0]]
          /\ shot' = [shot EXCEPT ![s] = NoShot]
       \/ /\ tux[t].bonus # "teleport" /\ shot[s].gun = "ball"
          /\ shot' = [shot EXCEPT ![s] = NoShot]
          /\ UNCHANGED tux
       \/ /\ tux[t].bonus = "teleport"
          /\ \E b \in FoundPlaces(tux) : tux' = [tux EXCEPT ![t] = At(@, b)]
          /\ UNCHANGED shot
    /\ UNCHANGED <<phase, arena>>

\* gun_shot and shot_new: a shot begins at the centre of its tux; a laser reaches
\* forward from there.
Fire(t, s, gun) ==
    /\ Plays /\ Alive(t) /\ ~Flies(s)
    /\ LET n == tux[t].position
           long == gun = "laser"
           side == IF gun = "ball" THEN BallSide ELSE 1
           w == IF long /\ n \notin Vertical THEN LaserLength ELSE side
           h == IF long /\ n \in Vertical THEN LaserLength ELSE side
           back(m, d) == IF long /\ n = m THEN d ELSE 0 IN
         shot' = [shot EXCEPT ![s] =
           [x |-> tux[t].x - back("left", LaserLength), y |-> tux[t].y - back("up", LaserLength),
            w |-> w, h |-> h, px |-> Heading(n).x, py |-> Heading(n).y, position |-> n,
            gun |-> gun, author |-> t, del |-> FALSE, exit |-> {}]]
    /\ UNCHANGED <<phase, arena, tux>>

-----------------------------------------------------------------------------
(* What the modules do to a shot.  Results are sets of shots, as above.     *)

Opposite(n) == CASE n = "up" -> "down" [] n = "down" -> "up" [] n = "left" -> "right" [] n = "right" -> "left"

Transformed(r, n) ==
    LET larger(a, b) == IF a > b THEN a ELSE b
        abs(a) == IF a < 0 THEN -a ELSE a
        speed == larger(abs(r.px), abs(r.py))
        turned == [r EXCEPT !.position = n, !.px = speed * Heading(n).x, !.py = speed * Heading(n).y] IN
      IF r.gun # "laser" THEN turned
      ELSE [turned EXCEPT !.w = IF n \in Vertical THEN 1 ELSE LaserLength,
                          !.h = IF n \in Vertical THEN LaserLength ELSE 1]

\* Where a shot of this size appears beside the box it leaves by side n.
Beyond(r, size, n, offset, box) ==
    [r EXCEPT !.x = CASE n \in Vertical -> box.x + offset
                      [] n = "left" -> box.x - (size.w + ShotGap)
                      [] n = "right" -> box.x + box.w + ShotGap,
              !.y = CASE n \notin Vertical -> box.y + offset
                      [] n = "up" -> box.y - (size.h + ShotGap)
                      [] n = "down" -> box.y + box.h + ShotGap,
              !.exit = {box}]

Offset(r, e) == IF r.position \in Vertical THEN r.x - e.box.x ELSE r.y - e.box.y

\* Mutant: the place is computed before the shot is turned.
MoveShotUnturned(r, n, e, far) == Beyond(Transformed(r, n), r, n, Offset(r, e), far.box)

MoveShot(r, n, e, far) ==
    LET s == Transformed(r, n) IN Beyond(s, s, n, Offset(r, e), far.box)

\* shot_bound_bombBall; the place does not change.
Thrown(r, a, b) == [r EXCEPT !.px = a, !.py = b, !.exit = {}]
Bounced(r) == {Thrown(r, a, b) : a \in {1, -1, 0} \ {r.px}, b \in {1, -1, 0} \ {r.py}}

Stopped(r) == IF r.gun = "ball" THEN Bounced(r) ELSE {[r EXCEPT !.del = TRUE]}

\* A ghost who still has time shoots through everything.
PassesAll(r) == tux[r.author].status # "none" /\ tux[r.author].bonus = "ghost" /\ tux[r.author].time > 0

Others(e) == elements["teleport"] \ {e}
Outlets(e) == {f \in elements["pipe"] : f.id = e.out}

ByPipe(e, r) ==
    IF Opposite(r.position) # e.position THEN Stopped(r)
    ELSE IF Outlets(e) = {} THEN {r}
    ELSE {MoveShot(r, f.position, e, f) : f \in Outlets(e)}

ByTeleport(e, r) == {MoveShot(r, n, e, f) : n \in Dirs, f \in Others(e)}

Treat(e, r) ==
    IF PassesAll(r) THEN {r}
    ELSE CASE e.cmd = "wall" -> Stopped(r)
           [] e.cmd = "pipe" -> ByPipe(e, r)
           [] e.cmd = "teleport" -> ByTeleport(e, r)

\* action_eventshot of module m: what it met at the beginning is treated in turn,
\* in the order of the lists of the space; then a shot that is to go goes.
Treated(r, order) == FoldLeft(LAMBDA R, e : UNION {Treat(e, q) : q \in R}, {r}, order)

ModuleEvent(m, r) ==
    IF m \notin Keepers \/ r.gun = "none" THEN {r}
    ELSE LET met == {e \in elements[m] : Conflict(ShotBox(r), e.box)}
             treated == UNION {Treated(r, order) : order \in SetToSeqs(met)} IN
           {IF q.del THEN NoShot ELSE q : q \in treated}

\* action_moveShot.
Flown(r) ==
    LET q == [r EXCEPT !.x = @ + r.px, !.y = @ + r.py] IN
      IF r.gun = "none" \/ q.x + q.w < 0 \/ q.x > Width \/ q.y + q.h < 0 \/ q.y > Height THEN NoShot ELSE q

\* One of the eight rounds of arena_event: module_event, shot_event_move_list.
RoundOf(r) == FoldLeft(LAMBDA R, m : UNION {ModuleEvent(m, q) : q \in R}, {r}, loaded)

ShotRound(s) ==
    /\ Plays /\ Flies(s)
    /\ \E r \in RoundOf(shot[s]) : shot' = [shot EXCEPT ![s] = Flown(r)]
    /\ UNCHANGED <<phase, arena, tux>>

\* move_tux of modMove: beside the far teleport, on the side the tux faces, if
\* there is room (an item may be in the way).
MovedBeside(T, t, far) ==
    LET b == far.box
        n == T[t].position
        box == TuxBox([x |-> CASE n \in Vertical -> b.x + b.w \div 2
                               [] n = "left" -> b.x - (TuxSize + TuxGap)
                               [] n = "right" -> b.x + b.w + TuxGap,
                       y |-> CASE n \notin Vertical -> b.y + b.h \div 2
                               [] n = "up" -> b.y - (TuxSize + TuxGap)
                               [] n = "down" -> b.y + b.h + TuxGap]) IN
      {T} \cup IF IsFree(T, box) THEN {[T EXCEPT ![t] = At(@, box)]} ELSE {}

\* action_eventtux of modTeleport, for the dead as well.
Teleported(T, t, order) ==
    FoldLeft(LAMBDA R, e : UNION {MovedBeside(V, t, f) : V \in R, f \in Others(e)}, {T}, order)

TeleportTux(t) ==
    /\ Plays /\ Here(t) /\ tux[t].bonus # "ghost"
    /\ LET met == {e \in elements["teleport"] : Conflict(BoxOf(tux[t]), e.box)} IN
         /\ met # {} /\ \A e \in met : Others(e) # {}
         /\ \E order \in SetToSeqs(met) : Become(Teleported(tux, t, order))
    /\ UNCHANGED <<phase, arena, shot>>

\* getRandomTeleportBut draws until it is another one.
DrawsForEver ==
    /\ Plays /\ \E e \in elements["teleport"] :
         /\ Others(e) = {}
         /\ \/ \E t \in Tuxes : Here(t) /\ tux[t].bonus # "ghost" /\ Conflict(BoxOf(tux[t]), e.box)
            \/ \E s \in Shots : Flies(s) /\ ~PassesAll(shot[s]) /\ Conflict(ShotBox(shot[s]), e.box)
    /\ phase' = "draws for ever"
    /\ UNCHANGED <<arena, tux, shot>>

-----------------------------------------------------------------------------
(* The computer player.                                                     *)

Rivals(t) == {u \in Tuxes : Here(u) /\ ~tux[u].ai}

Place(t) == [x |-> BoxOf(tux[t]).x, y |-> BoxOf(tux[t]).y]
FreeFor(p) == IsFree(tux, TuxBox(p))

\* shotTux of modAI: it turns to a rival it has in front of it, or goes a step when
\* it looks there already; the shots that follow are Fire.
Turns(T, t, u) ==
    LET a == BoxOf(T[t])
        b == BoxOf(T[u])
        near(c, d) == d > c /\ d < c + AimLimit
        aims == << <<b.y < a.y /\ near(a.x, b.x), "up">>,
                   <<b.x > a.x /\ near(a.y, b.y), "right">>,
                   <<b.x < a.x /\ near(a.y, b.y), "left">>,
                   <<b.y > a.y /\ near(a.x, b.x), "down">> >> IN
      FoldLeft(LAMBDA R, aim : IF aim[1] THEN UNION {TuxAction(V, t, aim[2]) : V \in R} ELSE R, {T}, aims)

\* The way is looked for from where it stood before it turned.
Pursues(T, t, u) ==
    LET Free(p) == IsFree(T, TuxBox(p))
        s == Search(Place(t), Free, BoxOf(T[u])) IN
      IF s.end = "found" THEN TuxAction(T, t, s.route) ELSE {T}

TuxEventAI(t) ==
    /\ Plays /\ IsLoaded("ai") /\ tux[t].ai /\ Alive(t)
    /\ \E u \in Rivals(t) :
         Alive(u) /\ Become(UNION {Pursues(T, t, u) : T \in Turns(tux, t, u)})
    /\ UNCHANGED <<phase, arena, shot>>

-----------------------------------------------------------------------------
(* The beginning and the end of a game.                                     *)

\* prepareArena and the arrival of players: each at a place of its own.
Joins(t) ==
    /\ Plays /\ ~Here(t)
    /\ \E b \in FoundPlaces(tux) : tux' = [tux EXCEPT ![t] = At([Nobody EXCEPT !.status = "alive"], b)]
    /\ UNCHANGED <<phase, arena, shot>>

\* The second tux of a local game is the computer's if its module can be loaded:
\* not when the arena file has done so.
JoinsAI(t) ==
    /\ Plays /\ ~Here(t) /\ Rivals(t) # {} /\ \A u \in Tuxes : ~tux[u].ai
    /\ \E b \in FoundPlaces(tux) :
         tux' = [tux EXCEPT ![t] = At([Nobody EXCEPT !.status = "alive", !.ai = ~IsLoaded("ai")], b)]
    /\ ModuleLoad("ai")
    /\ UNCHANGED <<phase, file, line, current, elements, shot>>

Ready ==
    /\ phase = "load" /\ line = Len(file)
    /\ phase' = IF current THEN "play" ELSE "no arena"
    /\ UNCHANGED <<arena, tux, shot>>

\* The destroy functions of the modules.
Destroy == elements' = [m \in Keepers |-> {}]

\* A module that was loaded and kept nothing has no space to destroy.
LacksSpace(m) == IsLoaded(m) /\ elements[m] = {}

\* stoptWorld: module_quit destroys the space of every module, which must be there.
Quit ==
    /\ Plays
    /\ IF \E m \in Keepers : LacksSpace(m)
       THEN phase' = "no space" /\ UNCHANGED <<arena, tux, shot>>
       ELSE /\ phase' = "menu" /\ file' = <<>> /\ line' = 0 /\ loaded' = <<>> /\ shared' = {}
            /\ Destroy
            /\ tux' = [t \in Tuxes |-> Nobody] /\ shot' = [s \in Shots |-> NoShot]
            /\ UNCHANGED current

Init ==
    /\ phase = "menu" /\ file = <<>> /\ line = 0 /\ current = FALSE
    /\ loaded = <<>> /\ shared = {} /\ elements = [m \in Keepers |-> {}]
    /\ tux = [t \in Tuxes |-> Nobody] /\ shot = [s \in Shots |-> NoShot]

Next ==
    \/ \E f \in Files : Start(f)
    \/ ReadLine \/ Ready \/ Quit \/ DrawsForEver
    \/ \E t \in Tuxes :
         \/ Joins(t) \/ JoinsAI(t) \/ TuxEvent(t) \/ TeleportTux(t) \/ Respawns(t) \/ TuxEventAI(t)
         \/ \E n \in Dirs : Acts(t, n)
         \/ \E s \in Shots : IsHit(t, s) \/ \E g \in {"simple", "laser", "ball"} : Fire(t, s, g)
    \/ \E s \in Shots : ShotRound(s)

Spec == Init /\ [][Next]_vars

-----------------------------------------------------------------------------
(* Properties.                                                              *)

\* Who is alive and no ghost stands in no wall and no pipe, however it came there:
\* walking, sent by a teleport, drawn a place, or at the end of its time as a
\* ghost.  The one exception is who picks up another bonus as a ghost.
SolidStandsFree ==
    \A t \in Tuxes : (Alive(t) /\ tux[t].bonus # "ghost" /\ InElement(BoxOf(tux[t]))) => tux[t].stuck

\* A shot that has come out of a pipe or a teleport stays clear of it until
\* something else turns it: it is not thrown back or stopped by its own exit.
ClearOfExit ==
    \A s \in Shots : \A box \in shot[s].exit : ~Conflict(ShotBox(shot[s]), box)

\* A module is in the list once and after what it depends on, the functions it
\* asks for are there, and it has exactly the objects of the lines of this file
\* that follow the line that loads it.
LoadsInOrder ==
    LET after(m) == {i \in 1 .. line : file[i].cmd = "loadModule" /\ file[i].file = m}
        mine(m) == {i \in 1 .. line : file[i].cmd = m /\ file[i].whole /\ \E j \in after(m) : j < i} IN
      phase \in {"menu", "load", "play"} =>
        /\ \A i, j \in DOMAIN loaded : loaded[i] = loaded[j] => i = j
        /\ \A j \in DOMAIN loaded : loaded[j] \in {"pipe", "teleport"} =>
             Moves \subseteq shared /\ \E i \in 1 .. j - 1 : loaded[i] = "move"
        /\ \A m \in Keepers : elements[m] = {file[i] : i \in mine(m)}

\* The search of the computer player ends, what it finds leads to the rival, and
\* it finds none only where there is none or after its last look.
AIFindsTheWay ==
    Plays => \A t, u \in Tuxes :
      (tux[t].ai /\ Alive(t) /\ u \in Rivals(t) /\ Alive(u)) => FindsTheWay(Place(t), FreeFor, BoxOf(tux[u]))
=============================================================================
