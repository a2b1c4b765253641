------------------------------ MODULE MCCourse ------------------------------
(* Small instances of Course for TLC: an arena of 9 by 6, a measure of about    *)
(* 15 pixels.                                                       *)
EXTENDS Course, TLC

CONSTANTS t1, t2, s1

TwoTuxes == {t1, t2}
OneShot == {s1}
SomeBonuses == {"ghost", "teleport"}
SomePlaces == {<<0, 0>>, <<4, 3>>, <<4, 1>>, <<7, 4>>}

Arena == [cmd |-> "arena"]
Load(m) == [cmd |-> "loadModule", file |-> m]
Other == [cmd |-> "other"]
Music == [cmd |-> "playMusic"]
Wall(box) == [cmd |-> "wall", whole |-> TRUE, box |-> box]
Teleport(box) == [cmd |-> "teleport", whole |-> TRUE, box |-> box]
Pipe(box, id, out, n) ==
    [cmd |-> "pipe", whole |-> TRUE, box |-> box, id |-> id, out |-> out, position |-> n]
BrokenWall == [Wall(Box(0, 0, 1, 1)) EXCEPT !.whole = FALSE]

\* Pipes that turn what comes out of them, a wall, and lines that change nothing.
Pipes == <<Load("pipe"), Arena, Wall(Box(0, 2, 1, 1)), Load("wall"), Other, Music,
    Wall(Box(6, 0, 2, 1)), BrokenWall, Load("move"), Load("pipe"),
    Pipe(Box(3, 0, 1, 2), 1, 2, "left"), Pipe(Box(6, 2, 1, 1), 2, 1, "down")>>

Teleports == <<Arena, Load("move"), Load("teleport"), Load("nowhere"),
    Teleport(Box(2, 2, 1, 1)), Teleport(Box(5, 3, 2, 1))>>

\* The computer player among walls, and one whose module is loaded too early.
Walls == <<Arena, Load("wall"), Wall(Box(3, 2, 1, 4)), Wall(Box(6, 0, 1, 3))>>
Early == <<Arena, Load("ai"), Load("wall"), Wall(Box(4, 3, 1, 1))>>

\* What stops the program.
Lonely == <<Arena, Load("teleport"), Teleport(Box(4, 2, 1, 1))>>
TooEarly == <<Load("wall"), Wall(Box(0, 0, 1, 1))>>
NoArena == <<Load("basic")>>
TooLoud == <<Music, Arena>>
TwicePipe == <<Arena, Load("pipe"), Pipe(Box(3, 0, 1, 2), 1, 1, "left"),
               Pipe(Box(6, 2, 1, 1), 1, 1, "down")>>

Numbered(f) ==
    [i \in DOMAIN f |-> IF f[i].cmd \in Keepers THEN f[i] @@ [no |-> i] ELSE f[i]]

SomeFiles == {Numbered(f) :
    f \in {Pipes, Teleports, Walls, Early, Lonely, TooEarly, TooLoud, NoArena, TwicePipe}}

\* Bounds: a second tux comes only to walls, and then nothing is shot or picked up;
\* a shot flies while the one who stays stands where a tux is placed.
Small ==
    IF Cardinality({t \in Tuxes : Here(t)}) = 2
    THEN /\ file \in {Numbered(Walls), Numbered(Early)}
         /\ \A s \in Shots : ~Flies(s)
         /\ \A t \in Tuxes : tux[t].bonus = "none"
    ELSE (\E s \in Shots : Flies(s)) =>
           \A t \in Tuxes : Alive(t) => <<BoxOf(tux[t]).x, BoxOf(tux[t]).y>> \in Places
=============================================================================
