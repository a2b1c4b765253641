------------------------------ MODULE Replica ------------------------------
(***************************************************************************)
(* The copy of the arena that a client keeps (the client handlers of       *)
(* base/proto.c, with client/radar.c and the ids of base/idManager.c),     *)
(* fed by a server over UDP.                                               *)
(*                                                                         *)
(* "init", "del" and "additem" are written again until they are answered   *)
(* or have been written MaxSend + 1 times (module CheckFront); all other   *)
(* messages are written once.  A network either keeps the order of what it *)
(* carries or does not, and loses anything.  Ids are names: an object of   *)
(* the server keeps its id for good, and no id is drawn twice.             *)
(***************************************************************************)
EXTENDS Integers, Sequences, FiniteSets, SequencesExt

CONSTANTS
    Me,             \* the tux of this client
    Others,         \* the tuxes of the other players
    Items,          \* guns, bonuses and mines
    Explosions,     \* the items that end by themselves
    Shots,
    Author,         \* shot -> the tux that fires it
    MaxRound,       \* rounds of the match, as "init" tells them
    MaxSend,        \* CHECK_FRONT_MAX_COUNT_SEND
    MaxDown,        \* bound: datagrams on their way
    MaxChanges      \* bound: deaths, respawns and bonuses of tuxes

Tuxes == {Me} \cup Others
AllItems == Items \cup Explosions
Objects == Tuxes \cup AllItems \cup Shots

ASSUME ReplicaAssumption ==
    /\ Me \notin Others
    /\ IsFiniteSet(Objects)
    /\ Tuxes \cap AllItems = {} /\ Items \cap Explosions = {}
    /\ Shots \cap (Tuxes \cup AllItems) = {}
    /\ Author \in [Shots -> Tuxes]
    /\ MaxRound \in Nat /\ MaxSend \in Nat /\ MaxDown \in Nat /\ MaxChanges \in Nat

VARIABLES
    \* the server
    srv,            \* object -> "no", "here" in the arena, or "gone"
    look,           \* tux -> its status, with the bonus that hides it
    deaths,         \* countRound of its arena
    changes,
    gun,            \* shot -> what it was fired with
    left,           \* reliable message -> writes left (0: not in the queue)
    given,          \* the reliable messages that left the queue unanswered
    \* the network
    ordered,        \* whether it keeps the order
    down,           \* datagrams to the client
    up,             \* the answers on their way back
    \* the client
    arena,          \* whether there is a current arena
    tux,            \* the tuxes it knows, with their looks
    items, shots,   \* the other objects it knows
    going,          \* the shots timer_delShot is pending for
    radar,          \* the points on the radar, without its own
    ids,            \* its register of ids
    rounds,         \* countRound of its arena
    told,           \* the objects whose "del" it has handled
    crashed         \* "no", or what stopped the process

server == <<srv, look, deaths, changes, gun>>
queue == <<left, given>>
network == <<ordered, down, up>>
client == <<arena, tux, items, shots, going, radar, ids, rounds, told, crashed>>
vars == <<server, queue, network, client>>

Looks == {"alive", "dead", "hidden"}
Guns == {"simple", "laser"}
Msg(c, o, k) == [cmd |-> c, obj |-> o, kind |-> k]
InitMsg == Msg("init", Me, "")
Del(o) == Msg("del", o, "")
Additem(i) == Msg("additem", i, "")
Newtux(t) == Msg("newtux", t, look[t])
Reliable == {InitMsg} \cup {Del(o) : o \in Objects} \cup {Additem(i) : i \in AllItems}
Simple == [cmd : {"newtux"}, obj : Tuxes, kind : Looks]
    \cup [cmd : {"kill", "event"}, obj : Tuxes, kind : {""}]
    \cup [cmd : {"shot"}, obj : Shots, kind : Guns]

Here(o) == srv[o] = "here"
Joined == srv[Me] # "no"

-----------------------------------------------------------------------------
(* Sending: the first write follows at once, in the order of the calls.    *)

\* The queue of the client takes these messages.  Who has no tux is not told.
Send(msgs) ==
    IF Joined
    THEN /\ Len(down) + Len(msgs) <= MaxDown
         /\ down' = down \o msgs
         /\ left' = [m \in Reliable |-> IF m \in ToSet(msgs) THEN MaxSend ELSE left[m]]
         /\ given' = given \cup {m \in ToSet(msgs) \cap Reliable : MaxSend = 0}
         /\ UNCHANGED <<ordered, up, client>>
    ELSE UNCHANGED <<queue, network, client>>

\* check_front_event: a message that was not answered is written again.
WriteAgain(m) ==
    /\ left[m] > 0
    /\ Len(down) < MaxDown
    /\ down' = Append(down, m)
    /\ left' = [left EXCEPT ![m] = @ - 1]
    /\ given' = IF left[m] = 1 THEN given \cup {m} ELSE given
    /\ UNCHANGED <<server, ordered, up, client>>

-----------------------------------------------------------------------------
(* The server.                                                             *)

\* proto_recv_hello_server and sendInfoCreateClient: the arena, every tux, every
\* item.
Accept ==
    /\ srv[Me] = "no"
    /\ srv' = [srv EXCEPT ![Me] = "here"]
    /\ LET tuxes == {t \in Tuxes : srv'[t] = "here"}
           lying == {i \in AllItems : Here(i)}
           msgs == <<InitMsg>> \o SetToSeq({Newtux(t) : t \in tuxes})
                               \o SetToSeq({Additem(i) : i \in lying}) IN
         /\ down' = down \o msgs
         /\ left' = [m \in Reliable |-> IF m \in ToSet(msgs) THEN MaxSend ELSE left[m]]
         /\ given' = given \cup {m \in ToSet(msgs) \cap Reliable : MaxSend = 0}
    /\ UNCHANGED <<look, deaths, changes, gun, ordered, up, client>>

Join(t) ==
    /\ t \in Others /\ srv[t] = "no"
    /\ srv' = [srv EXCEPT ![t] = "here"]
    /\ Send(<<Newtux(t)>>)
    /\ UNCHANGED <<look, deaths, changes, gun>>

\* delZombieCLient.
Leave(t) ==
    /\ t \in Others /\ Here(t)
    /\ srv' = [srv EXCEPT ![t] = "gone"]
    /\ Send(<<Del(t)>>)
    /\ UNCHANGED <<look, deaths, changes, gun>>

Changes(t, l) ==
    /\ Here(t) /\ changes < MaxChanges
    /\ changes' = changes + 1
    /\ look' = [look EXCEPT ![t] = l]
    /\ UNCHANGED <<srv, gun>>

\* tux_event_tux_is_dead; whoever scores is told of as well (newtux).
Die(t) ==
    /\ look[t] # "dead"
    /\ Changes(t, "dead")
    /\ deaths' = IF deaths < MaxRound THEN deaths + 1 ELSE deaths
    /\ \E scored \in {<<>>} \cup {<<Newtux(a)>> : a \in {b \in Tuxes : Here(b)}} :
         Send(scored \o <<Msg("kill", t, "")>>)

\* timer_spawnTux, tuxGiveBonus and eventBonus tell everybody of the tux.
Appears(t) ==
    /\ \/ look[t] \in {"dead", "hidden"} /\ Changes(t, "alive")
       \/ look[t] = "alive" /\ Changes(t, "hidden")
    /\ Send(<<Msg("newtux", t, look'[t])>>)
    /\ UNCHANGED deaths

\* proto_recv_event_server: not from a hidden tux, and to who is near.
Acts(t) ==
    /\ t \in Others /\ Here(t) /\ look[t] # "hidden"
    /\ Send(<<Msg("event", t, "")>>)
    /\ UNCHANGED server

\* eventPeriodicSyncClient: the other tuxes that are near.
PeriodicSync(near) ==
    /\ near \subseteq {t \in Others : Here(t)} /\ near # {}
    /\ Send(SetToSeq({Newtux(t) : t \in near}))
    /\ UNCHANGED server

AddItem(i) ==
    /\ i \in AllItems /\ srv[i] = "no"
    /\ srv' = [srv EXCEPT ![i] = "here"]
    /\ Send(<<Additem(i)>>)
    /\ UNCHANGED <<look, deaths, changes, gun>>

\* Taken, or a mine that explodes.
DelItem(i) ==
    /\ i \in Items /\ Here(i)
    /\ srv' = [srv EXCEPT ![i] = "gone"]
    /\ Send(<<Del(i)>>)
    /\ UNCHANGED <<look, deaths, changes, gun>>

\* Nobody is told of the end of an explosion, or of a shot that left the arena.
EndsUntold(o) ==
    /\ o \in Explosions \cup Shots /\ Here(o)
    /\ srv' = [srv EXCEPT ![o] = "gone"]
    /\ UNCHANGED <<look, deaths, changes, gun, queue, network, client>>

\* addShotTrivial: the tux is there; who sees the shot is told later.
Fire(s) ==
    /\ s \in Shots /\ srv[s] = "no" /\ Here(Author[s]) /\ look[Author[s]] # "dead"
    /\ srv' = [srv EXCEPT ![s] = "here"]
    /\ UNCHANGED <<look, deaths, changes, gun, queue, network, client>>

\* shot_check_is_tux_screen when it comes into sight, shot_bound_bombBall when it
\* bounces.
ShowShot(s) ==
    /\ s \in Shots /\ Here(s)
    /\ Send(<<Msg("shot", s, gun[s])>>)
    /\ UNCHANGED server

DelShot(s) ==
    /\ s \in Shots /\ Here(s)
    /\ srv' = [srv EXCEPT ![s] = "gone"]
    /\ Send(<<Del(s)>>)
    /\ UNCHANGED <<look, deaths, changes, gun>>

\* proto_recv_check_server.
RecvCheck(m) ==
    /\ m \in up
    /\ up' = up \ {m}
    /\ left' = [left EXCEPT ![m] = 0]
    /\ UNCHANGED <<server, given, ordered, down, client>>

-----------------------------------------------------------------------------
(* The client: one handler per message.  m is taken from the network.      *)

\* The next datagram of an orderly network, any one of the other; it may be lost.
Arrives(i) == i \in DOMAIN down /\ (ordered => i = 1)
Takes(i) == down' = RemoveAt(down, i)

Lose(i) ==
    /\ Arrives(i) /\ Takes(i)
    /\ UNCHANGED <<server, queue, ordered, up, client>>

LoseAnswer(m) ==
    /\ m \in up
    /\ up' = up \ {m}
    /\ UNCHANGED <<server, queue, ordered, down, client>>

Knows == DOMAIN tux \cup items \cup shots
Answers(m) == up' = up \cup {m}
AnswersNothing == UNCHANGED up
Ignores == UNCHANGED client

\* world_event draws the point of the own tux again in each turn.
Point(t) == {t} \ {Me}

\* The tuxes with t as he is told of.
Seen(t, l) == [u \in DOMAIN tux \cup {t} |-> IF u = t THEN l ELSE tux[u]]

\* id_replace after tux_new, item_new or shot_new: the temporary id is gone, and
\* the assertion of id_replace is that the id of the server is not registered.
Registers(o, register) ==
    /\ ids' = register \cup {o}
    /\ crashed' = IF o \in register THEN "id_replace" ELSE "no"

Stops(why) == crashed' = why /\ UNCHANGED <<arena, tux, items, shots, going, radar, ids, rounds, told>>

RecvInit ==
    /\ Answers(InitMsg)
    /\ IF arena THEN Ignores
       ELSE /\ arena' = TRUE
            /\ tux' = [t \in {Me} |-> "alive"]
            /\ Registers(Me, ids)
            /\ UNCHANGED <<items, shots, going, radar, rounds, told>>

\* Mutant: a tux that is told to be dead is counted as killed.
RecvNewtuxCounts(t, l) ==
    /\ AnswersNothing
    /\ IF ~arena THEN Ignores
       ELSE /\ tux' = Seen(t, l)
            /\ radar' = radar \cup Point(t)
            /\ IF t \in DOMAIN tux THEN UNCHANGED <<ids, crashed>> ELSE Registers(t, ids)
            /\ rounds' = IF l = "dead" /\ rounds < MaxRound
                            /\ (t \in DOMAIN tux => tux[t] # "dead") THEN rounds + 1 ELSE rounds
            /\ UNCHANGED <<arena, items, shots, going, told>>

\* Who is not known is made.  The point on the radar goes when the tux was hidden.
RecvNewtux(t, l) ==
    /\ AnswersNothing
    /\ IF ~arena THEN Ignores
       ELSE /\ tux' = Seen(t, l)
            /\ radar' = IF t \in DOMAIN tux /\ tux[t] = "hidden" THEN radar \ {t} ELSE radar \cup Point(t)
            /\ IF t \in DOMAIN tux THEN UNCHANGED <<ids, crashed>> ELSE Registers(t, ids)
            /\ UNCHANGED <<arena, items, shots, going, rounds, told>>

\* space_get_object_id of the arena there is not.
Early == ~arena /\ Stops("no arena")

RecvEvent(t) ==
    /\ AnswersNothing
    /\ \/ Early
       \/ arena /\ t \notin DOMAIN tux /\ Ignores
       \/ /\ arena /\ t \in DOMAIN tux
          /\ radar' = radar \cup Point(t)
          /\ UNCHANGED <<arena, tux, items, shots, going, ids, rounds, told, crashed>>

\* tux_event_tux_is_dead on the client: no timer, and nobody is told.
RecvKill(t) ==
    /\ AnswersNothing
    /\ \/ Early
       \/ arena /\ (t \in DOMAIN tux => tux[t] = "dead") /\ Ignores
       \/ /\ arena /\ t \in DOMAIN tux /\ tux[t] # "dead"
          /\ tux' = [tux EXCEPT ![t] = "dead"]
          /\ rounds' = IF rounds < MaxRound THEN rounds + 1 ELSE rounds
          /\ UNCHANGED <<arena, items, shots, going, radar, ids, told, crashed>>

\* Mutant: the id is looked for among the items only.
RecvDelItem(o) ==
    /\ Answers(Del(o))
    /\ \/ Early
       \/ /\ arena
          /\ told' = told \cup {o}
          /\ items' = items \ {o}
          /\ ids' = ids \ (items \cap {o})
          /\ UNCHANGED <<arena, tux, shots, going, radar, rounds, crashed>>

\* A shot is deleted by timer_delShot; what is not known is answered all the same.
RecvDel(o) ==
    /\ Answers(Del(o))
    /\ \/ Early
       \/ /\ arena
          /\ told' = told \cup {o}
          /\ tux' = [t \in DOMAIN tux \ {o} |-> tux[t]]
          /\ items' = items \ {o}
          /\ going' = IF o \in shots THEN going \cup {o} ELSE going
          /\ radar' = IF o \in DOMAIN tux \cup items THEN radar \ {o} ELSE radar
          /\ ids' = IF o \in DOMAIN tux \cup items THEN ids \ {o} ELSE ids
          /\ UNCHANGED <<arena, shots, rounds, crashed>>

\* Mutant: answered before the arena is asked for.
RecvAdditemAnswered(i) ==
    /\ Answers(Additem(i))
    /\ IF ~arena \/ i \in items THEN Ignores
       ELSE /\ items' = items \cup {i}
            /\ radar' = IF i \in Explosions THEN radar ELSE radar \cup {i}
            /\ Registers(i, ids)
            /\ UNCHANGED <<arena, tux, shots, going, rounds, told>>

\* Not answered without an arena, so it will be written again.
RecvAdditem(i) ==
    IF ~arena THEN AnswersNothing /\ Ignores
    ELSE /\ Answers(Additem(i))
         /\ IF i \in items THEN Ignores
            ELSE /\ items' = items \cup {i}
                 /\ radar' = IF i \in Explosions THEN radar ELSE radar \cup {i}
                 /\ Registers(i, ids)
                 /\ UNCHANGED <<arena, tux, shots, going, rounds, told>>

\* Mutant: a shot that is known is not deleted first.
RecvShotTwice(s, g) ==
    /\ AnswersNothing
    /\ \/ Early
       \/ arena /\ g = "laser" /\ Author[s] \notin DOMAIN tux /\ Stops("no author")
       \/ /\ arena /\ (g = "laser" => Author[s] \in DOMAIN tux)
          /\ shots' = shots \cup {s}
          /\ Registers(s, ids)
          /\ UNCHANGED <<arena, tux, items, going, radar, rounds, told>>

\* A shot that is known is replaced.  shot_new asks a laser's author for his
\* position, known or not.
RecvShot(s, g) ==
    /\ AnswersNothing
    /\ \/ Early
       \/ arena /\ g = "laser" /\ Author[s] \notin DOMAIN tux /\ Stops("no author")
       \/ /\ arena /\ (g = "laser" => Author[s] \in DOMAIN tux)
          /\ shots' = shots \cup {s}
          /\ Registers(s, ids \ {s})
          /\ UNCHANGED <<arena, tux, items, going, radar, rounds, told>>

Handles(m) ==
    \/ m.cmd = "init" /\ RecvInit
    \/ m.cmd = "newtux" /\ RecvNewtux(m.obj, m.kind)
    \/ m.cmd = "event" /\ RecvEvent(m.obj)
    \/ m.cmd = "kill" /\ RecvKill(m.obj)
    \/ m.cmd = "del" /\ RecvDel(m.obj)
    \/ m.cmd = "additem" /\ RecvAdditem(m.obj)
    \/ m.cmd = "shot" /\ RecvShot(m.obj, m.kind)

Runs == crashed = "no"

Recv(i) ==
    /\ Runs /\ Arrives(i) /\ Takes(i)
    /\ Handles(down[i])
    /\ UNCHANGED <<server, queue, ordered>>

\* The shot may have left the arena, or have been shown again, meanwhile.
TimerDelShot(s) ==
    /\ Runs /\ s \in going
    /\ going' = going \ {s}
    /\ shots' = shots \ {s}
    /\ ids' = ids \ ({s} \cap shots)
    /\ UNCHANGED <<server, queue, network, arena, tux, items, radar, rounds, told, crashed>>

\* action_moveShot beyond the border, action_itemevent after the last frame.
EndsHere(o) ==
    /\ Runs /\ o \in shots \cup (items \cap Explosions)
    /\ shots' = shots \ {o}
    /\ items' = items \ {o}
    /\ ids' = ids \ {o}
    /\ UNCHANGED <<server, queue, network, arena, tux, going, radar, rounds, told, crashed>>

-----------------------------------------------------------------------------
Init ==
    /\ srv \in [Objects -> {"no", "here"}]
    /\ \A o \in {Me} \cup Shots : srv[o] = "no"
    /\ look = [t \in Tuxes |-> "alive"]
    /\ deaths = 0 /\ changes = 0
    /\ gun \in [Shots -> Guns]
    /\ left = [m \in Reliable |-> 0] /\ given = {}
    /\ ordered \in BOOLEAN /\ down = <<>> /\ up = {}
    /\ arena = FALSE /\ tux = <<>> /\ items = {} /\ shots = {} /\ going = {}
    /\ radar = {} /\ ids = {} /\ rounds = 0 /\ told = {} /\ crashed = "no"

ServerStep ==
    \/ Accept
    \/ \E t \in Tuxes : Join(t) \/ Leave(t) \/ Die(t) \/ Appears(t) \/ Acts(t)
    \/ \E near \in SUBSET Others : PeriodicSync(near)
    \/ \E i \in AllItems : AddItem(i) \/ DelItem(i)
    \/ \E s \in Shots : Fire(s) \/ ShowShot(s) \/ DelShot(s)
    \/ \E o \in Objects : EndsUntold(o)
    \/ \E m \in Reliable : WriteAgain(m) \/ RecvCheck(m)

ClientStep ==
    \/ \E i \in DOMAIN down : Recv(i)
    \/ \E s \in Shots : TimerDelShot(s)
    \/ \E o \in Objects : EndsHere(o)

Next ==
    \/ ServerStep
    \/ ClientStep
    \/ \E i \in DOMAIN down : Lose(i)
    \/ \E m \in Reliable : LoseAnswer(m)

Spec == Init /\ [][Next]_vars

-----------------------------------------------------------------------------
(* Properties.                                                             *)

\* The state's types.
TypeOK ==
    /\ srv \in [Objects -> {"no", "here", "gone"}] /\ look \in [Tuxes -> Looks]
    /\ deaths \in Nat /\ changes \in Nat /\ gun \in [Shots -> Guns]
    /\ left \in [Reliable -> Nat] /\ given \subseteq Reliable
    /\ ordered \in BOOLEAN /\ down \in Seq(Reliable \cup Simple) /\ up \subseteq Reliable
    /\ arena \in BOOLEAN
    /\ DOMAIN tux \subseteq Tuxes /\ \A t \in DOMAIN tux : tux[t] \in Looks
    /\ items \subseteq AllItems /\ shots \subseteq Shots /\ going \subseteq Shots
    /\ radar \subseteq Objects /\ ids \subseteq Objects /\ told \subseteq Objects
    /\ rounds \in Nat /\ crashed \in {"no", "no arena", "no author", "id_replace"}

\* Messages that are lost, repeated and overtake each other leave no id behind
\* and never register one twice, which would stop the client in id_replace; and
\* every point on the radar belongs to something that is there.
ReplicaSound ==
    /\ crashed # "id_replace"
    /\ ids = Knows
    /\ radar \subseteq Knows \ Shots

\* Over a network that keeps the order a player who has left is never made again
\* by a "newtux" of before his "del", which is written again and again (proto.c:507).
GoneStayGone == ordered => told \cap DOMAIN tux = {}

\* The match does not end earlier for the client than for the server, whatever
\* is repeated and overtaken: a death is counted once at most.
RoundsNotAhead == rounds <= deaths

\* When all is handled and nothing was given up the client has every item of the
\* server and no player who has left, although what came too early was lost on
\* it, unless something of him has overtaken his "del".
QuietAgrees ==
    (arena /\ crashed = "no" /\ down = <<>> /\ given = {} /\ \A m \in Reliable : left[m] = 0) =>
        /\ \A i \in Items : Here(i) => i \in items
        /\ ordered => \A t \in DOMAIN tux : Here(t)
=============================================================================
