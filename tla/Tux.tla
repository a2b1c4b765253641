-------------------------------- MODULE Tux --------------------------------
(***************************************************************************)
(* The life of the tuxes in the arena: they shoot, switch guns, pick items *)
(* up, die, respawn and leave (base/tux.c, base/gun.c, base/item.c,        *)
(* base/shot.c, base/myTimer.c and the rounds of screen/world.c), in the   *)
(* program that runs the arena: a local game or a server.                  *)
(*                                                                         *)
(* A tux waits for time to pass in timers, which know it by its id only:   *)
(* they are neither removed when it dies nor when it leaves.  A local game *)
(* may be saved and taken up again (client/saveLoad.c), its timers not.    *)
(*                                                                         *)
(* Nobody has a position.  What a shot hits, what a tux touches, whether a *)
(* ghost stands in a wall and whether a place is free is a choice.  Equal  *)
(* shots are one element of flying, and one that is spent may leave others *)
(* like it.  Two loops are walked one callback a step, as nothing runs     *)
(* between their callbacks: timer_event (walk) and the items under a tux   *)
(* (toucher, touched).  arena_event runs the other handlers in a fixed     *)
(* order; here they come in any.  Scores, messages and sounds are left     *)
(* out, and no tux gets an id that another had.                            *)
(***************************************************************************)
EXTENDS Integers, Sequences, FiniteSets

CONSTANTS
    Tuxes,          \* ids of tuxes
    NetTuxes,       \* those with TUX_CONTROL_NET: their players may leave; none
                    \* in a local game
    NoTux,          \* ID_UNKNOWN
    Items,          \* ids of items; as many may lie in the arena at once
    Guns,           \* the guns of the game, a part of 0 .. 6
    Bonuses,        \* the bonuses of the game, a part of 10 .. 15
    GunMaxShot,     \* GUN_MAX_SHOT
    MaxBonus,       \* TUX_MAX_BONUS, in calls of tux_event
    MaxPickup,      \* TUX_MAX_PICKUP, in calls of tux_event
    SpawnTime,      \* TUX_TIME_SPAWN, in clock ticks
    CanShotTime,    \* TUX_TIME_CAN_SHOT
    CanSwitchTime,  \* TUX_TIME_CAN_SWITCH_GUN
    TommyTimes,     \* when the shots of a tommy gun's volley are fired
    LaserTimes,     \* when those of a laser are
    MaxRound,       \* arena->max_countRound, 0 for WORLD_COUNT_ROUND_UNLIMITED
    EndTime,        \* TIMER_END_ARENA
    MaxAmmo,        \* bound: shots of one gun a tux can have
    MaxTimers       \* bound: nobody shoots or switches when as many tasks wait

GUN_SIMPLE == 0
GUN_TOMMY == 3
GUN_LASSER == 4
GUN_MINE == 5
GUN_BOMBBALL == 6
ITEM_NONE == -1                 \* no item has this id
ITEM_MINE == 7
ITEM_BIG_EXPLOSION == 9
BONUS_NONE == -1
BONUS_SHOT == 11
BONUS_TELEPORT == 12
BONUS_GHOST == 13

ASSUME TuxAssumption ==
    /\ NetTuxes \subseteq Tuxes /\ NoTux \notin Tuxes
    /\ Guns \subseteq 0 .. 6 /\ GUN_SIMPLE \in Guns /\ Bonuses \subseteq 10 .. 15
    /\ GunMaxShot \in Nat \ {0} /\ MaxAmmo \in Nat /\ GunMaxShot <= MaxAmmo
    /\ MaxBonus \in Nat \ {0} /\ MaxPickup \in Nat \ {0}
    /\ MaxRound \in Nat /\ EndTime \in Nat /\ MaxTimers \in Nat
    /\ SpawnTime \in Nat /\ CanShotTime \in Nat /\ CanSwitchTime \in Nat
    /\ TommyTimes \in Seq(Nat) /\ LaserTimes \in Seq(Nat)

\* Whatever a tux starts ends before it can live again (base/tux.h, base/gun.c):
\* 500, 100, 900 and 490 ms against 2000.
ASSUME SpawnIsLast ==
    /\ CanShotTime <= SpawnTime /\ CanSwitchTime <= SpawnTime
    /\ \A i \in DOMAIN TommyTimes : TommyTimes[i] <= SpawnTime
    /\ \A i \in DOMAIN LaserTimes : LaserTimes[i] <= SpawnTime

VARIABLES
    tux,            \* id -> tux_t
    timers,         \* arena->listTimer, oldest first
    walk,           \* the next task timer_event looks at, 0 when it does not run
    toucher,        \* the tux of item_tux_give_list_item, NoTux when none
    touched,        \* the items it has still to see
    items,          \* arena->spaceItem
    flying,         \* the kinds of shots in arena->spaceShot
    round,          \* arena->countRound
    ended,          \* isEndWorld
    lost            \* history: whose spawn timer, and NoTux if the end of the
                    \* match, was left behind when the game was saved

vars == <<tux, timers, walk, toucher, touched, items, flying, round, ended, lost>>

TuxTasks == {"spawn", "canShot", "canSwitch", "tommy", "lasser"}
Timer == [task : TuxTasks, tux : Tuxes, left : Nat]
            \cup [task : {"end"}, tux : {NoTux}, left : Nat]
Item == [type : {ITEM_NONE, ITEM_MINE, ITEM_BIG_EXPLOSION} \cup Guns \cup Bonuses,
         author : Tuxes \cup {NoTux}]
Shot == [author : Tuxes, ball : BOOLEAN, home : BOOLEAN]    \* home: isCanKillAuthor
TuxRecord ==
    [status : {"unborn", "alive", "dead", "gone"}, gun : Guns,
     ammo : [Guns -> 0 .. MaxAmmo], bonus : Bonuses \cup {BONUS_NONE},
     bonusTime : 0 .. MaxBonus, pickup : 0 .. MaxPickup,
     canShot : BOOLEAN, canSwitch : BOOLEAN, inWall : BOOLEAN]

TypeOK ==
    /\ tux \in [Tuxes -> TuxRecord]
    /\ timers \in Seq(Timer)
    /\ walk \in 0 .. Len(timers) + 1
    /\ toucher \in Tuxes \cup {NoTux}
    /\ touched \in SUBSET Items
    /\ items \in [Items -> Item]
    /\ flying \in SUBSET Shot
    /\ round \in 0 .. MaxRound
    /\ ended \in BOOLEAN
    /\ lost \in SUBSET (Tuxes \cup {NoTux})

-----------------------------------------------------------------------------
Task(k, t, time) == [task |-> k, tux |-> t, left |-> time]
NoItem == [type |-> ITEM_NONE, author |-> NoTux]

Alive(t) == tux[t].status = "alive"
Dead(t) == tux[t].status = "dead"
Present(t) == Alive(t) \/ Dead(t)           \* space_get_object_id finds it
Lying == {i \in Items : items[i] # NoItem}
Free == Items \ Lying

\* Nobody is in one of the loops, and the world has not ended.
Idle == walk = 0 /\ toucher = NoTux /\ ~ended

\* tux_is_any_gun asks whether there is one.
Loaded(r) == {g \in Guns : r.ammo[g] > 0}

NewTux(g) ==
    [status |-> "alive", gun |-> g,
     ammo |-> [h \in Guns |-> IF h = g THEN GunMaxShot ELSE 0],
     bonus |-> BONUS_NONE, bonusTime |-> 0, pickup |-> 0,
     canShot |-> TRUE, canSwitch |-> TRUE, inWall |-> FALSE]

Nobody(s) == [NewTux(GUN_SIMPLE) EXCEPT !.status = s]

\* What item_add_new_item adds.
NewItems == [type : (Guns \ {GUN_SIMPLE}) \cup Bonuses, author : {NoTux}]

Init ==
    /\ tux = [t \in Tuxes |-> Nobody("unborn")]
    /\ timers = <<>> /\ walk = 0
    /\ toucher = NoTux /\ touched = {}
    /\ items \in [Items -> {NoItem} \cup NewItems]
    /\ flying = {}
    /\ round = 0 /\ ended = FALSE
    /\ lost = {}

-----------------------------------------------------------------------------
(* Items that are added.                                                   *)

AddItem(i, type, author) ==
    items' = [items EXCEPT ![i] = [type |-> type, author |-> author]]

\* item_add_new_item, called when the items are its: the settings may forbid
\* every item, the public server has a limit.
AddNewItem(its) ==
    \/ items' = its
    \/ \E i \in Items, new \in NewItems :
          its[i] = NoItem /\ items' = [its EXCEPT ![i] = new]

\* mineExplosion: an explosion of the same author in place of the mine.  (The
\* code draws a new id for it before it deletes the mine.)
MineExplosion(i) == AddItem(i, ITEM_BIG_EXPLOSION, items[i].author)

-----------------------------------------------------------------------------
(* Death and rounds.                                                       *)

Killed(r) ==
    [r EXCEPT !.status = "dead", !.gun = GUN_SIMPLE,
              !.ammo = [g \in Guns |-> IF g = GUN_SIMPLE THEN GunMaxShot ELSE 0],
              !.bonus = BONUS_NONE, !.bonusTime = 0, !.pickup = 0,
              !.canShot = TRUE, !.canSwitch = TRUE]

\* Mutant: every death after the last round counts as the last.
AnyLateRound == MaxRound # 0 /\ round + 1 >= MaxRound

LastRound == MaxRound # 0 /\ round + 1 = MaxRound
EndTimers == IF LastRound THEN <<Task("end", NoTux, EndTime)>> ELSE <<>>

\* Mutant: the spawn timer is due at once.
KillForAMoment(t) ==
    /\ tux' = [tux EXCEPT ![t] = Killed(@)]
    /\ round' = IF round < MaxRound THEN round + 1 ELSE round
    /\ timers' = timers \o EndTimers \o <<Task("spawn", t, 0)>>

Kill(t) ==
    /\ tux' = [tux EXCEPT ![t] = Killed(@)]
    /\ round' = IF round < MaxRound THEN round + 1 ELSE round
    /\ timers' = timers \o EndTimers \o <<Task("spawn", t, SpawnTime)>>

\* Mutant: nobody asks whether it is dead already.
DieAgain(t) == Kill(t)

\* tux_event_tux_is_dead
Die(t) ==
    \/ Alive(t) /\ Kill(t)
    \/ ~Alive(t) /\ UNCHANGED <<tux, round, timers>>

\* tux_teleport: to a free place.
Teleport(t) == tux' = [tux EXCEPT ![t].inWall = FALSE]

-----------------------------------------------------------------------------
(* Arriving and leaving, when no loop runs.                                *)

\* tux_new; the gun is drawn (getRandomGun).
Join(t) ==
    /\ Idle /\ tux[t].status = "unborn"
    /\ \E g \in Guns : tux' = [tux EXCEPT ![t] = NewTux(g)]
    /\ UNCHANGED <<timers, walk, toucher, touched, items, flying, round, ended, lost>>

\* Mutant: the mines are not looked at.
LeaveMines(t) ==
    /\ Idle /\ Present(t) /\ t \in NetTuxes
    /\ tux' = [tux EXCEPT ![t] = Nobody("gone")]
    /\ UNCHANGED <<timers, walk, toucher, touched, items, flying, round, ended, lost>>

\* tux_destroy: its mines belong to nobody (action_checkMine).
Leave(t) ==
    /\ Idle /\ Present(t) /\ t \in NetTuxes
    /\ tux' = [tux EXCEPT ![t] = Nobody("gone")]
    /\ items' = [i \in Items |->
                    IF items[i].type = ITEM_MINE /\ items[i].author = t
                    THEN [items[i] EXCEPT !.author = NoTux] ELSE items[i]]
    /\ UNCHANGED <<timers, walk, toucher, touched, flying, round, ended, lost>>

-----------------------------------------------------------------------------
(* What a player does: tux_action.                                         *)

StartTouch(t, seen) ==
    /\ touched' = seen
    /\ toucher' = IF seen = {} THEN NoTux ELSE t

\* moveTux to a place without conflict; only a ghost enters a wall.
Move(t) ==
    /\ Idle /\ Alive(t)
    /\ \E w \in BOOLEAN :
          /\ w => tux[t].bonus = BONUS_GHOST
          /\ tux' = [tux EXCEPT ![t].inWall = w]
    /\ \E seen \in SUBSET Lying : StartTouch(t, seen)
    /\ UNCHANGED <<timers, walk, items, flying, round, ended, lost>>

\* The gun switchTuxGun takes: the next loaded one, or the first.
NextGun(r) ==
    LET after == {g \in Loaded(r) : g > r.gun}
        from == IF after # {} THEN after ELSE Loaded(r)
    IN  CHOOSE g \in from : \A h \in from : g <= h

MaySwitch(t, r) == (t \in NetTuxes \/ r.canSwitch) /\ Loaded(r) # {}
Switched(r) == [r EXCEPT !.gun = NextGun(r), !.canSwitch = FALSE]
SwitchTimer(t) == Task("canSwitch", t, CanSwitchTime)

SwitchTuxGun(t) ==
    /\ Idle /\ Alive(t) /\ Len(timers) < MaxTimers
    /\ MaySwitch(t, tux[t])
    /\ tux' = [tux EXCEPT ![t] = Switched(@)]
    /\ timers' = Append(timers, SwitchTimer(t))
    /\ UNCHANGED <<walk, toucher, touched, items, flying, round, ended, lost>>

Spent(r) == [r EXCEPT !.ammo[r.gun] = @ - 1]

\* The shots that a volley puts off.
Volley(t) ==
    CASE tux[t].gun = GUN_TOMMY -> [i \in DOMAIN TommyTimes |-> Task("tommy", t, TommyTimes[i])]
      [] tux[t].gun = GUN_LASSER -> [i \in DOMAIN LaserTimes |-> Task("lasser", t, LaserTimes[i])]
      [] OTHER -> <<>>

NewShot(t, ball) == [author |-> t, ball |-> ball, home |-> FALSE]
ShotsAtOnce(t) ==
    IF tux[t].gun \in {GUN_TOMMY, GUN_LASSER} THEN {}
    ELSE {NewShot(t, tux[t].gun = GUN_BOMBBALL)}

\* Mutant: the flag isCanShot is not read.
CanShootAlways(t) ==
    /\ Idle /\ Alive(t) /\ tux[t].ammo[tux[t].gun] > 0
    /\ Len(timers) + Len(Volley(t)) + 2 <= MaxTimers

CanShoot(t) ==
    /\ Idle /\ Alive(t) /\ tux[t].canShot /\ tux[t].ammo[tux[t].gun] > 0
    /\ Len(timers) + Len(Volley(t)) + 2 <= MaxTimers

\* Mutant: the empty gun stays in hand.
AfterShotKeepGun(t, r) ==
    /\ tux' = [tux EXCEPT ![t] = [r EXCEPT !.canShot = FALSE]]
    /\ timers' = timers \o Volley(t) \o <<Task("canShot", t, CanShotTime)>>

\* The end of shotTux, the tux being r after gun_shot: it reloads, and takes
\* another gun when this one is empty.
AfterShot(t, r) ==
    LET reloading == [r EXCEPT !.canShot = FALSE]
        waiting == timers \o Volley(t) \o <<Task("canShot", t, CanShotTime)>>
    IN  \/ /\ r.ammo[r.gun] = 0 /\ MaySwitch(t, r)
           /\ tux' = [tux EXCEPT ![t] = Switched(reloading)]
           /\ timers' = Append(waiting, SwitchTimer(t))
        \/ /\ ~(r.ammo[r.gun] = 0 /\ MaySwitch(t, r))
           /\ tux' = [tux EXCEPT ![t] = reloading]
           /\ timers' = waiting

ShotTux(t) ==
    /\ CanShoot(t) /\ tux[t].gun # GUN_MINE
    /\ AfterShot(t, IF tux[t].bonus = BONUS_SHOT THEN tux[t] ELSE Spent(tux[t]))
    /\ flying' = flying \cup ShotsAtOnce(t)
    /\ UNCHANGED <<walk, toucher, touched, items, round, ended, lost>>

\* putInGunMine where there is room for a mine
PutMine(t) ==
    /\ CanShoot(t) /\ tux[t].gun = GUN_MINE
    /\ AfterShot(t, Spent(tux[t]))
    /\ \E i \in Free : AddItem(i, ITEM_MINE, t)
    /\ UNCHANGED <<walk, toucher, touched, flying, round, ended, lost>>

\* and where there is none
PutNoMine(t) ==
    /\ CanShoot(t) /\ tux[t].gun = GUN_MINE
    /\ AfterShot(t, tux[t])
    /\ UNCHANGED <<walk, toucher, touched, items, flying, round, ended, lost>>

-----------------------------------------------------------------------------
(* tux_event: every tux, dead or alive, in every arena_event.              *)

\* Mutant: the count starts again one call too early.
PickUpGunNever(r) ==
    IF Loaded(r) # {} THEN r
    ELSE IF r.pickup + 1 < MaxPickup
    THEN [r EXCEPT !.gun = GUN_SIMPLE, !.pickup = @ + 1]
    ELSE [r EXCEPT !.gun = GUN_SIMPLE, !.pickup = 0]

PickUpGun(r) ==
    IF Loaded(r) # {} THEN r
    ELSE IF r.pickup + 1 < MaxPickup
    THEN [r EXCEPT !.gun = GUN_SIMPLE, !.pickup = @ + 1]
    ELSE [r EXCEPT !.gun = GUN_SIMPLE, !.ammo[GUN_SIMPLE] = GunMaxShot, !.pickup = 0]

EventBonus(r) ==
    LET time == IF r.bonusTime > 0 THEN r.bonusTime - 1 ELSE 0
        over == time = 0 /\ ~(r.bonus = BONUS_GHOST /\ r.inWall)
    IN  IF r.bonus = BONUS_NONE THEN r
        ELSE [r EXCEPT !.bonusTime = time, !.bonus = IF over THEN BONUS_NONE ELSE @]

TuxEvent(t) ==
    /\ Idle /\ Present(t)
    /\ tux' = [tux EXCEPT ![t] = EventBonus(PickUpGun(@))]
    /\ \E seen \in SUBSET Lying : (Dead(t) => seen = {}) /\ StartTouch(t, seen)
    /\ UNCHANGED <<timers, walk, items, flying, round, ended, lost>>

-----------------------------------------------------------------------------
(* action_giveitem, for the next item under the toucher.  An item that     *)
(* kills it does not stop the loop.                                        *)

NextTouch(i) ==
    /\ i \in touched
    /\ touched' = touched \ {i}
    /\ toucher' = IF touched = {i} THEN NoTux ELSE toucher

\* tuxGiveGun
GivenGun(r, type) ==
    [r EXCEPT !.pickup = 0, !.gun = type,
              !.ammo[type] = IF @ + GunMaxShot <= MaxAmmo THEN @ + GunMaxShot ELSE MaxAmmo]

GiveGun(i) ==
    /\ NextTouch(i) /\ items[i].type \in Guns
    /\ tux' = [tux EXCEPT ![toucher] = GivenGun(@, items[i].type)]
    /\ AddNewItem([items EXCEPT ![i] = NoItem])
    /\ UNCHANGED <<timers, walk, flying, round, ended, lost>>

\* tuxGiveBonus
GiveBonus(i) ==
    /\ NextTouch(i) /\ items[i].type \in Bonuses
    /\ tux' = [tux EXCEPT ![toucher] =
                  [@ EXCEPT !.bonus = items[i].type, !.bonusTime = MaxBonus]]
    /\ AddNewItem([items EXCEPT ![i] = NoItem])
    /\ UNCHANGED <<timers, walk, flying, round, ended, lost>>

StepOnMine(i) ==
    /\ NextTouch(i) /\ items[i].type = ITEM_MINE
    /\ \/ tux[toucher].bonus = BONUS_GHOST /\ UNCHANGED items
       \/ tux[toucher].bonus # BONUS_GHOST /\ MineExplosion(i)
    /\ UNCHANGED <<tux, timers, walk, flying, round, ended, lost>>

\* tux_event_tux_is_deadWithItem
StepInExplosion(i) ==
    /\ NextTouch(i) /\ items[i].type = ITEM_BIG_EXPLOSION
    /\ \/ tux[toucher].bonus = BONUS_GHOST /\ UNCHANGED <<tux, timers, round>>
       \/ tux[toucher].bonus = BONUS_TELEPORT /\ Teleport(toucher) /\ UNCHANGED <<timers, round>>
       \/ tux[toucher].bonus \notin {BONUS_GHOST, BONUS_TELEPORT} /\ Die(toucher)
    /\ UNCHANGED <<walk, items, flying, ended, lost>>

-----------------------------------------------------------------------------
(* Shots.                                                                  *)

\* s is spent; there may be another like it.
Spend(s) == flying' = flying \/ flying' = flying \ {s}

\* action_tux in tux.c: a shot meets a tux, that is none of its own and ...
Hits(s, t) ==
    /\ Idle /\ s \in flying
    /\ Present(t)
    /\ Alive(t) => s.author # t \/ s.home

\* ... teleports away, the shot flying on;
ShotMissesTeleport(s, t) ==
    /\ Hits(s, t) /\ Alive(t) /\ tux[t].bonus = BONUS_TELEPORT
    /\ Teleport(t)
    /\ UNCHANGED <<timers, walk, toucher, touched, items, flying, round, ended, lost>>

\* ... makes a bomb ball explode (bombBallExplosion);
BombBallExplosion(s, t) ==
    /\ Hits(s, t) /\ Alive(t) /\ tux[t].bonus # BONUS_TELEPORT /\ s.ball
    /\ \E i \in Free : AddItem(i, ITEM_BIG_EXPLOSION, s.author)
    /\ Spend(s)
    /\ UNCHANGED <<tux, timers, walk, toucher, touched, round, ended, lost>>

\* ... is killed, or has been dead before.
ShotKills(s, t) ==
    /\ Hits(s, t)
    /\ Alive(t) => tux[t].bonus # BONUS_TELEPORT /\ ~s.ball
    /\ Die(t)
    /\ Spend(s)
    /\ UNCHANGED <<walk, toucher, touched, items, ended, lost>>

\* action_item: a mine that is shot explodes, and the shot flies on.
ShotHitsMine(s, i) ==
    /\ Idle /\ s \in flying /\ items[i].type = ITEM_MINE
    /\ MineExplosion(i)
    /\ UNCHANGED <<tux, timers, walk, toucher, touched, flying, round, ended, lost>>

\* A shot leaves the arena (action_moveShot), meets an explosion (action_shot in
\* item.c) or a wall.
ShotEnds(s) ==
    /\ Idle /\ s \in flying
    /\ flying' = flying \ {s}
    /\ UNCHANGED <<tux, timers, walk, toucher, touched, items, round, ended, lost>>

\* A ball bounces off a wall or a pipe (shot_bound_bombBall); any shot may come out
\* of another pipe or teleport, turned (transformShot).
ShotTurns(s) ==
    /\ Idle /\ s \in flying
    /\ \E others \in {flying, flying \ {s}} :
          flying' = others \cup {[s EXCEPT !.home = TRUE]}
    /\ UNCHANGED <<tux, timers, walk, toucher, touched, items, round, ended, lost>>

\* action_itemevent: the last frame of an explosion is over.
ExplosionEnds(i) ==
    /\ Idle /\ items[i].type = ITEM_BIG_EXPLOSION
    /\ items' = [items EXCEPT ![i] = NoItem]
    /\ UNCHANGED <<tux, timers, walk, toucher, touched, flying, round, ended, lost>>

-----------------------------------------------------------------------------
(* timer_event, and the clock, which also runs while the game is paused.   *)

Older(timer) == [timer EXCEPT !.left = IF @ > 0 THEN @ - 1 ELSE 0]

Tick ==
    /\ Idle /\ \E i \in DOMAIN timers : timers[i].left > 0
    /\ timers' = [i \in DOMAIN timers |-> Older(timers[i])]
    /\ UNCHANGED <<tux, walk, toucher, touched, items, flying, round, ended, lost>>

StartTimers ==
    /\ Idle /\ timers # <<>>
    /\ walk' = 1
    /\ UNCHANGED <<tux, timers, toucher, touched, items, flying, round, ended, lost>>

Keep ==
    /\ walk \in DOMAIN timers /\ timers[walk].left > 0
    /\ walk' = walk + 1
    /\ UNCHANGED <<tux, timers, toucher, touched, items, flying, round, ended, lost>>

FinishTimers ==
    /\ walk = Len(timers) + 1
    /\ walk' = 0
    /\ UNCHANGED <<tux, timers, toucher, touched, items, flying, round, ended, lost>>

\* list_del_item
Without(i) ==
    [j \in 1 .. Len(timers) - 1 |-> IF j < i THEN timers[j] ELSE timers[j + 1]]

\* The task the loop looks at is due, is of one of these kinds, and is removed.
Fires(kinds) ==
    /\ walk \in DOMAIN timers
    /\ timers[walk].left = 0 /\ timers[walk].task \in kinds
    /\ timers' = Without(walk)
    /\ UNCHANGED <<walk, toucher, touched, round, lost>>

\* Mutant: a task of a dead tux may be lost.
FiresForTheDead ==
    /\ Fires(TuxTasks) /\ ~Alive(timers[walk].tux)
    /\ UNCHANGED <<tux, items, flying, ended>>

\* space_get_object_id finds nobody.
FiresForNobody ==
    /\ Fires(TuxTasks) /\ ~Present(timers[walk].tux)
    /\ UNCHANGED <<tux, items, flying, ended>>

\* timer_spawnTux
SpawnTux ==
    /\ Fires({"spawn"}) /\ Present(timers[walk].tux)
    /\ tux' = [tux EXCEPT ![timers[walk].tux] =
                  [@ EXCEPT !.status = "alive", !.gun = GUN_SIMPLE, !.inWall = FALSE]]
    /\ AddNewItem(items)
    /\ UNCHANGED <<flying, ended>>

\* timer_tuxCanShot
TuxCanShot ==
    /\ Fires({"canShot"}) /\ Present(timers[walk].tux)
    /\ tux' = [tux EXCEPT ![timers[walk].tux] = [@ EXCEPT !.canShot = TRUE]]
    /\ UNCHANGED <<items, flying, ended>>

\* timer_tuxCanSwitchGun
TuxCanSwitchGun ==
    /\ Fires({"canSwitch"}) /\ Present(timers[walk].tux)
    /\ tux' = [tux EXCEPT ![timers[walk].tux] = [@ EXCEPT !.canSwitch = TRUE]]
    /\ UNCHANGED <<items, flying, ended>>

\* timer_addShotTimer and timer_addLaserTimer
AddShot ==
    /\ Fires({"tommy", "lasser"}) /\ Present(timers[walk].tux)
    /\ \/ Alive(timers[walk].tux) /\ flying' = flying \cup {NewShot(timers[walk].tux, FALSE)}
       \/ Dead(timers[walk].tux) /\ UNCHANGED flying
    /\ UNCHANGED <<tux, items, ended>>

\* timer_endArena
EndArena ==
    /\ Fires({"end"})
    /\ ended' = TRUE
    /\ UNCHANGED <<tux, items, flying>>

(***************************************************************************)
(* A local game is saved, left, and taken up again (save_arena, and        *)
(* load_arena in prepareArena): tuxes, items, shots and the round come     *)
(* back, the flags as tux_new sets them, and arena->listTimer empty.  What *)
(* was played after the saving is forgotten.                               *)
(***************************************************************************)
LastRoundOver == MaxRound # 0 /\ round = MaxRound

LoadArena ==
    /\ Idle /\ NetTuxes = {} /\ \A t \in Tuxes : Present(t)
    /\ tux' = [t \in Tuxes |-> [tux[t] EXCEPT !.canShot = TRUE, !.canSwitch = TRUE]]
    /\ timers' = <<>>
    /\ lost' = {t \in Tuxes : Dead(t)} \cup (IF LastRoundOver THEN {NoTux} ELSE {})
    /\ UNCHANGED <<walk, toucher, touched, items, flying, round, ended>>

TimerEvent ==
    \/ StartTimers \/ Keep \/ FinishTimers
    \/ FiresForNobody \/ SpawnTux \/ TuxCanShot \/ TuxCanSwitchGun \/ AddShot \/ EndArena

Touch(i) == GiveGun(i) \/ GiveBonus(i) \/ StepOnMine(i) \/ StepInExplosion(i)

\* The world is over (eventEnd), or everybody has left and the loop idles.
Rest ==
    /\ walk = 0 /\ (ended \/ \A t \in Tuxes : tux[t].status = "gone")
    /\ UNCHANGED vars

TuxStep(t) ==
    \/ Join(t) \/ Leave(t) \/ Move(t) \/ SwitchTuxGun(t)
    \/ ShotTux(t) \/ PutMine(t) \/ PutNoMine(t) \/ TuxEvent(t)

ShotStep(s) ==
    \/ \E t \in Tuxes : ShotMissesTeleport(s, t) \/ BombBallExplosion(s, t) \/ ShotKills(s, t)
    \/ \E i \in Items : ShotHitsMine(s, i)
    \/ ShotEnds(s) \/ ShotTurns(s)

Next ==
    \/ \E t \in Tuxes : TuxStep(t)
    \/ \E i \in Items : Touch(i) \/ ExplosionEnds(i)
    \/ \E s \in flying : ShotStep(s)
    \/ Tick
    \/ TimerEvent
    \/ LoadArena
    \/ Rest

Spec == Init /\ [][Next]_vars

\* timer_event is called each time the loop comes round, a loop over timers or items
\* ends, and time passes.  (Strong fairness: other handlers run in between, and a game
\* is paused now and then.)
TimersRun ==
    /\ SF_vars(Tick) /\ SF_vars(StartTimers)
    /\ WF_vars(TimerEvent) /\ WF_vars(\E i \in Items : Touch(i))

\* arena_event calls the event of every tux as well.
TuxesRun == \A t \in Tuxes : SF_vars(TuxEvent(t))

TimedSpec == Spec /\ TimersRun
LiveSpec == TimedSpec /\ TuxesRun

-----------------------------------------------------------------------------
(* Properties.                                                             *)

Pending(task, t) == {i \in DOMAIN timers : timers[i].task = task /\ timers[i].tux = t}
One(set) == \E i \in set : set = {i}

\* A dead tux has one spawn timer and a living one has none, although several
\* shots and explosions may meet it in one loop: it neither stays dead nor comes
\* to life twice (tux.c:307, :329).  But a tux that was dead in a saved game has
\* none when it is loaded, and no later step gives it one (saveLoad.c:153).
OneSpawn ==
    \A t \in Tuxes :
        /\ Dead(t) /\ t \notin lost => One(Pending("spawn", t))
        /\ Alive(t) \/ t \in lost => Pending("spawn", t) = {}

\* When a tux respawns no other timer of it is pending: no shot of an old volley
\* is fired, and no old timer ends a reload, in a life it was not set in
\* (death removes no timer, tux.c:305-337; gun.c:150-221).
RespawnsClean ==
    [][\A t \in Tuxes : Dead(t) /\ tux'[t].status = "alive" =>
          \A i \in DOMAIN timers' : timers'[i].tux # t]_vars

\* A living tux that may not shoot waits for exactly one timer, and one that may
\* waits for none, so none can end the next reload early; the same of switching
\* guns, for players at the keyboard (tux.c:524-585; tux_event_tux_is_dead resets
\* both flags and leaves the timers).
OneReload ==
    \A t \in Tuxes : Alive(t) =>
        /\ IF tux[t].canShot THEN Pending("canShot", t) = {} ELSE One(Pending("canShot", t))
        /\ t \notin NetTuxes =>
              IF tux[t].canSwitch THEN Pending("canSwitch", t) = {}
                                  ELSE One(Pending("canSwitch", t))

\* Nobody on the net holds an empty gun while another is loaded, whatever was
\* shot, picked up and lost (tux.c:582; at the keyboard switchTuxGun may refuse).
HoldsLoadedGun ==
    \A t \in NetTuxes : Present(t) =>
        tux[t].ammo[tux[t].gun] > 0 \/ Loaded(tux[t]) = {}

\* Nobody scores for the mine of a tux that has left: a mine belongs to a tux of
\* the arena or to nobody (action_checkMine, tux.c:743-749).
MinesHaveOwners ==
    \A i \in Lying : items[i].type = ITEM_MINE /\ items[i].author # NoTux =>
        Present(items[i].author)

\* After the last round the end of the match is pending once, and before it it is
\* not, however many deaths there are meanwhile (world.c:100-117).  In a match saved
\* after its last round it is pending no more (saveLoad.c:111-112).
EndIsPending ==
    IF LastRoundOver /\ ~ended /\ NoTux \notin lost
    THEN One(Pending("end", NoTux)) ELSE Pending("end", NoTux) = {}

\* Whoever is dead lives again, unless he leaves, the world ends (timer_spawnTux) or
\* the game is saved and loaded while he is dead: then he stays dead for good.
Respawns ==
    \A t \in Tuxes : Dead(t) ~> (~Dead(t) \/ ended \/ [](Dead(t) /\ t \in lost))

\* Who has no shot left gets some (pickUpGun, tux.c:611-634).
Rearms ==
    \A t \in Tuxes :
        (Alive(t) /\ Loaded(tux[t]) = {}) ~> (~Alive(t) \/ Loaded(tux[t]) # {} \/ ended)

=============================================================================
