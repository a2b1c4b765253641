------------------------------ MODULE TuxProofs ------------------------------
(***************************************************************************)
(* What the timers keep of a tux, for any number of tuxes, guns and items  *)
(* and any times that respect SpawnIsLast: it has one spawn timer while it *)
(* is dead, no timer of one life reaches the next, and it waits for one    *)
(* reload.  Then what tuxes hold: a player on the net never holds an empty *)
(* gun beside a loaded one, every mine has an owner who is there or none,  *)
(* and the end of the match is set once.  A saved game that is taken up    *)
(* again has lost its timers, and what they were for.                      *)
(***************************************************************************)
EXTENDS Tux, SequenceTheorems, TLAPS

USE DEF GUN_SIMPLE, GUN_TOMMY, GUN_LASSER, GUN_MINE, GUN_BOMBBALL,
        ITEM_NONE, ITEM_MINE, ITEM_BIG_EXPLOSION,
        BONUS_NONE, BONUS_SHOT, BONUS_TELEPORT, BONUS_GHOST

(***************************************************************************)
(* Part 1: the operators on one tux.                                       *)
(***************************************************************************)

\* A new tux, or none, is a tux record.
LEMMA NewTuxType ==
    /\ \A g \in Guns : NewTux(g) \in TuxRecord
    /\ \A s \in {"unborn", "gone"} : Nobody(s) \in TuxRecord /\ Nobody(s).status = s
<1>1. \A g \in Guns : NewTux(g) \in TuxRecord
  BY TuxAssumption DEF NewTux, TuxRecord
<1>2. QED
  BY <1>1, TuxAssumption DEF Nobody, NewTux, TuxRecord

\* Death makes a dead tux that may shoot and switch.
LEMMA KilledType ==
    ASSUME NEW r \in TuxRecord
    PROVE  /\ Killed(r) \in TuxRecord
           /\ Killed(r).status = "dead"
           /\ Killed(r).canShot = TRUE /\ Killed(r).canSwitch = TRUE
<1> DEFINE ammo == [g \in Guns |-> IF g = GUN_SIMPLE THEN GunMaxShot ELSE 0]
<1>1. ammo \in [Guns -> 0 .. MaxAmmo]
  BY TuxAssumption
<1>2. 0 \in 0 .. MaxBonus /\ 0 \in 0 .. MaxPickup /\ GUN_SIMPLE \in Guns
  BY TuxAssumption
<1>3. Killed(r) = [r EXCEPT !.status = "dead", !.gun = GUN_SIMPLE, !.ammo = ammo,
                            !.bonus = BONUS_NONE, !.bonusTime = 0, !.pickup = 0,
                            !.canShot = TRUE, !.canSwitch = TRUE]
  BY DEF Killed
<1> HIDE DEF ammo
<1>4. QED
  BY <1>1, <1>2, <1>3 DEF TuxRecord

\* What changes the guns and the bonus leaves the life and the flags alone.
Same(r, q) ==
    q.status = r.status /\ q.canShot = r.canShot /\ q.canSwitch = r.canSwitch

\* The guns are a finite set of numbers, so one of any of them is the first.
LEMMA FirstGun ==
    ASSUME NEW G \in SUBSET Guns, G # {}
    PROVE  \E g \in G : \A h \in G : g <= h
<1>1. G \subseteq 0 .. 6
  BY TuxAssumption
<1>2. CASE 0 \in G
  BY <1>1, <1>2
<1>3. CASE 0 \notin G /\ 1 \in G
  BY <1>1, <1>3
<1>4. CASE 0 \notin G /\ 1 \notin G /\ 2 \in G
  BY <1>1, <1>4
<1>5. CASE 0 \notin G /\ 1 \notin G /\ 2 \notin G /\ 3 \in G
  BY <1>1, <1>5
<1>6. CASE 0 \notin G /\ 1 \notin G /\ 2 \notin G /\ 3 \notin G
  <2>1. G \subseteq 4 .. 6
    BY <1>1, <1>6
  <2>2. CASE 4 \in G
    BY <2>1, <2>2
  <2>3. CASE 4 \notin G /\ 5 \in G
    BY <2>1, <2>3
  <2>4. CASE 4 \notin G /\ 5 \notin G
    <3>1. \A h \in G : h = 6
      BY <2>1, <2>4
    <3>2. QED
      BY <3>1
  <2>5. QED
    BY <2>2, <2>3, <2>4
<1>7. QED
  BY <1>2, <1>3, <1>4, <1>5, <1>6

\* A tux with a loaded gun can take one.
LEMMA SwitchedType ==
    ASSUME NEW r \in TuxRecord, Loaded(r) # {}
    PROVE  /\ NextGun(r) \in Guns
           /\ Switched(r) \in TuxRecord
           /\ Switched(r).status = r.status /\ Switched(r).canShot = r.canShot
           /\ ~Switched(r).canSwitch
<1> DEFINE after == {g \in Loaded(r) : g > r.gun}
           from == IF after # {} THEN after ELSE Loaded(r)
<1>1. from \subseteq Guns /\ from # {}
  BY DEF Loaded
<1>2. \E g \in from : \A h \in from : g <= h
  <2> HIDE DEF from
  <2> QED BY <1>1, FirstGun
<1>3. NextGun(r) = CHOOSE g \in from : \A h \in from : g <= h
  BY DEF NextGun
<1>4. NextGun(r) \in Guns
  <2> HIDE DEF from
  <2> QED BY <1>1, <1>2, <1>3
<1>5. QED
  BY <1>4 DEF Switched, TuxRecord

\* A shot is taken from a loaded gun.
LEMMA SpentType ==
    ASSUME NEW r \in TuxRecord, r.ammo[r.gun] > 0
    PROVE  Spent(r) \in TuxRecord /\ Same(r, Spent(r)) /\ Spent(r).gun = r.gun
<1> DEFINE ammo == [r.ammo EXCEPT ![r.gun] = @ - 1]
<1>1. r.gun \in Guns /\ r.ammo \in [Guns -> 0 .. MaxAmmo]
  BY DEF TuxRecord
<1>2. r.ammo[r.gun] - 1 \in 0 .. MaxAmmo
  <2>1. r.ammo[r.gun] \in 0 .. MaxAmmo
    BY <1>1
  <2>2. QED
    BY <2>1, TuxAssumption
<1>3. ammo \in [Guns -> 0 .. MaxAmmo]
  BY <1>1, <1>2
<1>4. Spent(r) = [r EXCEPT !.ammo = ammo]
  BY DEF Spent
<1> HIDE DEF ammo
<1>5. QED
  BY <1>3, <1>4 DEF TuxRecord, Same

\* tux_event
LEMMA EventType ==
    ASSUME NEW r \in TuxRecord
    PROVE  /\ EventBonus(PickUpGun(r)) \in TuxRecord
           /\ Same(r, EventBonus(PickUpGun(r)))
<1>1. PickUpGun(r) \in TuxRecord /\ Same(r, PickUpGun(r))
  <2>1. CASE Loaded(r) # {}
    BY <2>1 DEF PickUpGun, Same
  <2>2. CASE Loaded(r) = {} /\ r.pickup + 1 < MaxPickup
    <3>1. PickUpGun(r) = [r EXCEPT !.gun = GUN_SIMPLE, !.pickup = r.pickup + 1]
      BY <2>2 DEF PickUpGun
    <3>2. r.pickup + 1 \in 0 .. MaxPickup /\ GUN_SIMPLE \in Guns
      BY <2>2, TuxAssumption DEF TuxRecord
    <3>3. QED
      BY <3>1, <3>2 DEF Same, TuxRecord
  <2>3. CASE Loaded(r) = {} /\ ~(r.pickup + 1 < MaxPickup)
    <3> DEFINE ammo == [r.ammo EXCEPT ![GUN_SIMPLE] = GunMaxShot]
    <3>1. PickUpGun(r) = [r EXCEPT !.gun = GUN_SIMPLE, !.ammo = ammo, !.pickup = 0]
      BY <2>3 DEF PickUpGun
    <3>2. ammo \in [Guns -> 0 .. MaxAmmo] /\ 0 \in 0 .. MaxPickup /\ GUN_SIMPLE \in Guns
      BY TuxAssumption DEF TuxRecord
    <3> HIDE DEF ammo
    <3>3. QED
      BY <3>1, <3>2 DEF Same, TuxRecord
  <2>4. QED
    BY <2>1, <2>2, <2>3
<1>2. ASSUME NEW q \in TuxRecord
      PROVE  EventBonus(q) \in TuxRecord /\ Same(q, EventBonus(q))
  <2>1. CASE q.bonus = BONUS_NONE
    BY <2>1 DEF EventBonus, Same
  <2>2. ASSUME NEW time \in 0 .. MaxBonus, NEW b \in Bonuses \cup {BONUS_NONE},
               EventBonus(q) = [q EXCEPT !.bonusTime = time, !.bonus = b]
        PROVE  EventBonus(q) \in TuxRecord /\ Same(q, EventBonus(q))
    BY <2>2 DEF TuxRecord, Same
  <2>3. CASE q.bonus # BONUS_NONE
    <3> DEFINE time == IF q.bonusTime > 0 THEN q.bonusTime - 1 ELSE 0
               over == time = 0 /\ ~(q.bonus = BONUS_GHOST /\ q.inWall)
               b == IF over THEN BONUS_NONE ELSE q.bonus
    <3>1. time \in 0 .. MaxBonus
      BY TuxAssumption DEF TuxRecord
    <3>2. b \in Bonuses \cup {BONUS_NONE}
      BY DEF TuxRecord
    <3>3. EventBonus(q) = [q EXCEPT !.bonusTime = time, !.bonus = b]
      BY <2>3 DEF EventBonus
    <3> HIDE DEF time, over, b
    <3>4. QED
      BY <2>2, <3>1, <3>2, <3>3
  <2>4. QED
    BY <2>1, <2>3
<1>3. QED
  BY <1>1, <1>2 DEF Same

\* An item that is given.
LEMMA GivenType ==
    ASSUME NEW r \in TuxRecord
    PROVE  /\ \A g \in Guns : GivenGun(r, g) \in TuxRecord /\ Same(r, GivenGun(r, g))
           /\ \A b \in Bonuses :
                 LET q == [r EXCEPT !.bonus = b, !.bonusTime = MaxBonus]
                 IN  q \in TuxRecord /\ Same(r, q)
<1>1. ASSUME NEW g \in Guns
      PROVE  GivenGun(r, g) \in TuxRecord /\ Same(r, GivenGun(r, g))
  <2> DEFINE n == IF r.ammo[g] + GunMaxShot <= MaxAmmo THEN r.ammo[g] + GunMaxShot ELSE MaxAmmo
             ammo == [r.ammo EXCEPT ![g] = n]
  <2>1. n \in 0 .. MaxAmmo
    BY TuxAssumption DEF TuxRecord
  <2>2. ammo \in [Guns -> 0 .. MaxAmmo]
    <3> HIDE DEF n
    <3> QED BY <2>1 DEF TuxRecord
  <2>3. GivenGun(r, g) = [r EXCEPT !.pickup = 0, !.gun = g, !.ammo = ammo]
    BY DEF GivenGun
  <2>4. 0 \in 0 .. MaxPickup
    BY TuxAssumption
  <2> HIDE DEF n, ammo
  <2>5. QED
    BY <2>2, <2>3, <2>4 DEF TuxRecord, Same
<1>2. ASSUME NEW b \in Bonuses, NEW q,
             q = [r EXCEPT !.bonus = b, !.bonusTime = MaxBonus]
      PROVE  q \in TuxRecord /\ Same(r, q)
  <2>1. MaxBonus \in 0 .. MaxBonus
    BY TuxAssumption
  <2>2. QED
    BY <1>2, <2>1 DEF TuxRecord, Same
<1>3. QED
  BY <1>1, <1>2

(***************************************************************************)
(* Part 2: the list of timers.                                             *)
(***************************************************************************)

\* What a list looks like after more was added to it.
Appended(more) ==
    /\ timers' \in Seq(Timer)
    /\ Len(timers') = Len(timers) + Len(more)
    /\ \A i \in 1 .. Len(timers) : timers'[i] = timers[i]
    /\ \A i \in 1 .. Len(timers') :
          i > Len(timers) => i - Len(timers) \in DOMAIN more /\ timers'[i] = more[i - Len(timers)]

\* That is what concatenation does.
LEMMA Appending ==
    ASSUME timers \in Seq(Timer), NEW more \in Seq(Timer), timers' = timers \o more
    PROVE  Appended(more)
<1>1. /\ timers \o more \in Seq(Timer)
      /\ Len(timers \o more) = Len(timers) + Len(more)
      /\ \A i \in 1 .. Len(timers) + Len(more) :
            (timers \o more)[i] = IF i <= Len(timers) THEN timers[i] ELSE more[i - Len(timers)]
  BY ConcatProperties
<1>2. Len(timers) \in Nat /\ Len(more) \in Nat /\ DOMAIN more = 1 .. Len(more)
  BY LenProperties
<1>3. QED
  BY <1>1, <1>2 DEF Appended

\* What it looks like without the task at i.
LEMMA Removing ==
    ASSUME timers \in Seq(Timer), NEW i \in DOMAIN timers, timers' = Without(i)
    PROVE  /\ timers' \in Seq(Timer) /\ Len(timers') = Len(timers) - 1
           /\ \A j \in 1 .. Len(timers) - 1 :
                 timers'[j] = IF j < i THEN timers[j] ELSE timers[j + 1]
<1>1. Len(timers) \in Nat /\ DOMAIN timers = 1 .. Len(timers)
      /\ \A j \in 1 .. Len(timers) : timers[j] \in Timer
  BY LenProperties, ElementOfSeq
<1>2. \A j \in 1 .. Len(timers) - 1 : Without(i)[j] \in Timer
  BY <1>1 DEF Without
<1>3. Len(timers) - 1 \in Nat
  BY <1>1
<1>4. Without(i) \in [1 .. Len(timers) - 1 -> Timer]
  BY <1>2 DEF Without
<1>5. Without(i) \in Seq(Timer) /\ Len(Without(i)) = Len(timers) - 1
  BY <1>3, <1>4
<1>6. QED
  BY <1>5 DEF Without

\* A task and a list of one.
LEMMA TaskType ==
    ASSUME NEW k, NEW t, NEW time \in Nat,
           <<k, t>> \in (TuxTasks \X Tuxes) \cup ({"end"} \X {NoTux})
    PROVE  /\ Task(k, t, time) \in Timer
           /\ <<Task(k, t, time)>> \in Seq(Timer) /\ Len(<<Task(k, t, time)>>) = 1
           /\ <<Task(k, t, time)>>[1] = Task(k, t, time)
  BY DEF Task, Timer

\* A volley is a list of shots of that tux, all due before it could respawn.
LEMMA VolleyType ==
    ASSUME TypeOK, NEW t \in Tuxes
    PROVE  /\ Volley(t) \in Seq(Timer)
           /\ \A i \in DOMAIN Volley(t) :
                 /\ Volley(t)[i].task \in {"tommy", "lasser"}
                 /\ Volley(t)[i].tux = t
                 /\ Volley(t)[i].left <= SpawnTime
<1>1. ASSUME NEW times \in Seq(Nat), NEW k \in {"tommy", "lasser"},
             \A i \in DOMAIN times : times[i] <= SpawnTime,
             Volley(t) = [i \in DOMAIN times |-> Task(k, t, times[i])]
      PROVE  /\ Volley(t) \in Seq(Timer)
             /\ \A i \in DOMAIN Volley(t) :
                   /\ Volley(t)[i].task \in {"tommy", "lasser"}
                   /\ Volley(t)[i].tux = t
                   /\ Volley(t)[i].left <= SpawnTime
  <2>1. Len(times) \in Nat /\ DOMAIN times = 1 .. Len(times)
        /\ \A i \in 1 .. Len(times) : times[i] \in Nat
    BY LenProperties, ElementOfSeq
  <2>2. Volley(t) \in [1 .. Len(times) -> Timer]
    BY <1>1, <2>1 DEF Task, Timer, TuxTasks
  <2>3. QED
    BY <1>1, <2>1, <2>2 DEF Task
<1>2. CASE tux[t].gun = GUN_TOMMY
  <2>1. Volley(t) = [i \in DOMAIN TommyTimes |-> Task("tommy", t, TommyTimes[i])]
    BY <1>2 DEF Volley
  <2>2. QED
    BY <1>1, <2>1, TuxAssumption, SpawnIsLast
<1>3. CASE tux[t].gun = GUN_LASSER
  <2>1. Volley(t) = [i \in DOMAIN LaserTimes |-> Task("lasser", t, LaserTimes[i])]
    BY <1>3 DEF Volley
  <2>2. QED
    BY <1>1, <2>1, TuxAssumption, SpawnIsLast
<1>4. CASE tux[t].gun # GUN_TOMMY /\ tux[t].gun # GUN_LASSER
  <2>1. Volley(t) = <<>>
    BY <1>4 DEF Volley
  <2>2. QED
    BY <2>1
<1>5. QED
  BY <1>2, <1>3, <1>4

\* The timers that one action adds, and the tux they are for.
LEMMA KillAppends ==
    ASSUME TypeOK, NEW t \in Tuxes, Kill(t)
    PROVE  \E more \in Seq(Timer) :
              /\ Appended(more) /\ Len(more) \in {1, 2}
              /\ more[Len(more)] = Task("spawn", t, SpawnTime)
              /\ Len(more) = 2 => LastRound /\ more[1] = Task("end", NoTux, EndTime)
              /\ LastRound => Len(more) = 2
<1> DEFINE spawn == Task("spawn", t, SpawnTime)
<1>1. timers \in Seq(Timer)
  BY DEF TypeOK
<1>2. spawn \in Timer /\ Task("end", NoTux, EndTime) \in Timer
  BY TuxAssumption, TaskType DEF TuxTasks
<1>3. CASE LastRound
  <2> DEFINE end == Task("end", NoTux, EndTime)
             more == <<end>> \o <<spawn>>
  <2>1. timers' = (timers \o <<end>>) \o <<spawn>>
    BY <1>3 DEF Kill, EndTimers
  <2> HIDE DEF end, spawn
  <2>2. /\ <<end>> \in Seq(Timer) /\ Len(<<end>>) = 1 /\ <<end>>[1] = end
        /\ <<spawn>> \in Seq(Timer) /\ Len(<<spawn>>) = 1 /\ <<spawn>>[1] = spawn
    BY <1>2 DEF end, spawn
  <2>3. more \in Seq(Timer) /\ Len(more) = 2 /\ more[1] = end /\ more[2] = spawn
    BY <2>2, ConcatProperties
  <2>4. timers' = timers \o more
    BY <1>1, <2>1, <2>2, ConcatAssociative
  <2> HIDE DEF more
  <2>5. Appended(more)
    BY <1>1, <2>3, <2>4, Appending
  <2>6. QED
    BY <1>3, <2>3, <2>5 DEF end, spawn
<1>4. CASE ~LastRound
  <2>1. timers' = (timers \o <<>>) \o <<spawn>>
    BY <1>4 DEF Kill, EndTimers
  <2> DEFINE more == <<spawn>>
  <2>2. timers' = timers \o more
    BY <1>1, <2>1, ConcatEmptySeq
  <2> HIDE DEF spawn
  <2>3. more \in Seq(Timer) /\ Len(more) = 1 /\ more[1] = spawn
    BY <1>2
  <2> HIDE DEF more
  <2>4. Appended(more)
    BY <1>1, <2>2, <2>3, Appending
  <2>5. QED
    BY <1>4, <2>3, <2>4 DEF spawn
<1>5. QED
  BY <1>3, <1>4

\* What shotTux adds: a volley, one reload (at n) and perhaps one change of guns.
Volleyed(t, r, more, n) ==
    /\ Appended(more) /\ n \in DOMAIN more
    /\ more[n].task = "canShot"
    /\ \A i \in DOMAIN more :
          /\ more[i].tux = t /\ more[i].left <= SpawnTime
          /\ i # n => more[i].task \in {"tommy", "lasser", "canSwitch"}
          /\ more[i].task = "canSwitch" =>
                i = n + 1 /\ r.ammo[r.gun] = 0 /\ MaySwitch(t, r)
    /\ r.ammo[r.gun] = 0 /\ MaySwitch(t, r) =>
          n + 1 \in DOMAIN more /\ more[n + 1].task = "canSwitch"

\* That is what the end of shotTux does.
LEMMA ShotAppends ==
    ASSUME TypeOK, NEW t \in Tuxes, NEW r, AfterShot(t, r)
    PROVE  \E more \in Seq(Timer), n \in Nat : Volleyed(t, r, more, n)
<1> DEFINE n == Len(Volley(t)) + 1
           reload == Task("canShot", t, CanShotTime)
           first == Volley(t) \o <<reload>>
<1>1. timers \in Seq(Timer)
  BY DEF TypeOK
<1>2. reload \in Timer /\ SwitchTimer(t) \in Timer
  BY TuxAssumption, TaskType DEF TuxTasks, SwitchTimer
<1>3. /\ Volley(t) \in Seq(Timer)
      /\ \A i \in DOMAIN Volley(t) :
            /\ Volley(t)[i].task \in {"tommy", "lasser"}
            /\ Volley(t)[i].tux = t
            /\ Volley(t)[i].left <= SpawnTime
  BY VolleyType
<1>4. Len(Volley(t)) \in Nat /\ DOMAIN Volley(t) = 1 .. Len(Volley(t))
  BY <1>3, LenProperties
<1>5. /\ reload.task = "canShot" /\ reload.tux = t /\ reload.left <= SpawnTime
      /\ SwitchTimer(t).task = "canSwitch" /\ SwitchTimer(t).tux = t
      /\ SwitchTimer(t).left <= SpawnTime
  BY SpawnIsLast DEF Task, SwitchTimer
<1> HIDE DEF reload
<1>6. <<reload>> \in Seq(Timer) /\ Len(<<reload>>) = 1 /\ <<reload>>[1] = reload
  BY <1>2
<1>7. /\ first \in Seq(Timer) /\ Len(first) = n /\ DOMAIN first = 1 .. n
      /\ \A i \in 1 .. Len(Volley(t)) : first[i] = Volley(t)[i]
      /\ first[n] = reload
  <2>1. /\ first \in Seq(Timer) /\ Len(first) = Len(Volley(t)) + Len(<<reload>>)
        /\ \A i \in 1 .. Len(Volley(t)) + Len(<<reload>>) :
              first[i] = IF i <= Len(Volley(t)) THEN Volley(t)[i]
                         ELSE <<reload>>[i - Len(Volley(t))]
    BY <1>3, <1>6, ConcatProperties
  <2>2. QED
    BY <1>4, <1>6, <2>1, LenProperties
<1>8. (timers \o Volley(t)) \o <<reload>> = timers \o first
  BY <1>1, <1>3, <1>6, ConcatAssociative
<1>9. CASE r.ammo[r.gun] = 0 /\ MaySwitch(t, r)
  <2> DEFINE more == Append(first, SwitchTimer(t))
  <2>1. timers' = Append(timers \o first, SwitchTimer(t))
    BY <1>8, <1>9 DEF AfterShot, reload
  <2>2. /\ more \in Seq(Timer) /\ Len(more) = n + 1 /\ DOMAIN more = 1 .. n + 1
        /\ \A i \in 1 .. n : more[i] = first[i]
        /\ more[n + 1] = SwitchTimer(t)
    <3> HIDE DEF first
    <3>1. n \in Nat
      BY <1>4
    <3> HIDE DEF n
    <3>2. QED
      BY <1>2, <1>7, <3>1, AppendProperties
  <2>3. timers' = timers \o more
    <3>1. timers \o first \in Seq(Timer) /\ <<SwitchTimer(t)>> \in Seq(Timer)
      BY <1>1, <1>2, <1>7, ConcatProperties
    <3> HIDE DEF first
    <3>2. /\ Append(timers \o first, SwitchTimer(t)) = (timers \o first) \o <<SwitchTimer(t)>>
          /\ more = first \o <<SwitchTimer(t)>>
      BY <1>2, <1>7, <3>1, AppendIsConcat
    <3>3. QED
      BY <1>1, <1>7, <2>1, <3>1, <3>2, ConcatAssociative
  <2>4. Appended(more)
    BY <1>1, <2>2, <2>3, Appending
  <2> HIDE DEF first, more
  <2>5. n \in Nat /\ n \in DOMAIN more /\ n + 1 \in DOMAIN more
    BY <1>4, <2>2
  <2>6. \A i \in DOMAIN more :
          \/ i \in DOMAIN Volley(t) /\ more[i] = Volley(t)[i]
          \/ i = n /\ more[i] = reload
          \/ i = n + 1 /\ more[i] = SwitchTimer(t)
    BY <1>4, <1>7, <2>2
  <2> HIDE DEF n
  <2>7. n # n + 1
    BY <2>5
  <2>8. \A i \in DOMAIN more :
          /\ more[i].tux = t /\ more[i].left <= SpawnTime
          /\ i # n => more[i].task \in {"tommy", "lasser", "canSwitch"}
          /\ more[i].task = "canSwitch" => i = n + 1
    BY <1>3, <1>5, <2>6
  <2>9. more[n].task = "canShot" /\ more[n + 1].task = "canSwitch"
    BY <1>5, <1>7, <2>2, <2>5
  <2>10. QED
    BY <1>9, <2>2, <2>4, <2>5, <2>8, <2>9 DEF Volleyed
<1>10. CASE ~(r.ammo[r.gun] = 0 /\ MaySwitch(t, r))
  <2>1. timers' = timers \o first
    BY <1>8, <1>10 DEF AfterShot, reload
  <2>2. Appended(first)
    BY <1>1, <1>7, <2>1, Appending
  <2> HIDE DEF first
  <2>3. n \in Nat /\ n \in DOMAIN first
    BY <1>4, <1>7
  <2>4. \A i \in DOMAIN first :
          \/ i \in DOMAIN Volley(t) /\ first[i] = Volley(t)[i]
          \/ i = n /\ first[i] = reload
    BY <1>4, <1>7
  <2> HIDE DEF n
  <2>5. \A i \in DOMAIN first :
          /\ first[i].tux = t /\ first[i].left <= SpawnTime
          /\ i # n => first[i].task \in {"tommy", "lasser", "canSwitch"}
          /\ first[i].task # "canSwitch"
    BY <1>3, <1>5, <2>4
  <2>6. QED
    BY <1>5, <1>7, <1>10, <2>2, <2>3, <2>5 DEF Volleyed
<1>11. QED
  BY <1>9, <1>10

(***************************************************************************)
(* Part 3: types.                                                          *)
(***************************************************************************)

\* The initial state has the right types.
LEMMA TypeInit == Init => TypeOK
<1> SUFFICES ASSUME Init PROVE TypeOK
  OBVIOUS
<1>1. tux \in [Tuxes -> TuxRecord]
  BY NewTuxType DEF Init
<1>2. NoItem \in Item /\ NewItems \subseteq Item
  BY DEF NoItem, NewItems, Item
<1>3. timers \in Seq(Timer) /\ Len(timers) = 0
  BY EmptySeq DEF Init
<1>4. walk \in 0 .. Len(timers) + 1 /\ round \in 0 .. MaxRound
  BY <1>3, TuxAssumption DEF Init
<1>5. items \in [Items -> Item]
  BY <1>2 DEF Init
<1>6. QED
  BY <1>1, <1>3, <1>4, <1>5 DEF Init, TypeOK

\* Items that are placed, replaced and added are items.
LEMMA ItemsType ==
    ASSUME TypeOK
    PROVE  /\ \A i \in Items, a \in Tuxes \cup {NoTux} :
                 AddItem(i, ITEM_MINE, a) \/ AddItem(i, ITEM_BIG_EXPLOSION, a)
                    => items' \in [Items -> Item]
           /\ \A i \in Items : MineExplosion(i) => items' \in [Items -> Item]
           /\ AddNewItem(items) => items' \in [Items -> Item]
           /\ \A i \in Items :
                 AddNewItem([items EXCEPT ![i] = NoItem]) => items' \in [Items -> Item]
<1>1. items \in [Items -> Item]
  BY DEF TypeOK
<1>2. NoItem \in Item /\ NewItems \subseteq Item
  BY DEF NoItem, NewItems, Item
<1>3. ASSUME NEW i \in Items, NEW a \in Tuxes \cup {NoTux},
             AddItem(i, ITEM_MINE, a) \/ AddItem(i, ITEM_BIG_EXPLOSION, a)
      PROVE  items' \in [Items -> Item]
  BY <1>1, <1>3 DEF AddItem, Item
<1>4. ASSUME NEW i \in Items, MineExplosion(i)
      PROVE  items' \in [Items -> Item]
  <2>1. items[i].author \in Tuxes \cup {NoTux}
    BY <1>1 DEF Item
  <2>2. QED
    BY <1>3, <1>4, <2>1 DEF MineExplosion
<1>5. ASSUME NEW its \in [Items -> Item], AddNewItem(its)
      PROVE  items' \in [Items -> Item]
  BY <1>2, <1>5 DEF AddNewItem
<1>6. \A i \in Items : [items EXCEPT ![i] = NoItem] \in [Items -> Item]
  BY <1>1, <1>2
<1>7. QED
  BY <1>1, <1>3, <1>4, <1>5, <1>6

\* A death has the right types, and leaves the walk where it is.
LEMMA TypeKill ==
    ASSUME TypeOK, NEW t \in Tuxes, Kill(t)
    PROVE  /\ tux' \in [Tuxes -> TuxRecord] /\ timers' \in Seq(Timer)
           /\ Len(timers) <= Len(timers') /\ round' \in 0 .. MaxRound
<1>1. tux' \in [Tuxes -> TuxRecord]
  BY KilledType DEF Kill, TypeOK
<1>2. timers' \in Seq(Timer) /\ Len(timers) <= Len(timers')
  <2>1. PICK more \in Seq(Timer) : Appended(more)
    BY KillAppends
  <2>2. Len(timers) \in Nat /\ Len(more) \in Nat
    BY LenProperties DEF TypeOK
  <2>3. QED
    BY <2>1, <2>2 DEF Appended
<1>3. round' \in 0 .. MaxRound
  BY TuxAssumption DEF Kill, TypeOK
<1>4. QED
  BY <1>1, <1>2, <1>3

\* So does a death that may have come before.
LEMMA TypeDie ==
    ASSUME TypeOK, NEW t \in Tuxes, Die(t), walk' = walk
    PROVE  /\ tux' \in [Tuxes -> TuxRecord] /\ timers' \in Seq(Timer)
           /\ walk' \in 0 .. Len(timers') + 1 /\ round' \in 0 .. MaxRound
<1>1. Len(timers) \in Nat
  BY LenProperties DEF TypeOK
<1>2. CASE Kill(t)
  <2>1. Len(timers') \in Nat
    BY <1>2, TypeKill, LenProperties
  <2>2. QED
    BY <1>1, <1>2, <2>1, TypeKill DEF TypeOK
<1>3. CASE UNCHANGED <<tux, round, timers>>
  BY <1>3 DEF TypeOK
<1>4. QED
  BY <1>2, <1>3 DEF Die

\* So does the end of a shot by a tux that has the gun it holds.
LEMMA TypeAfterShot ==
    ASSUME TypeOK, NEW t \in Tuxes, NEW r \in TuxRecord, AfterShot(t, r), walk' = walk
    PROVE  /\ tux' \in [Tuxes -> TuxRecord] /\ timers' \in Seq(Timer)
           /\ walk' \in 0 .. Len(timers') + 1
<1> DEFINE q == [r EXCEPT !.canShot = FALSE]
<1>1. q \in TuxRecord /\ Loaded(q) = Loaded(r)
  BY DEF TuxRecord, Loaded
<1>2. tux' \in [Tuxes -> TuxRecord]
  <2>1. CASE r.ammo[r.gun] = 0 /\ MaySwitch(t, r)
    <3>1. tux' = [tux EXCEPT ![t] = Switched(q)]
      BY <2>1 DEF AfterShot
    <3>2. Loaded(q) # {}
      BY <1>1, <2>1 DEF MaySwitch
    <3> HIDE DEF q
    <3>3. QED
      BY <1>1, <3>1, <3>2, SwitchedType DEF TypeOK
  <2>2. CASE ~(r.ammo[r.gun] = 0 /\ MaySwitch(t, r))
    BY <1>1, <2>2 DEF AfterShot, TypeOK
  <2>3. QED
    BY <2>1, <2>2
<1>3. PICK more \in Seq(Timer) : Appended(more)
  BY ShotAppends DEF Volleyed
<1>4. Len(timers) \in Nat /\ Len(more) \in Nat
  BY LenProperties DEF TypeOK
<1>5. QED
  BY <1>2, <1>3, <1>4 DEF Appended, TypeOK

\* What a tux does keeps the types.
LEMMA TypeTuxStep ==
    ASSUME TypeOK, NEW t \in Tuxes, TuxStep(t)
    PROVE  TypeOK'
<1>1. tux[t] \in TuxRecord /\ tux \in [Tuxes -> TuxRecord] /\ items \in [Items -> Item]
  BY DEF TypeOK
<1>2. \A seen \in SUBSET Lying : StartTouch(t, seen) =>
        touched' \in SUBSET Items /\ toucher' \in Tuxes \cup {NoTux}
  BY DEF StartTouch, Lying
<1>3. CASE Join(t)
  BY <1>3, NewTuxType DEF Join, TypeOK
<1>4. CASE Leave(t)
  <2>1. items' \in [Items -> Item]
    BY <1>1, <1>4 DEF Leave, Item
  <2>2. tux' \in [Tuxes -> TuxRecord]
    BY <1>1, <1>4, NewTuxType DEF Leave
  <2>3. QED
    BY <1>4, <2>1, <2>2 DEF Leave, TypeOK
<1>5. CASE Move(t)
  <2>1. \A w \in BOOLEAN : [tux[t] EXCEPT !.inWall = w] \in TuxRecord
    BY <1>1 DEF TuxRecord
  <2>2. tux' \in [Tuxes -> TuxRecord]
    <3>1. PICK w \in BOOLEAN : tux' = [tux EXCEPT ![t].inWall = w]
      BY <1>5 DEF Move
    <3>2. tux' = [tux EXCEPT ![t] = [tux[t] EXCEPT !.inWall = w]]
      BY <3>1
    <3>3. QED
      BY <1>1, <2>1, <3>2
  <2>3. touched' \in SUBSET Items /\ toucher' \in Tuxes \cup {NoTux}
    BY <1>2, <1>5 DEF Move
  <2>4. QED
    BY <1>5, <2>2, <2>3 DEF Move, TypeOK
<1>6. CASE SwitchTuxGun(t)
  <2>1. tux' \in [Tuxes -> TuxRecord]
    BY <1>1, <1>6, SwitchedType DEF SwitchTuxGun, MaySwitch
  <2>2. SwitchTimer(t) \in Timer
    BY TuxAssumption, TaskType DEF TuxTasks, SwitchTimer
  <2>3. timers' \in Seq(Timer) /\ Len(timers') = Len(timers) + 1
    BY <1>6, <2>2, AppendProperties DEF SwitchTuxGun, TypeOK
  <2>4. Len(timers) \in Nat
    BY LenProperties DEF TypeOK
  <2>5. QED
    BY <1>6, <2>1, <2>3, <2>4 DEF SwitchTuxGun, TypeOK
<1>7. CASE ShotTux(t)
  <2> DEFINE r == IF tux[t].bonus = BONUS_SHOT THEN tux[t] ELSE Spent(tux[t])
  <2>1. r \in TuxRecord
    BY <1>1, <1>7, SpentType DEF ShotTux, CanShoot
  <2>2. flying' \in SUBSET Shot
    <3>1. ShotsAtOnce(t) \subseteq Shot
      <4>1. \A b \in BOOLEAN : NewShot(t, b) \in Shot
        BY DEF NewShot, Shot
      <4> DEFINE b == tux[t].gun = GUN_BOMBBALL
      <4>2. b \in BOOLEAN
        OBVIOUS
      <4>3. ShotsAtOnce(t) \subseteq {NewShot(t, b)}
        BY DEF ShotsAtOnce
      <4> HIDE DEF b
      <4>4. QED
        BY <4>1, <4>2, <4>3
    <3>2. QED
      BY <1>7, <3>1 DEF ShotTux, TypeOK
  <2>3. AfterShot(t, r) /\ walk' = walk
    BY <1>7 DEF ShotTux
  <2> HIDE DEF r
  <2>4. /\ tux' \in [Tuxes -> TuxRecord] /\ timers' \in Seq(Timer)
        /\ walk' \in 0 .. Len(timers') + 1
    BY <2>1, <2>3, TypeAfterShot
  <2>5. QED
    BY <1>7, <2>2, <2>4 DEF ShotTux, TypeOK
<1>8. CASE PutMine(t)
  <2>1. Spent(tux[t]) \in TuxRecord
    BY <1>1, <1>8, SpentType DEF PutMine, CanShoot
  <2>2. items' \in [Items -> Item]
    BY <1>8, ItemsType DEF PutMine, Free
  <2>3. /\ tux' \in [Tuxes -> TuxRecord] /\ timers' \in Seq(Timer)
        /\ walk' \in 0 .. Len(timers') + 1
    BY <1>8, <2>1, TypeAfterShot DEF PutMine
  <2>4. QED
    BY <1>8, <2>2, <2>3 DEF PutMine, TypeOK
<1>9. CASE PutNoMine(t)
  <2>1. /\ tux' \in [Tuxes -> TuxRecord] /\ timers' \in Seq(Timer)
        /\ walk' \in 0 .. Len(timers') + 1
    BY <1>1, <1>9, TypeAfterShot DEF PutNoMine
  <2>2. QED
    BY <1>9, <2>1 DEF PutNoMine, TypeOK
<1>10. CASE TuxEvent(t)
  <2>1. tux' \in [Tuxes -> TuxRecord]
    BY <1>1, <1>10, EventType DEF TuxEvent
  <2>2. touched' \in SUBSET Items /\ toucher' \in Tuxes \cup {NoTux}
    BY <1>2, <1>10 DEF TuxEvent
  <2>3. QED
    BY <1>10, <2>1, <2>2 DEF TuxEvent, TypeOK
<1>11. QED
  BY <1>3, <1>4, <1>5, <1>6, <1>7, <1>8, <1>9, <1>10 DEF TuxStep

\* So do items that are touched and that end.
LEMMA TypeItemStep ==
    ASSUME TypeOK, NEW i \in Items, toucher \in Tuxes, Touch(i)
    PROVE  TypeOK'
<1>1. tux[toucher] \in TuxRecord /\ tux \in [Tuxes -> TuxRecord]
  BY DEF TypeOK
<1>2. NextTouch(i) => touched' \in SUBSET Items /\ toucher' \in Tuxes \cup {NoTux}
  BY DEF NextTouch, TypeOK
<1>3. CASE GiveGun(i)
  <2>1. tux' \in [Tuxes -> TuxRecord]
    BY <1>1, <1>3, GivenType DEF GiveGun
  <2>2. items' \in [Items -> Item]
    BY <1>3, ItemsType DEF GiveGun
  <2>3. QED
    BY <1>2, <1>3, <2>1, <2>2 DEF GiveGun, TypeOK
<1>4. CASE GiveBonus(i)
  <2>1. tux' \in [Tuxes -> TuxRecord]
    BY <1>1, <1>4, GivenType DEF GiveBonus
  <2>2. items' \in [Items -> Item]
    BY <1>4, ItemsType DEF GiveBonus
  <2>3. QED
    BY <1>2, <1>4, <2>1, <2>2 DEF GiveBonus, TypeOK
<1>5. CASE StepOnMine(i)
  <2>1. items' \in [Items -> Item]
    BY <1>5, ItemsType DEF StepOnMine, TypeOK
  <2>2. QED
    BY <1>2, <1>5, <2>1 DEF StepOnMine, TypeOK
<1>6. CASE StepInExplosion(i)
  <2>1. Teleport(toucher) => tux' \in [Tuxes -> TuxRecord]
    <3>1. [tux[toucher] EXCEPT !.inWall = FALSE] \in TuxRecord
      BY <1>1 DEF TuxRecord
    <3>2. QED
      BY <1>1, <3>1 DEF Teleport
  <2>2. CASE Die(toucher)
    BY <1>2, <1>6, <2>2, TypeDie DEF StepInExplosion, TypeOK
  <2>3. CASE UNCHANGED <<timers, round>> /\ (UNCHANGED tux \/ Teleport(toucher))
    BY <1>2, <1>6, <2>1, <2>3 DEF StepInExplosion, TypeOK
  <2>4. QED
    BY <1>6, <2>2, <2>3 DEF StepInExplosion
<1>7. QED
  BY <1>3, <1>4, <1>5, <1>6 DEF Touch

\* So does what shots do.
LEMMA TypeShotStep ==
    ASSUME TypeOK, NEW s \in flying, ShotStep(s)
    PROVE  TypeOK'
<1>1. s \in Shot /\ s.author \in Tuxes
  BY DEF TypeOK, Shot
<1>2. \A t \in Tuxes : Teleport(t) => tux' \in [Tuxes -> TuxRecord]
  <2>1. ASSUME NEW t \in Tuxes, Teleport(t)
        PROVE  tux' \in [Tuxes -> TuxRecord]
    <3>0. tux[t] \in TuxRecord
      BY DEF TypeOK
    <3>1. [tux[t] EXCEPT !.inWall = FALSE] \in TuxRecord
      BY <3>0 DEF TuxRecord
    <3>2. tux' = [tux EXCEPT ![t] = [tux[t] EXCEPT !.inWall = FALSE]]
      BY <2>1 DEF Teleport
    <3>3. QED
      BY <3>1, <3>2 DEF TypeOK
  <2>2. QED
    BY <2>1
<1>3. Spend(s) => flying' \in SUBSET Shot
  BY DEF Spend, TypeOK
<1>4. ASSUME NEW t \in Tuxes, ShotMissesTeleport(s, t)
      PROVE  TypeOK'
  BY <1>2, <1>4 DEF ShotMissesTeleport, TypeOK
<1>5. ASSUME NEW t \in Tuxes, BombBallExplosion(s, t)
      PROVE  TypeOK'
  <2>1. items' \in [Items -> Item]
    BY <1>1, <1>5, ItemsType DEF BombBallExplosion, Free
  <2>2. QED
    BY <1>3, <1>5, <2>1 DEF BombBallExplosion, TypeOK
<1>6. ASSUME NEW t \in Tuxes, ShotKills(s, t)
      PROVE  TypeOK'
  BY <1>3, <1>6, TypeDie DEF ShotKills, TypeOK
<1>7. ASSUME NEW i \in Items, ShotHitsMine(s, i)
      PROVE  TypeOK'
  BY <1>7, ItemsType DEF ShotHitsMine, TypeOK
<1>8. CASE ShotEnds(s)
  BY <1>8 DEF ShotEnds, TypeOK
<1>9. CASE ShotTurns(s)
  <2>1. [s EXCEPT !.home = TRUE] \in Shot
    BY <1>1 DEF Shot
  <2>2. QED
    BY <1>9, <2>1 DEF ShotTurns, TypeOK
<1>10. QED
  BY <1>4, <1>5, <1>6, <1>7, <1>8, <1>9 DEF ShotStep

\* So do the clock and the timers.
LEMMA TypeTick ==
    ASSUME TypeOK, Tick
    PROVE  /\ timers' \in Seq(Timer) /\ Len(timers') = Len(timers)
           /\ \A i \in 1 .. Len(timers) : timers'[i] = Older(timers[i])
<1>1. Len(timers) \in Nat /\ DOMAIN timers = 1 .. Len(timers)
      /\ \A i \in 1 .. Len(timers) : timers[i] \in Timer
  BY LenProperties, ElementOfSeq DEF TypeOK
<1>2. ASSUME NEW r \in Timer
      PROVE  Older(r) \in Timer
  <2> DEFINE n == IF r.left > 0 THEN r.left - 1 ELSE 0
  <2>1. n \in Nat
    BY DEF Timer
  <2>2. Older(r) = [r EXCEPT !.left = n]
    BY DEF Older
  <2> HIDE DEF n
  <2>3. QED
    BY <2>1, <2>2 DEF Timer
<1>3. timers' = [i \in 1 .. Len(timers) |-> Older(timers[i])]
  BY <1>1 DEF Tick
<1>4. timers' \in [1 .. Len(timers) -> Timer]
  BY <1>1, <1>2, <1>3
<1>5. QED
  BY <1>1, <1>3, <1>4

\* timer_event has the right types.
LEMMA TypeTimerEvent ==
    ASSUME TypeOK, TimerEvent
    PROVE  TypeOK'
<1>1. Len(timers) \in Nat /\ DOMAIN timers = 1 .. Len(timers)
      /\ \A i \in 1 .. Len(timers) : timers[i] \in Timer
  BY LenProperties, ElementOfSeq DEF TypeOK
<1>2. CASE StartTimers \/ Keep \/ FinishTimers
  BY <1>1, <1>2 DEF StartTimers, Keep, FinishTimers, TypeOK
<1>3. ASSUME NEW kinds, Fires(kinds)
      PROVE  /\ timers' \in Seq(Timer) /\ walk' \in 0 .. Len(timers') + 1
             /\ toucher' \in Tuxes \cup {NoTux} /\ touched' \in SUBSET Items
             /\ round' \in 0 .. MaxRound /\ lost' \in SUBSET (Tuxes \cup {NoTux})
  <2>1. timers' \in Seq(Timer) /\ Len(timers') = Len(timers) - 1
    BY <1>3, Removing DEF Fires, TypeOK
  <2>2. QED
    BY <1>1, <1>3, <2>1 DEF Fires, TypeOK
<1>5. CASE FiresForNobody
  BY <1>3, <1>5 DEF FiresForNobody, TypeOK
<1>7. ASSUME NEW t \in Tuxes
      PROVE  /\ [tux[t] EXCEPT !.status = "alive", !.gun = GUN_SIMPLE, !.inWall = FALSE] \in TuxRecord
             /\ [tux[t] EXCEPT !.canShot = TRUE] \in TuxRecord
             /\ [tux[t] EXCEPT !.canSwitch = TRUE] \in TuxRecord
  <2>1. tux[t] \in TuxRecord /\ GUN_SIMPLE \in Guns
    BY TuxAssumption DEF TypeOK
  <2>2. QED
    BY <2>1 DEF TuxRecord
<1>8. CASE SpawnTux
  <2>1. tux' \in [Tuxes -> TuxRecord]
    BY <1>7, <1>8 DEF SpawnTux, TypeOK
  <2>2. QED
    BY <1>3, <1>8, <2>1, ItemsType DEF SpawnTux, TypeOK
<1>9. CASE TuxCanShot
  <2>1. tux' \in [Tuxes -> TuxRecord]
    BY <1>7, <1>9 DEF TuxCanShot, TypeOK
  <2>2. QED
    BY <1>3, <1>9, <2>1 DEF TuxCanShot, TypeOK
<1>10. CASE TuxCanSwitchGun
  <2>1. tux' \in [Tuxes -> TuxRecord]
    BY <1>7, <1>10 DEF TuxCanSwitchGun, TypeOK
  <2>2. QED
    BY <1>3, <1>10, <2>1 DEF TuxCanSwitchGun, TypeOK
<1>11. CASE AddShot
  <2>1. timers[walk].tux \in Tuxes
    BY <1>1, <1>11 DEF AddShot, Fires, Timer
  <2>2. NewShot(timers[walk].tux, FALSE) \in Shot
    BY <2>1 DEF NewShot, Shot
  <2>3. flying' \in SUBSET Shot
    BY <1>11, <2>2 DEF AddShot, TypeOK
  <2>4. QED
    BY <1>3, <1>11, <2>3 DEF AddShot, TypeOK
<1>12. CASE EndArena
  BY <1>3, <1>12 DEF EndArena, TypeOK
<1>13. QED
  BY <1>2, <1>5, <1>8, <1>9, <1>10, <1>11, <1>12 DEF TimerEvent

(***************************************************************************)
(* Part 4: the inductive invariant.  A dead tux has a spawn timer that     *)
(* comes after every other timer it has, in the list and in time; so when  *)
(* the walk finds it due it has passed, and removed, all the others.  One  *)
(* that was dead in a saved game has none, and stays dead.                 *)
(***************************************************************************)
Is(i, k, t) == timers[i].task = k /\ timers[i].tux = t

\* Whether free or not, t waits for one task k or none.
Waits(k, t, free) ==
    IF free THEN \A i \in DOMAIN timers : ~Is(i, k, t)
    ELSE \E i \in DOMAIN timers : Is(i, k, t) /\ \A j \in DOMAIN timers : Is(j, k, t) => j = i

SpawnPends(t) == \E i \in DOMAIN timers : Is(i, "spawn", t)
SpawnsLast(t) ==
    \A i, j \in DOMAIN timers :
        timers[i].tux = t /\ Is(j, "spawn", t) => i <= j /\ timers[i].left <= timers[j].left

Life(t) ==
    /\ tux[t].status = "unborn" => \A i \in DOMAIN timers : timers[i].tux # t
    /\ Alive(t) =>
          /\ ~SpawnPends(t)
          /\ Waits("canShot", t, tux[t].canShot)
          /\ t \notin NetTuxes => Waits("canSwitch", t, tux[t].canSwitch)
    /\ Dead(t) =>
          /\ SpawnPends(t) <=> t \notin lost
          /\ SpawnsLast(t)
          /\ tux[t].canShot = TRUE /\ tux[t].canSwitch = TRUE
    /\ t \in lost => Dead(t) /\ t \notin NetTuxes

\* Nothing a tux waits for is later than a respawn that would start now.
Soon == \A i \in DOMAIN timers : timers[i].tux \in Tuxes => timers[i].left <= SpawnTime

\* What the walk has passed is not due.
Passed == \A i \in DOMAIN timers : i < walk => timers[i].left > 0

\* Items are touched by somebody.
Touching == touched # {} => toucher \in Tuxes

IInv == TypeOK /\ Soon /\ Passed /\ Touching /\ \A t \in Tuxes : Life(t)

\* Nobody has been born, and no timer is set.
LEMMA IInvInit == Init => IInv
<1> SUFFICES ASSUME Init PROVE IInv
  OBVIOUS
<1>1. DOMAIN timers = {}
  BY DEF Init
<1>2. \A t \in Tuxes : tux[t].status = "unborn"
  BY NewTuxType DEF Init
<1>2a. lost = {}
  BY DEF Init
<1>3. Soon /\ Passed
  BY <1>1 DEF Soon, Passed
<1>4. Touching
  BY DEF Init, Touching
<1>5. \A t \in Tuxes : Life(t)
  BY <1>1, <1>2, <1>2a DEF Life, Alive, Dead
<1>6. QED
  BY <1>3, <1>4, <1>5, TypeInit DEF IInv

\* The list and its tasks, as the steps below use them.
LEMMA TimersFacts ==
    ASSUME TypeOK
    PROVE  /\ Len(timers) \in Nat /\ DOMAIN timers = 1 .. Len(timers)
           /\ \A i \in DOMAIN timers :
                 /\ timers[i] \in Timer /\ timers[i].left \in Nat
                 /\ timers[i].task \in TuxTasks <=> timers[i].tux \in Tuxes
                 /\ timers[i].task \in TuxTasks \/ timers[i].task = "end"
           /\ walk \in Nat
<1>1. Len(timers) \in Nat /\ DOMAIN timers = 1 .. Len(timers)
      /\ \A i \in 1 .. Len(timers) : timers[i] \in Timer
  BY LenProperties, ElementOfSeq DEF TypeOK
<1>2. ASSUME NEW r \in Timer
      PROVE  /\ r.left \in Nat
             /\ r.task \in TuxTasks <=> r.tux \in Tuxes
             /\ r.task \in TuxTasks \/ r.task = "end"
  <2>1. CASE r \in [task : TuxTasks, tux : Tuxes, left : Nat]
    BY <2>1
  <2>2. CASE r \in [task : {"end"}, tux : {NoTux}, left : Nat]
    <3>1. r.task = "end" /\ r.tux = NoTux /\ r.left \in Nat
      BY <2>2
    <3>2. r.task \notin TuxTasks /\ r.tux \notin Tuxes
      BY <3>1, TuxAssumption DEF TuxTasks
    <3>3. QED
      BY <3>1, <3>2
  <2>3. QED
    BY <2>1, <2>2 DEF Timer
<1>3. walk \in Nat
  BY <1>1 DEF TypeOK
<1>4. QED
  BY <1>1, <1>2, <1>3

\* The life of a tux that a step leaves as it was, when the list grows by tasks
\* of others,
LEMMA LifeAppended ==
    ASSUME TypeOK, NEW t \in Tuxes, Life(t), NEW more \in Seq(Timer), Appended(more),
           \A i \in DOMAIN more : more[i].tux # t,
           Same(tux[t], tux'[t]), lost' = lost
    PROVE  Life(t)'
<1>1. Len(timers) \in Nat /\ DOMAIN timers = 1 .. Len(timers)
  BY TimersFacts
<1>2. Len(more) \in Nat /\ DOMAIN more = 1 .. Len(more)
  BY LenProperties
<1>3. DOMAIN timers' = 1 .. Len(timers')
  BY LenProperties DEF Appended
<1>4. /\ DOMAIN timers \subseteq DOMAIN timers'
      /\ \A i \in DOMAIN timers : timers'[i] = timers[i]
      /\ \A i \in DOMAIN timers' : i \notin DOMAIN timers => timers'[i].tux # t
  <2>1. Len(timers') = Len(timers) + Len(more)
    BY DEF Appended
  <2>2. DOMAIN timers \subseteq DOMAIN timers'
    BY <1>1, <1>2, <1>3, <2>1
  <2>3. \A i \in DOMAIN timers : timers'[i] = timers[i]
    BY <1>1 DEF Appended
  <2>4. ASSUME NEW i \in DOMAIN timers', i \notin DOMAIN timers
        PROVE  timers'[i].tux # t
    <3>1. i > Len(timers)
      BY <1>1, <1>2, <1>3, <2>1, <2>4
    <3>2. i - Len(timers) \in DOMAIN more /\ timers'[i] = more[i - Len(timers)]
      BY <1>3, <3>1 DEF Appended
    <3>3. QED
      BY <3>2
  <2>5. QED
    BY <2>2, <2>3, <2>4
<1>5. \A i \in DOMAIN timers' : timers'[i].tux = t => i \in DOMAIN timers /\ timers'[i] = timers[i]
  BY <1>4
<1>6. CASE tux[t].status = "unborn"
  BY <1>5, <1>6 DEF Life, Alive, Dead, Same
<1>7. CASE Alive(t)
  BY <1>4, <1>5, <1>7 DEF Life, Alive, Dead, Same, Waits, Is, SpawnPends
<1>8. CASE Dead(t)
  BY <1>4, <1>5, <1>8 DEF Life, Alive, Dead, Same, Is, SpawnPends, SpawnsLast
<1>9. QED
  BY <1>6, <1>7, <1>8 DEF Life, Alive, Dead, Same

\* when it is the same,
LEMMA LifeUnchanged ==
    ASSUME NEW t \in Tuxes, Life(t), timers' = timers, Same(tux[t], tux'[t]), lost' = lost
    PROVE  Life(t)'
  BY DEF Life, Same, Alive, Dead, Waits, Is, SpawnPends, SpawnsLast

\* when time passes,
LEMMA LifeTick ==
    ASSUME TypeOK, NEW t \in Tuxes, Life(t), Tick
    PROVE  Life(t)'
<1>1. /\ timers' \in Seq(Timer) /\ Len(timers') = Len(timers)
      /\ \A i \in 1 .. Len(timers) : timers'[i] = Older(timers[i])
  BY TypeTick
<1>2. /\ Len(timers) \in Nat /\ DOMAIN timers = 1 .. Len(timers)
      /\ \A i \in DOMAIN timers : timers[i] \in Timer /\ timers[i].left \in Nat
  BY TimersFacts
<1>3. DOMAIN timers' = DOMAIN timers
  BY <1>1, <1>2, LenProperties
<1>4. \A r \in Timer : /\ Older(r).task = r.task /\ Older(r).tux = r.tux
                        /\ Older(r).left = IF r.left > 0 THEN r.left - 1 ELSE 0
  BY DEF Older, Timer
<1>5. \A i \in DOMAIN timers :
        /\ timers'[i].task = timers[i].task /\ timers'[i].tux = timers[i].tux
        /\ timers'[i].left = IF timers[i].left > 0 THEN timers[i].left - 1 ELSE 0
  BY <1>1, <1>2, <1>4
<1>6. tux' = tux /\ lost' = lost
  BY DEF Tick
<1>7. SpawnsLast(t) => SpawnsLast(t)'
  BY <1>2, <1>3, <1>5 DEF SpawnsLast, Is
<1>8. QED
  BY <1>3, <1>5, <1>6, <1>7 DEF Life, Alive, Dead, Waits, Is, SpawnPends

\* and when a task is removed that it does not wait for.
Old(j, k) == IF j < k THEN j ELSE j + 1

\* Every other task keeps its place in the order.
LEMMA RemovedFacts ==
    ASSUME TypeOK, NEW k \in DOMAIN timers, timers' = Without(k)
    PROVE  /\ \A j \in DOMAIN timers' :
                 Old(j, k) \in DOMAIN timers \ {k} /\ timers'[j] = timers[Old(j, k)]
           /\ \A i \in DOMAIN timers \ {k} : \E j \in DOMAIN timers' : Old(j, k) = i
           /\ \A i, j \in DOMAIN timers' : Old(i, k) <= Old(j, k) => i <= j
           /\ \A i, j \in DOMAIN timers' : Old(i, k) = Old(j, k) => i = j
<1>1. Len(timers) \in Nat /\ DOMAIN timers = 1 .. Len(timers)
  BY TimersFacts
<1>2. /\ timers' \in Seq(Timer) /\ Len(timers') = Len(timers) - 1
      /\ \A j \in 1 .. Len(timers) - 1 :
            timers'[j] = IF j < k THEN timers[j] ELSE timers[j + 1]
  BY Removing DEF TypeOK
<1>3. DOMAIN timers' = 1 .. Len(timers) - 1
  BY <1>2, LenProperties
<1>4. \A j \in DOMAIN timers' :
        Old(j, k) \in DOMAIN timers \ {k} /\ timers'[j] = timers[Old(j, k)]
  BY <1>1, <1>2, <1>3 DEF Old
<1>5. ASSUME NEW i \in DOMAIN timers \ {k}
      PROVE  \E j \in DOMAIN timers' : Old(j, k) = i
  <2>1. CASE i < k
    <3>1. i \in DOMAIN timers' /\ Old(i, k) = i
      BY <1>1, <1>3, <2>1 DEF Old
    <3>2. QED
      BY <3>1
  <2>2. CASE i > k
    <3>1. i - 1 \in DOMAIN timers' /\ Old(i - 1, k) = i
      BY <1>1, <1>3, <2>2 DEF Old
    <3>2. QED
      BY <3>1
  <2>3. QED
    BY <1>1, <2>1, <2>2
<1>6. /\ \A i, j \in DOMAIN timers' : Old(i, k) <= Old(j, k) => i <= j
      /\ \A i, j \in DOMAIN timers' : Old(i, k) = Old(j, k) => i = j
  BY <1>1, <1>3 DEF Old
<1>7. QED
  BY <1>4, <1>5, <1>6

\* What t waits for, when the task k is removed.
LEMMA WaitsRemoved ==
    ASSUME TypeOK, NEW k \in DOMAIN timers, timers' = Without(k), NEW c, NEW t
    PROVE  /\ Waits(c, t, TRUE) => Waits(c, t, TRUE)'
           /\ Waits(c, t, FALSE) /\ ~Is(k, c, t) => Waits(c, t, FALSE)'
           /\ Waits(c, t, FALSE) /\ Is(k, c, t) => Waits(c, t, TRUE)'
<1>1. Waits(c, t, TRUE) => Waits(c, t, TRUE)'
  BY RemovedFacts DEF Waits, Is
<1>2. ASSUME Waits(c, t, FALSE), ~Is(k, c, t)
      PROVE  Waits(c, t, FALSE)'
  <2>1. PICK i \in DOMAIN timers :
          Is(i, c, t) /\ \A j \in DOMAIN timers : Is(j, c, t) => j = i
    BY <1>2 DEF Waits
  <2>2. PICK n \in DOMAIN timers' : Old(n, k) = i
    BY <1>2, <2>1, RemovedFacts
  <2>3. Is(n, c, t)'
    BY <2>1, <2>2, RemovedFacts DEF Is
  <2>4. ASSUME NEW j \in DOMAIN timers', Is(j, c, t)'
        PROVE  j = n
    BY <2>1, <2>2, <2>4, RemovedFacts DEF Is
  <2>5. QED
    BY <2>3, <2>4 DEF Waits
<1>3. ASSUME Waits(c, t, FALSE), Is(k, c, t)
      PROVE  Waits(c, t, TRUE)'
  BY <1>3, RemovedFacts DEF Waits, Is
<1>4. QED
  BY <1>1, <1>2, <1>3

\* The life of t, when it does not wait for the task k.
LEMMA LifeRemoved ==
    ASSUME TypeOK, NEW t \in Tuxes, Life(t), NEW k \in DOMAIN timers, timers' = Without(k),
           Same(tux[t], tux'[t]), lost' = lost,
           timers[k].tux = t /\ Alive(t) => timers[k].task \notin {"canShot", "canSwitch"},
           timers[k].tux = t /\ Dead(t) => timers[k].task # "spawn"
    PROVE  Life(t)'
<1>1. CASE tux[t].status = "unborn"
  BY <1>1, RemovedFacts DEF Life, Alive, Dead, Same
<1>2. CASE Alive(t)
  <2>1. ~SpawnPends(t)'
    BY <1>2, RemovedFacts DEF Life, SpawnPends, Is
  <2>2. ~Is(k, "canShot", t) /\ ~Is(k, "canSwitch", t)
    BY <1>2 DEF Is
  <2>3. tux[t].canShot \in BOOLEAN /\ tux[t].canSwitch \in BOOLEAN
    BY DEF TypeOK, TuxRecord
  <2>4. \A c \in {"canShot", "canSwitch"}, free \in BOOLEAN :
          Waits(c, t, free) => Waits(c, t, free)'
    BY <2>2, WaitsRemoved
  <2>5. QED
    BY <1>2, <2>1, <2>3, <2>4 DEF Life, Alive, Dead, Same
<1>3. CASE Dead(t)
  <2>1. SpawnPends(t)' <=> SpawnPends(t)
    <3>1. ASSUME NEW i \in DOMAIN timers, Is(i, "spawn", t)
          PROVE  SpawnPends(t)'
      <4>1. i # k
        BY <1>3, <3>1 DEF Is
      <4>2. PICK j \in DOMAIN timers' : Old(j, k) = i
        BY <4>1, RemovedFacts
      <4>3. QED
        BY <3>1, <4>2, RemovedFacts DEF Is, SpawnPends
    <3>2. SpawnPends(t)' => SpawnPends(t)
      BY RemovedFacts DEF Is, SpawnPends
    <3>3. QED
      BY <3>1, <3>2 DEF SpawnPends
  <2>2. SpawnsLast(t)'
    BY <1>3, RemovedFacts DEF Life, SpawnsLast, Is
  <2>3. QED
    BY <1>3, <2>1, <2>2 DEF Life, Alive, Dead, Same
<1>4. QED
  BY <1>1, <1>2, <1>3 DEF Life, Alive, Dead, Same

(***************************************************************************)
(* Part 5: every step keeps it.                                            *)
(***************************************************************************)

\* Where the tasks of a longer list come from.
LEMMA AppendedFacts ==
    ASSUME TypeOK, NEW more \in Seq(Timer), Appended(more)
    PROVE  /\ \A i \in DOMAIN timers : i \in DOMAIN timers' /\ timers'[i] = timers[i]
           /\ \A i \in DOMAIN timers' : i \notin DOMAIN timers =>
                 \E n \in DOMAIN more : i = Len(timers) + n /\ timers'[i] = more[n]
           /\ \A n \in DOMAIN more :
                 /\ Len(timers) + n \in DOMAIN timers' \ DOMAIN timers
                 /\ timers'[Len(timers) + n] = more[n]
           /\ Len(more) \in Nat /\ DOMAIN more = 1 .. Len(more)
<1>1. Len(timers) \in Nat /\ DOMAIN timers = 1 .. Len(timers)
  BY TimersFacts
<1>2. Len(more) \in Nat /\ DOMAIN more = 1 .. Len(more)
  BY LenProperties
<1>3. Len(timers') = Len(timers) + Len(more) /\ DOMAIN timers' = 1 .. Len(timers')
  BY LenProperties DEF Appended
<1>4. \A i \in DOMAIN timers : i \in DOMAIN timers' /\ timers'[i] = timers[i]
  BY <1>1, <1>2, <1>3 DEF Appended
<1>5. ASSUME NEW i \in DOMAIN timers', i \notin DOMAIN timers
      PROVE  \E n \in DOMAIN more : i = Len(timers) + n /\ timers'[i] = more[n]
  <2>1. i \in 1 .. Len(timers') /\ i > Len(timers)
    BY <1>1, <1>2, <1>3, <1>5
  <2>2. i - Len(timers) \in DOMAIN more /\ timers'[i] = more[i - Len(timers)]
    BY <2>1 DEF Appended
  <2>3. i = Len(timers) + (i - Len(timers))
    BY <1>1, <2>1
  <2>4. QED
    BY <2>2, <2>3
<1>6. ASSUME NEW n \in DOMAIN more
      PROVE  /\ Len(timers) + n \in DOMAIN timers' \ DOMAIN timers
             /\ timers'[Len(timers) + n] = more[n]
  <2> DEFINE i == Len(timers) + n
  <2>1. n \in 1 .. Len(more)
    BY <1>2
  <2>2. i \in 1 .. Len(timers') /\ i > Len(timers) /\ i - Len(timers) = n
    BY <1>1, <1>2, <1>3, <2>1
  <2>3. i \in DOMAIN timers' /\ i \notin DOMAIN timers
    BY <1>1, <1>3, <2>2
  <2> HIDE DEF i
  <2>4. timers'[i] = more[n]
    BY <2>2 DEF Appended
  <2>5. QED
    BY <2>3, <2>4 DEF i
<1>7. QED
  BY <1>2, <1>4, <1>5, <1>6

\* Tasks that are added are soon enough, and lie before the walk.
LEMMA ListAppended ==
    ASSUME TypeOK, Soon, Passed, NEW more \in Seq(Timer), Appended(more), walk' = walk,
           \A n \in DOMAIN more : more[n].tux \in Tuxes => more[n].left <= SpawnTime
    PROVE  Soon' /\ Passed'
<1>1. Soon'
  BY AppendedFacts DEF Soon
<1>2. Passed'
  <2>1. ASSUME NEW i \in DOMAIN timers', i < walk, i \notin DOMAIN timers
        PROVE  FALSE
    <3>1. PICK n \in DOMAIN more : i = Len(timers) + n
      BY <2>1, AppendedFacts
    <3>2. n \in Nat /\ n >= 1
      BY AppendedFacts
    <3>3. Len(timers) \in Nat /\ walk \in 0 .. Len(timers) + 1
      BY TimersFacts DEF TypeOK
    <3>4. QED
      BY <2>1, <3>1, <3>2, <3>3
  <2>2. QED
    BY <2>1, AppendedFacts DEF Passed
<1>3. QED
  BY <1>1, <1>2

\* Removing the task the walk is at moves nothing past it.
LEMMA ListRemoved ==
    ASSUME TypeOK, Soon, Passed, walk \in DOMAIN timers, timers' = Without(walk), walk' = walk
    PROVE  Soon' /\ Passed'
<1>1. /\ \A j \in DOMAIN timers' :
            Old(j, walk) \in DOMAIN timers /\ timers'[j] = timers[Old(j, walk)]
  BY RemovedFacts
<1>2. \A j \in DOMAIN timers' : j < walk => Old(j, walk) = j
  BY DEF Old
<1>3. QED
  BY <1>1, <1>2 DEF Soon, Passed

\* What t waits for when tasks are added.
LEMMA WaitsAppended ==
    ASSUME TypeOK, NEW more \in Seq(Timer), Appended(more), NEW c, NEW t
    PROVE  /\ (\A n \in DOMAIN more : ~(more[n].task = c /\ more[n].tux = t)) =>
                 \A free \in BOOLEAN : Waits(c, t, free) => Waits(c, t, free)'
           /\ \A m \in DOMAIN more :
                 /\ Waits(c, t, TRUE)
                 /\ more[m].task = c /\ more[m].tux = t
                 /\ \A n \in DOMAIN more : more[n].task = c => n = m
                 => Waits(c, t, FALSE)'
<1>1. ASSUME \A n \in DOMAIN more : ~(more[n].task = c /\ more[n].tux = t)
      PROVE  \A free \in BOOLEAN : Waits(c, t, free) => Waits(c, t, free)'
  <2>1. \A i \in DOMAIN timers' : Is(i, c, t)' => i \in DOMAIN timers /\ Is(i, c, t)
    BY <1>1, AppendedFacts DEF Is
  <2>2. \A i \in DOMAIN timers : i \in DOMAIN timers' /\ (Is(i, c, t) => Is(i, c, t)')
    BY AppendedFacts DEF Is
  <2>3. Waits(c, t, TRUE) => Waits(c, t, TRUE)'
    BY <2>1 DEF Waits
  <2>4. Waits(c, t, FALSE) => Waits(c, t, FALSE)'
    BY <2>1, <2>2 DEF Waits
  <2>5. QED
    BY <2>3, <2>4
<1>2. ASSUME NEW m \in DOMAIN more, Waits(c, t, TRUE),
             more[m].task = c, more[m].tux = t,
             \A n \in DOMAIN more : more[n].task = c => n = m
      PROVE  Waits(c, t, FALSE)'
  <2>1. PICK i \in DOMAIN timers' : i = Len(timers) + m /\ timers'[i] = more[m]
    BY AppendedFacts
  <2>2. ASSUME NEW j \in DOMAIN timers', Is(j, c, t)'
        PROVE  j = i
    <3>1. j \notin DOMAIN timers
      BY <1>2, <2>2, AppendedFacts DEF Waits, Is
    <3>2. PICK n \in DOMAIN more : j = Len(timers) + n /\ timers'[j] = more[n]
      BY <3>1, AppendedFacts
    <3>3. n = m
      BY <1>2, <2>2, <3>2 DEF Is
    <3>4. QED
      BY <2>1, <3>2, <3>3
  <2>3. Is(i, c, t)'
    BY <1>2, <2>1 DEF Is
  <2>4. QED
    BY <2>1, <2>2, <2>3 DEF Waits
<1>3. QED
  BY <1>1, <1>2

\* Death: the spawn timer is behind and after all that t still waits for.
LEMMA LifeKill ==
    ASSUME TypeOK, Soon, NEW t \in Tuxes, Alive(t), Life(t), Kill(t), lost' = lost
    PROVE  Life(t)'
<1>1. PICK more \in Seq(Timer) :
        /\ Appended(more) /\ Len(more) \in {1, 2}
        /\ more[Len(more)] = Task("spawn", t, SpawnTime)
        /\ Len(more) = 2 => LastRound /\ more[1] = Task("end", NoTux, EndTime)
        /\ LastRound => Len(more) = 2
  BY KillAppends
<1>2. Len(more) \in DOMAIN more
  <2>1. DOMAIN more = 1 .. Len(more)
    BY <1>1, AppendedFacts
  <2>2. QED
    BY <1>1, <2>1
<1>3. PICK last \in DOMAIN timers' :
        last = Len(timers) + Len(more) /\ timers'[last] = Task("spawn", t, SpawnTime)
  BY <1>1, <1>2, AppendedFacts
<1>4. ASSUME NEW i \in DOMAIN timers', timers'[i].tux = t
      PROVE  /\ i <= last /\ timers'[i].left <= SpawnTime
             /\ timers'[i].task = "spawn" => i = last
  <2>1. CASE i \in DOMAIN timers
    <3>1. timers'[i] = timers[i]
      BY <1>1, <2>1, AppendedFacts
    <3>2. timers[i].left <= SpawnTime /\ timers[i].task # "spawn"
      BY <1>4, <2>1, <3>1 DEF Soon, Life, SpawnPends, Is
    <3>3. i <= last
      BY <1>1, <1>3, <2>1, TimersFacts
    <3>4. QED
      BY <3>1, <3>2, <3>3
  <2>2. CASE i \notin DOMAIN timers
    <3>1. PICK n \in DOMAIN more : i = Len(timers) + n /\ timers'[i] = more[n]
      BY <1>1, <2>2, AppendedFacts
    <3>2. n = Len(more)
      <4>1. n \in 1 .. Len(more)
        BY <1>1, AppendedFacts
      <4>2. CASE n # Len(more)
        <5>1. Len(more) = 2 /\ n = 1
          BY <1>1, <4>1, <4>2
        <5>2. more[n].tux = NoTux
          BY <1>1, <5>1 DEF Task
        <5>3. QED
          BY <1>4, <3>1, <5>2, TuxAssumption
      <4>3. QED
        BY <4>2
    <3>3. i = last
      BY <1>3, <3>1, <3>2
    <3>4. timers'[i].left = SpawnTime
      BY <1>3, <3>3 DEF Task
    <3>5. last \in Nat /\ SpawnTime \in Nat
      BY <1>1, <1>3, TimersFacts, TuxAssumption
    <3>6. QED
      BY <3>3, <3>4, <3>5
  <2>3. QED
    BY <2>1, <2>2
<1>5. /\ timers'[last].task = "spawn" /\ timers'[last].tux = t
      /\ timers'[last].left = SpawnTime
  BY <1>3 DEF Task
<1>6. SpawnPends(t)' /\ SpawnsLast(t)'
  <2>1. SpawnPends(t)'
    BY <1>3, <1>5 DEF SpawnPends, Is
  <2>2. SpawnsLast(t)'
    BY <1>4, <1>5 DEF SpawnsLast, Is
  <2>3. QED
    BY <2>1, <2>2
<1>7. tux'[t] = Killed(tux[t]) /\ tux[t] \in TuxRecord
  BY DEF Kill, TypeOK
<1>8. tux'[t].status = "dead" /\ tux'[t].canShot = TRUE /\ tux'[t].canSwitch = TRUE
  BY <1>7, KilledType
<1>9. QED
  BY <1>6, <1>8 DEF Life, Alive, Dead

\* A shot: t waits for one reload, and for one change of guns if it changed.
LEMMA LifeShot ==
    ASSUME TypeOK, NEW t \in Tuxes, Alive(t), Life(t), tux[t].canShot,
           NEW r \in TuxRecord, Same(tux[t], r), AfterShot(t, r), lost' = lost
    PROVE  Life(t)'
<1> DEFINE switches == r.ammo[r.gun] = 0 /\ MaySwitch(t, r)
           q == [r EXCEPT !.canShot = FALSE]
<1>0. PICK more \in Seq(Timer), n \in Nat : Volleyed(t, r, more, n)
  BY ShotAppends
<1>1. /\ Appended(more) /\ n \in DOMAIN more
      /\ more[n].task = "canShot"
      /\ \A i \in DOMAIN more :
            /\ more[i].tux = t /\ more[i].left <= SpawnTime
            /\ i # n => more[i].task \in {"tommy", "lasser", "canSwitch"}
            /\ more[i].task = "canSwitch" => i = n + 1 /\ switches
      /\ switches => n + 1 \in DOMAIN more /\ more[n + 1].task = "canSwitch"
  BY <1>0 DEF Volleyed
<1>2. q \in TuxRecord /\ q.status = "alive" /\ q.canShot = FALSE /\ q.canSwitch = tux[t].canSwitch
      /\ Loaded(q) = Loaded(r)
  BY DEF TuxRecord, Same, Alive, Loaded
<1>3. /\ tux'[t].status = "alive" /\ tux'[t].canShot = FALSE
      /\ tux'[t].canSwitch = IF switches THEN FALSE ELSE tux[t].canSwitch
  <2>1. CASE switches
    <3>1. tux' = [tux EXCEPT ![t] = Switched(q)]
      BY <2>1 DEF AfterShot
    <3>2. Loaded(q) # {}
      BY <1>2, <2>1 DEF MaySwitch
    <3> HIDE DEF q
    <3>3. tux'[t] = Switched(q)
      BY <3>1 DEF TypeOK
    <3>4. /\ Switched(q).status = q.status /\ Switched(q).canShot = q.canShot
          /\ Switched(q).canSwitch = FALSE
      BY DEF Switched
    <3>5. QED
      BY <1>2, <2>1, <3>3, <3>4
  <2>2. CASE ~switches
    <3>1. tux'[t] = q
      BY <2>2 DEF AfterShot, TypeOK
    <3>2. QED
      BY <1>2, <2>2, <3>1
  <2>3. QED
    BY <2>1, <2>2
<1>4. ~SpawnPends(t)'
  <2>1. \A m \in DOMAIN more : more[m].task # "spawn"
    BY <1>1
  <2>2. ASSUME NEW i \in DOMAIN timers', Is(i, "spawn", t)'
        PROVE  FALSE
    <3>1. CASE i \in DOMAIN timers
      BY <1>1, <2>2, <3>1, AppendedFacts DEF Life, SpawnPends, Is
    <3>2. CASE i \notin DOMAIN timers
      BY <1>1, <2>1, <2>2, <3>2, AppendedFacts DEF Is
    <3>3. QED
      BY <3>1, <3>2
  <2>3. QED
    BY <2>2 DEF SpawnPends
<1>5. Waits("canShot", t, FALSE)'
  <2>1. Waits("canShot", t, TRUE)
    BY DEF Life, Waits
  <2>2. \A m \in DOMAIN more : more[m].task = "canShot" => m = n
    BY <1>1
  <2>3. QED
    BY <1>1, <2>1, <2>2, WaitsAppended
<1>6. ASSUME t \notin NetTuxes
      PROVE  Waits("canSwitch", t, tux[t].canSwitch)
  BY <1>6 DEF Life
<1>7. ASSUME t \notin NetTuxes, switches
      PROVE  Waits("canSwitch", t, FALSE)'
  <2>1. tux[t].canSwitch
    BY <1>7 DEF MaySwitch, Same
  <2>2. Waits("canSwitch", t, TRUE)
    BY <1>6, <1>7, <2>1 DEF Waits
  <2>3. PICK m \in DOMAIN more : m = n + 1 /\ more[m].task = "canSwitch"
    BY <1>1, <1>7
  <2>4. \A i \in DOMAIN more : more[i].task = "canSwitch" => i = m
    BY <1>1, <2>3
  <2>5. QED
    BY <1>1, <2>2, <2>3, <2>4, WaitsAppended
<1>8. ASSUME t \notin NetTuxes, ~switches
      PROVE  Waits("canSwitch", t, tux[t].canSwitch)'
  <2>1. \A i \in DOMAIN more : more[i].task # "canSwitch"
    BY <1>1, <1>8
  <2>2. \A free \in BOOLEAN : Waits("canSwitch", t, free) => Waits("canSwitch", t, free)'
    BY <1>1, <2>1, WaitsAppended
  <2>3. tux[t].canSwitch \in BOOLEAN /\ tux'[t].canSwitch = tux[t].canSwitch
    BY <1>3, <1>8 DEF TypeOK, TuxRecord
  <2>4. QED
    BY <1>6, <1>8, <2>2, <2>3
<1> HIDE DEF switches
<1>9. t \notin NetTuxes => Waits("canSwitch", t, tux[t].canSwitch)'
  <2>1. CASE switches
    <3>1. tux'[t].canSwitch = FALSE
      BY <1>3, <2>1
    <3>2. QED
      BY <1>7, <2>1, <3>1
  <2>2. QED
    BY <1>8, <2>1
<1>10. QED
  BY <1>3, <1>4, <1>5, <1>9 DEF Life, Alive, Dead

\* Taking another gun: t waits for one change of guns, if it waits for any.
LEMMA LifeSwitch ==
    ASSUME TypeOK, NEW t \in Tuxes, Life(t), SwitchTuxGun(t), lost' = lost,
           NEW more \in Seq(Timer), Appended(more), DOMAIN more = {1}, more[1] = SwitchTimer(t)
    PROVE  Life(t)'
<1>1. Alive(t) /\ MaySwitch(t, tux[t]) /\ tux[t] \in TuxRecord
  BY DEF SwitchTuxGun, TypeOK
<1>2. /\ tux'[t].status = "alive" /\ tux'[t].canShot = tux[t].canShot
      /\ tux'[t].canSwitch = FALSE
  BY <1>1 DEF SwitchTuxGun, TypeOK, Switched, TuxRecord, Alive
<1>3. more[1].task = "canSwitch" /\ more[1].tux = t
  BY DEF SwitchTimer, Task
<1>4. ~SpawnPends(t)'
  <2>1. ASSUME NEW i \in DOMAIN timers', Is(i, "spawn", t)'
        PROVE  FALSE
    <3>1. CASE i \in DOMAIN timers
      BY <1>1, <2>1, <3>1, AppendedFacts DEF Life, SpawnPends, Is
    <3>2. CASE i \notin DOMAIN timers
      BY <1>3, <2>1, <3>2, AppendedFacts DEF Is
    <3>3. QED
      BY <3>1, <3>2
  <2>2. QED
    BY <2>1 DEF SpawnPends
<1>5. Waits("canShot", t, tux[t].canShot)'
  <2>1. tux[t].canShot \in BOOLEAN /\ Waits("canShot", t, tux[t].canShot)
    BY <1>1 DEF Life, TuxRecord
  <2>2. \A n \in DOMAIN more : more[n].task # "canShot"
    BY <1>3
  <2>3. \A free \in BOOLEAN : Waits("canShot", t, free) => Waits("canShot", t, free)'
    BY <2>2, WaitsAppended
  <2>4. QED
    BY <1>2, <2>1, <2>3
<1>6. ASSUME t \notin NetTuxes
      PROVE  Waits("canSwitch", t, FALSE)'
  <2>1. Waits("canSwitch", t, TRUE)
    BY <1>1, <1>6 DEF Life, MaySwitch, Waits
  <2>2. 1 \in DOMAIN more /\ \A n \in DOMAIN more : more[n].task = "canSwitch" => n = 1
    OBVIOUS
  <2>3. QED
    BY <1>3, <2>1, <2>2, WaitsAppended
<1>7. t \notin NetTuxes => Waits("canSwitch", t, tux[t].canSwitch)'
  BY <1>2, <1>6
<1>8. t \notin lost
  BY <1>1 DEF Life, Alive, Dead
<1>9. QED
  BY <1>2, <1>4, <1>5, <1>7, <1>8 DEF Life, Alive, Dead

\* The part of the invariant that is about timers, and what RespawnsClean says
\* of a step.
Core == Soon /\ Passed /\ \A t \in Tuxes : Life(t)

Clean ==
    \A t \in Tuxes : Dead(t) /\ tux'[t].status = "alive" =>
        \A i \in DOMAIN timers' : timers'[i].tux # t

\* A step that leaves lives, flags and timers alone.
LEMMA CoreQuiet ==
    ASSUME Core, timers' = timers, walk' = walk, lost' = lost, \A u \in Tuxes : Same(tux[u], tux'[u])
    PROVE  Core' /\ Clean
<1>1. Soon' /\ Passed'
  BY DEF Core, Soon, Passed
<1>2. \A u \in Tuxes : Life(u)'
  BY LifeUnchanged DEF Core
<1>3. Clean
  BY DEF Clean, Same, Dead
<1>4. QED
  BY <1>1, <1>2, <1>3 DEF Core

\* A step in which t alone changes and all that is added is its own, or the end
\* of the match, and soon enough.
LEMMA CoreAppended ==
    ASSUME TypeOK, Core, NEW t \in Tuxes, walk' = walk, lost' = lost,
           NEW more \in Seq(Timer), Appended(more),
           \A n \in DOMAIN more :
              /\ more[n].tux \in {t, NoTux}
              /\ more[n].tux \in Tuxes => more[n].left <= SpawnTime,
           \A u \in Tuxes \ {t} : tux'[u] = tux[u],
           Life(t)', tux'[t].status = tux[t].status \/ Alive(t)
    PROVE  Core' /\ Clean
<1>1. Soon' /\ Passed'
  BY ListAppended DEF Core
<1>2. ASSUME NEW u \in Tuxes \ {t}
      PROVE  Life(u)'
  <2>1. \A n \in DOMAIN more : more[n].tux # u
    BY TuxAssumption
  <2>2. Same(tux[u], tux'[u])
    BY DEF Same
  <2>3. QED
    BY <2>1, <2>2, LifeAppended DEF Core
<1>3. Clean
  BY DEF Clean, Dead, Alive
<1>4. QED
  BY <1>1, <1>2, <1>3 DEF Core

\* Death, or being hit when dead.
LEMMA CoreDie ==
    ASSUME TypeOK, Core, NEW t \in Tuxes, Die(t), walk' = walk, lost' = lost
    PROVE  Core' /\ Clean
<1>1. CASE Alive(t) /\ Kill(t)
  <2>1. PICK more \in Seq(Timer) :
          /\ Appended(more) /\ Len(more) \in {1, 2}
          /\ more[Len(more)] = Task("spawn", t, SpawnTime)
          /\ Len(more) = 2 => LastRound /\ more[1] = Task("end", NoTux, EndTime)
          /\ LastRound => Len(more) = 2
    BY <1>1, KillAppends
  <2>2. DOMAIN more = 1 .. Len(more)
    BY <2>1, AppendedFacts
  <2>3. ASSUME NEW n \in DOMAIN more
        PROVE  /\ more[n].tux \in {t, NoTux}
               /\ more[n].tux \in Tuxes => more[n].left <= SpawnTime
    <3>1. CASE n = Len(more)
      BY <2>1, <3>1, TuxAssumption DEF Task
    <3>2. CASE n # Len(more)
      <4>1. more[n] = Task("end", NoTux, EndTime)
        BY <2>1, <2>2, <3>2
      <4>2. QED
        BY <4>1, TuxAssumption DEF Task
    <3>3. QED
      BY <3>1, <3>2
  <2>4. Life(t)'
    BY <1>1, LifeKill DEF Core
  <2>5. \A u \in Tuxes \ {t} : tux'[u] = tux[u]
    BY <1>1 DEF Kill, TypeOK
  <2>6. QED
    BY <1>1, <2>1, <2>3, <2>4, <2>5, CoreAppended
<1>2. CASE UNCHANGED <<tux, round, timers>>
  BY <1>2, CoreQuiet DEF Same
<1>3. QED
  BY <1>1, <1>2 DEF Die

\* The shots.
LEMMA CoreShot ==
    ASSUME TypeOK, Core, NEW t \in Tuxes, Alive(t), tux[t].canShot,
           NEW r \in TuxRecord, Same(tux[t], r), AfterShot(t, r), walk' = walk, lost' = lost
    PROVE  Core' /\ Clean
<1>1. PICK more \in Seq(Timer), n \in Nat : Volleyed(t, r, more, n)
  BY ShotAppends
<1>2. /\ Appended(more)
      /\ \A i \in DOMAIN more : more[i].tux = t /\ more[i].left <= SpawnTime
  BY <1>1 DEF Volleyed
<1>3. Life(t)'
  BY LifeShot DEF Core
<1>4. \A u \in Tuxes \ {t} : tux'[u] = tux[u]
  BY DEF AfterShot, TypeOK
<1>5. QED
  BY <1>2, <1>3, <1>4, CoreAppended

\* What a tux does.
LEMMA CoreTuxStep ==
    ASSUME TypeOK, Core, NEW t \in Tuxes, TuxStep(t), lost' = lost
    PROVE  Core' /\ Clean
<1>1. tux[t] \in TuxRecord /\ tux \in [Tuxes -> TuxRecord] /\ timers \in Seq(Timer)
  BY DEF TypeOK
<1>2. Soon /\ Passed /\ \A u \in Tuxes : Life(u)
  BY DEF Core
<1>3. \A u \in Tuxes : Same(tux[u], tux[u])
  BY DEF Same
<1>4. ASSUME NEW x, tux' = [tux EXCEPT ![t] = x]
      PROVE  tux'[t] = x /\ \A u \in Tuxes \ {t} : tux'[u] = tux[u]
  BY <1>1, <1>4
<1>5. CASE Join(t)
  <2>1. PICK g \in Guns : tux' = [tux EXCEPT ![t] = NewTux(g)]
    BY <1>5 DEF Join
  <2>2. timers' = timers /\ walk' = walk /\ tux[t].status = "unborn"
    BY <1>5 DEF Join
  <2>3. /\ tux'[t].status = "alive" /\ tux'[t].canShot = TRUE /\ tux'[t].canSwitch = TRUE
    BY <1>4, <2>1 DEF NewTux
  <2>4. t \notin lost /\ \A i \in DOMAIN timers : timers[i].tux # t
    BY <1>2, <2>2 DEF Life, Dead
  <2>5. Life(t)'
    BY <2>2, <2>3, <2>4 DEF Life, Alive, Dead, Waits, Is, SpawnPends
  <2>6. \A u \in Tuxes \ {t} : Life(u)' /\ (Dead(u) => tux'[u].status = "dead")
    BY <1>2, <1>3, <1>4, <2>1, <2>2, LifeUnchanged DEF Dead
  <2>7. Clean
    BY <2>2, <2>6 DEF Clean, Dead
  <2>8. Soon' /\ Passed'
    BY <1>2, <2>2 DEF Soon, Passed
  <2>9. QED
    BY <2>5, <2>6, <2>7, <2>8 DEF Core
<1>6. CASE Leave(t)
  <2>1. tux' = [tux EXCEPT ![t] = Nobody("gone")] /\ timers' = timers /\ walk' = walk
    BY <1>6 DEF Leave
  <2>2. tux'[t].status = "gone"
    BY <1>4, <2>1, NewTuxType
  <2>2a. t \notin lost
    BY <1>2, <1>6 DEF Leave, Life
  <2>3. Life(t)'
    BY <2>2, <2>2a DEF Life, Alive, Dead
  <2>4. \A u \in Tuxes \ {t} : Life(u)' /\ (Dead(u) => tux'[u].status = "dead")
    BY <1>2, <1>3, <1>4, <2>1, LifeUnchanged DEF Dead
  <2>5. Clean
    BY <2>2, <2>4 DEF Clean, Dead
  <2>6. Soon' /\ Passed'
    BY <1>2, <2>1 DEF Soon, Passed
  <2>7. QED
    BY <2>3, <2>4, <2>5, <2>6 DEF Core
<1>7. CASE Move(t)
  <2>1. PICK w \in BOOLEAN : tux' = [tux EXCEPT ![t].inWall = w]
    BY <1>7 DEF Move
  <2>2. tux' = [tux EXCEPT ![t] = [tux[t] EXCEPT !.inWall = w]]
    BY <2>1
  <2>3. Same(tux[t], [tux[t] EXCEPT !.inWall = w])
    BY <1>1 DEF Same, TuxRecord
  <2>4. \A u \in Tuxes : Same(tux[u], tux'[u])
    BY <1>3, <1>4, <2>2, <2>3
  <2>5. timers' = timers /\ walk' = walk
    BY <1>7 DEF Move
  <2>6. QED
    BY <2>4, <2>5, CoreQuiet
<1>8. CASE SwitchTuxGun(t)
  <2>1. SwitchTimer(t) \in Timer
    BY TuxAssumption, TaskType DEF TuxTasks, SwitchTimer
  <2>2. PICK more \in Seq(Timer) :
          more = <<SwitchTimer(t)>> /\ DOMAIN more = {1} /\ more[1] = SwitchTimer(t)
    <3> DEFINE q == SwitchTimer(t)
    <3> HIDE DEF q
    <3>1. q \in Timer
      BY <2>1 DEF q
    <3>2. <<q>> \in Seq(Timer)
      BY <3>1
    <3>3. DOMAIN <<q>> = {1} /\ <<q>>[1] = q
      OBVIOUS
    <3>4. QED
      BY <3>2, <3>3 DEF q
  <2>3. timers' = timers \o more
    BY <1>1, <1>8, <2>1, <2>2, AppendIsConcat DEF SwitchTuxGun
  <2>4. Appended(more)
    BY <1>1, <2>3, Appending
  <2>5. Life(t)'
    BY <1>2, <1>8, <2>2, <2>4, LifeSwitch
  <2>6. more[1].tux = t /\ more[1].left <= SpawnTime
    BY <2>2, SpawnIsLast DEF SwitchTimer, Task
  <2>7. Alive(t) /\ walk' = walk /\ \A u \in Tuxes \ {t} : tux'[u] = tux[u]
    BY <1>1, <1>8 DEF SwitchTuxGun
  <2>8. QED
    BY <2>2, <2>4, <2>5, <2>6, <2>7, CoreAppended
<1>9. CASE ShotTux(t)
  <2> DEFINE r == IF tux[t].bonus = BONUS_SHOT THEN tux[t] ELSE Spent(tux[t])
  <2>1. r \in TuxRecord /\ Same(tux[t], r)
    BY <1>1, <1>3, <1>9, SpentType DEF ShotTux, CanShoot
  <2>2. AfterShot(t, r) /\ walk' = walk /\ Alive(t) /\ tux[t].canShot
    BY <1>9 DEF ShotTux, CanShoot
  <2> HIDE DEF r
  <2>3. QED
    BY <2>1, <2>2, CoreShot
<1>10. CASE PutMine(t)
  <2>1. Spent(tux[t]) \in TuxRecord /\ Same(tux[t], Spent(tux[t]))
    BY <1>1, <1>10, SpentType DEF PutMine, CanShoot
  <2>2. AfterShot(t, Spent(tux[t])) /\ walk' = walk /\ Alive(t) /\ tux[t].canShot
    BY <1>10 DEF PutMine, CanShoot
  <2>3. QED
    BY <2>1, <2>2, CoreShot
<1>11. CASE PutNoMine(t)
  <2>1. AfterShot(t, tux[t]) /\ walk' = walk /\ Alive(t) /\ tux[t].canShot
    BY <1>11 DEF PutNoMine, CanShoot
  <2>2. QED
    BY <1>1, <1>3, <2>1, CoreShot
<1>12. CASE TuxEvent(t)
  <2>1. tux' = [tux EXCEPT ![t] = EventBonus(PickUpGun(tux[t]))]
    BY <1>12 DEF TuxEvent
  <2>2. \A u \in Tuxes : Same(tux[u], tux'[u])
    BY <1>1, <1>3, <1>4, <2>1, EventType
  <2>3. timers' = timers /\ walk' = walk
    BY <1>12 DEF TuxEvent
  <2>4. QED
    BY <2>2, <2>3, CoreQuiet
<1>13. QED
  BY <1>5, <1>6, <1>7, <1>8, <1>9, <1>10, <1>11, <1>12 DEF TuxStep

\* A teleport is quiet.
LEMMA CoreTeleport ==
    ASSUME TypeOK, Core, NEW t \in Tuxes, Teleport(t), timers' = timers, walk' = walk, lost' = lost
    PROVE  Core' /\ Clean
<1>1. tux' = [tux EXCEPT ![t] = [tux[t] EXCEPT !.inWall = FALSE]]
  BY DEF Teleport
<1>2. tux[t] \in TuxRecord /\ tux \in [Tuxes -> TuxRecord]
  BY DEF TypeOK
<1>3. Same(tux[t], [tux[t] EXCEPT !.inWall = FALSE])
  BY <1>2 DEF Same, TuxRecord
<1>4. \A u \in Tuxes : Same(tux[u], tux'[u])
  BY <1>1, <1>2, <1>3 DEF Same
<1>5. QED
  BY <1>4, CoreQuiet

\* What items do to a tux.
LEMMA CoreItemStep ==
    ASSUME TypeOK, Core, NEW i \in Items, toucher \in Tuxes, Touch(i), lost' = lost
    PROVE  Core' /\ Clean
<1>1. tux[toucher] \in TuxRecord /\ tux \in [Tuxes -> TuxRecord]
  BY DEF TypeOK
<1>2. ASSUME NEW x, tux' = [tux EXCEPT ![toucher] = x], Same(tux[toucher], x),
             timers' = timers, walk' = walk
      PROVE  Core' /\ Clean
  <2>1. \A u \in Tuxes : Same(tux[u], tux'[u])
    BY <1>1, <1>2 DEF Same
  <2>2. QED
    BY <1>2, <2>1, CoreQuiet
<1>3. CASE GiveGun(i)
  BY <1>1, <1>2, <1>3, GivenType DEF GiveGun
<1>4. CASE GiveBonus(i)
  BY <1>1, <1>2, <1>4, GivenType DEF GiveBonus
<1>5. CASE StepOnMine(i)
  <2>1. tux' = tux /\ timers' = timers /\ walk' = walk
    BY <1>5 DEF StepOnMine
  <2>2. QED
    BY <2>1, CoreQuiet DEF Same
<1>6. CASE StepInExplosion(i)
  <2>1. CASE UNCHANGED <<tux, timers>>
    BY <1>6, <2>1, CoreQuiet DEF StepInExplosion, Same
  <2>2. CASE Teleport(toucher) /\ UNCHANGED timers
    BY <1>6, <2>2, CoreTeleport DEF StepInExplosion
  <2>3. CASE Die(toucher)
    BY <1>6, <2>3, CoreDie DEF StepInExplosion
  <2>4. QED
    BY <1>6, <2>1, <2>2, <2>3 DEF StepInExplosion
<1>7. QED
  BY <1>3, <1>4, <1>5, <1>6 DEF Touch

\* What shots do.
LEMMA CoreShotStep ==
    ASSUME TypeOK, Core, NEW s \in flying, ShotStep(s), lost' = lost
    PROVE  Core' /\ Clean
<1>1. ASSUME NEW t \in Tuxes, ShotMissesTeleport(s, t)
      PROVE  Core' /\ Clean
  BY <1>1, CoreTeleport DEF ShotMissesTeleport
<1>2. ASSUME NEW t \in Tuxes, ShotKills(s, t)
      PROVE  Core' /\ Clean
  BY <1>2, CoreDie DEF ShotKills
<1>3. ASSUME UNCHANGED <<tux, timers, walk>>
      PROVE  Core' /\ Clean
  BY <1>3, CoreQuiet DEF Same
<1>4. ASSUME NEW t \in Tuxes, BombBallExplosion(s, t)
      PROVE  Core' /\ Clean
  BY <1>3, <1>4 DEF BombBallExplosion
<1>5. ASSUME NEW i \in Items, ShotHitsMine(s, i)
      PROVE  Core' /\ Clean
  BY <1>3, <1>5 DEF ShotHitsMine
<1>6. CASE ShotEnds(s) \/ ShotTurns(s)
  BY <1>3, <1>6 DEF ShotEnds, ShotTurns
<1>7. QED
  BY <1>1, <1>2, <1>4, <1>5, <1>6 DEF ShotStep

\* The task that fires, and the tux it is of.
LEMMA FiresFacts ==
    ASSUME TypeOK, Core, NEW kinds, Fires(kinds)
    PROVE  /\ walk \in DOMAIN timers /\ timers' = Without(walk) /\ walk' = walk
           /\ timers[walk].left = 0 /\ timers[walk].task \in kinds
           /\ timers[walk].task \in TuxTasks <=> timers[walk].tux \in Tuxes
           /\ Soon' /\ Passed'
<1>1. walk \in DOMAIN timers /\ timers' = Without(walk) /\ walk' = walk
  BY DEF Fires
<1>2. Soon' /\ Passed'
  BY <1>1, ListRemoved DEF Core
<1>3. QED
  BY <1>1, <1>2, TimersFacts DEF Fires

\* A respawn: every other task of the tux lay before its spawn timer, so the walk
\* has passed it; it was due no later, so it is gone.
LEMMA CoreSpawn ==
    ASSUME TypeOK, Core, SpawnTux, lost' = lost
    PROVE  Core' /\ Clean
<1>1. Fires({"spawn"}) /\ Present(timers[walk].tux)
  BY DEF SpawnTux
<1>2. /\ walk \in DOMAIN timers /\ timers' = Without(walk) /\ walk' = walk
      /\ timers[walk].left = 0 /\ timers[walk].task = "spawn"
      /\ timers[walk].tux \in Tuxes
      /\ Soon' /\ Passed'
  BY <1>1, FiresFacts DEF TuxTasks
<1>3. PICK t \in Tuxes : t = timers[walk].tux
  BY <1>2
<1>4. Is(walk, "spawn", t)
  BY <1>2, <1>3 DEF Is
<1>5. Dead(t)
  BY <1>1, <1>2, <1>3, <1>4 DEF Core, Life, SpawnPends, Present
<1>6. ASSUME NEW j \in DOMAIN timers'
      PROVE  timers'[j].tux # t
  <2>1. SUFFICES ASSUME timers'[j].tux = t PROVE FALSE
    OBVIOUS
  <2>2. PICK i \in DOMAIN timers \ {walk} : timers'[j] = timers[i]
    BY <1>2, RemovedFacts
  <2>3. i <= walk /\ timers[i].left <= 0
    BY <1>2, <1>4, <1>5, <2>1, <2>2 DEF Core, Life, SpawnsLast
  <2>4. i < walk
    BY <2>2, <2>3, TimersFacts
  <2>5. timers[i].left > 0
    BY <2>2, <2>4 DEF Core, Passed
  <2>6. QED
    BY <2>2, <2>3, <2>5, TimersFacts
<1>7. tux' = [tux EXCEPT ![t] =
                 [tux[t] EXCEPT !.status = "alive", !.gun = GUN_SIMPLE, !.inWall = FALSE]]
  BY <1>3 DEF SpawnTux
<1>8. /\ tux'[t].status = "alive"
      /\ tux'[t].canShot = TRUE /\ tux'[t].canSwitch = TRUE
      /\ \A u \in Tuxes \ {t} : tux'[u] = tux[u]
  BY <1>5, <1>7 DEF TypeOK, TuxRecord, Core, Life
<1>8a. t \notin lost
  BY <1>2, <1>4, <1>5 DEF Core, Life, SpawnPends
<1>9. Life(t)'
  BY <1>6, <1>8, <1>8a DEF Life, Alive, Dead, Waits, Is, SpawnPends
<1>10. ASSUME NEW u \in Tuxes \ {t}
       PROVE  Life(u)'
  <2>1. Same(tux[u], tux'[u]) /\ timers[walk].tux # u
    BY <1>3, <1>8 DEF Same
  <2>2. QED
    BY <1>2, <2>1, LifeRemoved DEF Core
<1>11. Clean
  BY <1>6, <1>8 DEF Clean, Dead
<1>12. QED
  BY <1>2, <1>9, <1>10, <1>11 DEF Core

\* A step that removes the task of a tux which does not wait for it.
LEMMA CoreRemoved ==
    ASSUME TypeOK, Core, NEW kinds, Fires(kinds), lost' = lost,
           \A u \in Tuxes : Same(tux[u], tux'[u]),
           \A u \in Tuxes : timers[walk].tux = u =>
              /\ Alive(u) => timers[walk].task \notin {"canShot", "canSwitch"}
              /\ Dead(u) => timers[walk].task # "spawn"
    PROVE  Core' /\ Clean
<1>1. /\ walk \in DOMAIN timers /\ timers' = Without(walk)
      /\ Soon' /\ Passed'
  BY FiresFacts
<1>2. ASSUME NEW u \in Tuxes
      PROVE  Life(u)'
  BY <1>1, LifeRemoved DEF Core
<1>3. Clean
  BY DEF Clean, Same, Dead
<1>4. QED
  BY <1>1, <1>2, <1>3 DEF Core

\* The end of a reload, or of a change of guns, which a dead tux does not notice.
LEMMA CoreReady ==
    ASSUME TypeOK, Core, TuxCanShot \/ TuxCanSwitchGun, lost' = lost
    PROVE  Core' /\ Clean
<1>1. /\ Fires({"canShot"}) \/ Fires({"canSwitch"})
      /\ Present(timers[walk].tux)
  BY DEF TuxCanShot, TuxCanSwitchGun
<1>2. /\ walk \in DOMAIN timers /\ timers' = Without(walk) /\ walk' = walk
      /\ timers[walk].task \in {"canShot", "canSwitch"}
      /\ timers[walk].tux \in Tuxes
      /\ Soon' /\ Passed'
  BY <1>1, FiresFacts DEF TuxTasks
<1>3. PICK t \in Tuxes : t = timers[walk].tux
  BY <1>2
<1>4. tux[t] \in TuxRecord /\ tux \in [Tuxes -> TuxRecord]
  BY DEF TypeOK
<1>5. /\ tux'[t].status = tux[t].status
      /\ \A u \in Tuxes \ {t} : tux'[u] = tux[u]
      /\ TuxCanShot => tux'[t].canShot = TRUE /\ tux'[t].canSwitch = tux[t].canSwitch
      /\ TuxCanSwitchGun => tux'[t].canSwitch = TRUE /\ tux'[t].canShot = tux[t].canShot
  BY <1>3, <1>4 DEF TuxCanShot, TuxCanSwitchGun, TuxRecord
<1>6. CASE Dead(t)
  <2>1. Same(tux[t], tux'[t])
    BY <1>5, <1>6 DEF Same, Core, Life
  <2>2. \A u \in Tuxes : Same(tux[u], tux'[u])
    BY <1>5, <2>1 DEF Same
  <2>3. \A u \in Tuxes : timers[walk].tux = u =>
          /\ Alive(u) => timers[walk].task \notin {"canShot", "canSwitch"}
          /\ Dead(u) => timers[walk].task # "spawn"
    BY <1>2, <1>3, <1>6 DEF Alive, Dead
  <2>4. QED
    BY <1>1, <2>2, <2>3, CoreRemoved
<1>7. CASE Alive(t)
  <2>1. ASSUME NEW u \in Tuxes \ {t}
        PROVE  Life(u)'
    <3>1. Same(tux[u], tux'[u]) /\ timers[walk].tux # u
      BY <1>3, <1>5 DEF Same
    <3>2. QED
      BY <1>2, <3>1, LifeRemoved DEF Core
  <2>2. ~SpawnPends(t)' /\ t \notin lost
    <3>1. Life(t)
      BY DEF Core
    <3>2. ~SpawnPends(t) /\ t \notin lost
      BY <1>7, <3>1 DEF Life, Alive, Dead
    <3> QED
      BY <1>2, <3>2, RemovedFacts DEF SpawnPends, Is
  <2>3. tux[t].canShot \in BOOLEAN /\ tux[t].canSwitch \in BOOLEAN
    BY <1>4 DEF TuxRecord
  <2>4. /\ Waits("canShot", t, tux[t].canShot)
        /\ t \notin NetTuxes => Waits("canSwitch", t, tux[t].canSwitch)
    BY <1>7 DEF Core, Life
  <2>5. \A c \in {"canShot", "canSwitch"}, free \in BOOLEAN :
          /\ Waits(c, t, free) /\ ~Is(walk, c, t) => Waits(c, t, free)'
          /\ Waits(c, t, free) /\ Is(walk, c, t) => Waits(c, t, TRUE)'
    BY <1>2, WaitsRemoved
  <2>6. CASE TuxCanShot
    <3>1. Is(walk, "canShot", t) /\ ~Is(walk, "canSwitch", t)
      BY <1>3, <2>6 DEF TuxCanShot, Fires, Is
    <3>2. Waits("canShot", t, TRUE)'
      BY <2>3, <2>4, <2>5, <3>1
    <3>3. t \notin NetTuxes => Waits("canSwitch", t, tux[t].canSwitch)'
      BY <1>5, <2>3, <2>4, <2>5, <2>6, <3>1
    <3>4. Life(t)'
      BY <1>5, <1>7, <2>2, <2>6, <3>2, <3>3 DEF Life, Alive, Dead
    <3>5. QED
      BY <1>2, <1>5, <1>7, <2>1, <3>4 DEF Core, Clean, Alive, Dead
  <2>7. CASE TuxCanSwitchGun
    <3>1. Is(walk, "canSwitch", t) /\ ~Is(walk, "canShot", t)
      BY <1>3, <2>7 DEF TuxCanSwitchGun, Fires, Is
    <3>2. Waits("canShot", t, tux[t].canShot)'
      BY <1>5, <2>3, <2>4, <2>5, <2>7, <3>1
    <3>3. t \notin NetTuxes => Waits("canSwitch", t, TRUE)'
      BY <2>3, <2>4, <2>5, <3>1
    <3>4. Life(t)'
      BY <1>5, <1>7, <2>2, <2>7, <3>2, <3>3 DEF Life, Alive, Dead
    <3>5. QED
      BY <1>2, <1>5, <1>7, <2>1, <3>4 DEF Core, Clean, Alive, Dead
  <2>8. QED
    BY <2>6, <2>7
<1>8. QED
  BY <1>1, <1>3, <1>6, <1>7 DEF Present

\* What the clock and the timers do.
LEMMA CoreTimerEvent ==
    ASSUME TypeOK, Core, TimerEvent, lost' = lost
    PROVE  Core' /\ Clean
<1>1. Len(timers) \in Nat /\ DOMAIN timers = 1 .. Len(timers) /\ walk \in Nat
  BY TimersFacts
<1>2. ASSUME UNCHANGED <<tux, timers>>, Passed'
      PROVE  Core' /\ Clean
  <2>1. \A u \in Tuxes : Life(u)'
    BY <1>2, LifeUnchanged DEF Core, Same
  <2>2. Soon' /\ Clean
    BY <1>2 DEF Core, Soon, Clean, Dead
  <2>3. QED
    BY <1>2, <2>1, <2>2 DEF Core
<1>3. CASE StartTimers
  <2>1. Passed'
    BY <1>1, <1>3 DEF StartTimers, Passed
  <2>2. QED
    BY <1>2, <1>3, <2>1 DEF StartTimers
<1>4. CASE Keep
  <2>1. Passed'
    BY <1>1, <1>4 DEF Keep, Passed, Core
  <2>2. QED
    BY <1>2, <1>4, <2>1 DEF Keep
<1>5. CASE FinishTimers
  <2>1. Passed'
    BY <1>1, <1>5 DEF FinishTimers, Passed
  <2>2. QED
    BY <1>2, <1>5, <2>1 DEF FinishTimers
<1>6. UNCHANGED tux => \A u \in Tuxes : Same(tux[u], tux'[u])
  BY DEF Same
<1>7. CASE FiresForNobody
  <2>1. Fires(TuxTasks) /\ ~Present(timers[walk].tux) /\ UNCHANGED tux
    BY <1>7 DEF FiresForNobody
  <2>2. QED
    BY <1>6, <2>1, CoreRemoved DEF Present
<1>8. CASE AddShot
  <2>1. Fires({"tommy", "lasser"}) /\ UNCHANGED tux
    BY <1>8 DEF AddShot
  <2>2. timers[walk].task \notin {"canShot", "canSwitch", "spawn"}
    BY <2>1 DEF Fires
  <2>3. QED
    BY <1>6, <2>1, <2>2, CoreRemoved
<1>9. CASE EndArena
  <2>1. Fires({"end"}) /\ UNCHANGED tux
    BY <1>9 DEF EndArena
  <2>2. timers[walk].task \notin {"canShot", "canSwitch", "spawn"}
    BY <2>1 DEF Fires
  <2>3. QED
    BY <1>6, <2>1, <2>2, CoreRemoved
<1>10. QED
  BY <1>3, <1>4, <1>5, <1>7, <1>8, <1>9, CoreSpawn, CoreReady DEF TimerEvent

\* Time brings all timers of a tux nearer together with its spawn timer.
LEMMA CoreTick ==
    ASSUME TypeOK, Core, Tick
    PROVE  Core' /\ Clean
<1>1. /\ timers' \in Seq(Timer) /\ Len(timers') = Len(timers)
      /\ \A i \in 1 .. Len(timers) : timers'[i] = Older(timers[i])
  BY TypeTick
<1>2. /\ Len(timers) \in Nat /\ DOMAIN timers = 1 .. Len(timers)
      /\ \A i \in DOMAIN timers : timers[i] \in Timer /\ timers[i].left \in Nat
  BY TimersFacts
<1>3. DOMAIN timers' = DOMAIN timers
  BY <1>1, <1>2, LenProperties
<1>4. \A r \in Timer : /\ Older(r).tux = r.tux
                        /\ Older(r).left = IF r.left > 0 THEN r.left - 1 ELSE 0
  BY DEF Older, Timer
<1>5. \A i \in DOMAIN timers :
        /\ timers'[i].tux = timers[i].tux
        /\ timers'[i].left = IF timers[i].left > 0 THEN timers[i].left - 1 ELSE 0
  BY <1>1, <1>2, <1>4
<1>6. Soon'
  <2>1. \A i \in DOMAIN timers : timers'[i].left <= timers[i].left
    BY <1>2, <1>5
  <2>2. ASSUME NEW i \in DOMAIN timers, timers[i].tux \in Tuxes
        PROVE  timers'[i].left <= SpawnTime
    <3>1. timers[i].left <= SpawnTime /\ timers[i].left \in Nat /\ SpawnTime \in Nat
      BY <1>2, <2>2, TuxAssumption DEF Core, Soon
    <3>2. timers'[i].left \in Nat
      BY <1>5, <3>1
    <3>3. QED
      BY <2>1, <3>1, <3>2
  <2>3. QED
    BY <1>3, <1>5, <2>2 DEF Soon
<1>7. Passed'
  <2>1. walk = 0 /\ walk' = 0
    BY DEF Tick, Idle
  <2>2. QED
    BY <1>2, <1>3, <2>1 DEF Passed
<1>8. \A u \in Tuxes : Life(u)'
  BY LifeTick DEF Core
<1>9. Clean
  BY DEF Tick, Clean, Dead
<1>10. QED
  BY <1>6, <1>7, <1>8, <1>9 DEF Core

\* Whoever touches items is a tux, until the last is seen.
LEMMA TouchingStep ==
    ASSUME TypeOK, Touching, Next
    PROVE  Touching'
<1>1. \A t \in Tuxes, seen \in SUBSET Lying : StartTouch(t, seen) => Touching'
  BY DEF StartTouch, Touching
<1>2. \A i \in Items : NextTouch(i) => Touching'
  BY DEF NextTouch, Touching
<1>3. UNCHANGED <<toucher, touched>> => Touching'
  BY DEF Touching
<1>4. ASSUME NEW t \in Tuxes, TuxStep(t)
      PROVE  Touching'
  <2>1. CASE Move(t)
    BY <1>1, <2>1 DEF Move
  <2>2. CASE TuxEvent(t)
    BY <1>1, <2>2 DEF TuxEvent
  <2>3. CASE Join(t) \/ Leave(t) \/ SwitchTuxGun(t)
    BY <1>3, <2>3 DEF Join, Leave, SwitchTuxGun
  <2>4. CASE ShotTux(t) \/ PutMine(t) \/ PutNoMine(t)
    BY <1>3, <2>4 DEF ShotTux, PutMine, PutNoMine
  <2>5. QED
    BY <1>4, <2>1, <2>2, <2>3, <2>4 DEF TuxStep
<1>5. ASSUME NEW i \in Items, Touch(i) \/ ExplosionEnds(i)
      PROVE  Touching'
  <2>1. CASE Touch(i)
    BY <1>2, <2>1 DEF Touch, GiveGun, GiveBonus, StepOnMine, StepInExplosion
  <2>2. CASE ExplosionEnds(i)
    BY <1>3, <2>2 DEF ExplosionEnds
  <2>3. QED
    BY <1>5, <2>1, <2>2
<1>6. ASSUME NEW s \in flying, ShotStep(s)
      PROVE  Touching'
  BY <1>3, <1>6 DEF ShotStep, ShotMissesTeleport, BombBallExplosion, ShotKills,
                    ShotHitsMine, ShotEnds, ShotTurns
<1>7. CASE TimerEvent
  <2>1. \A kinds : Fires(kinds) => Touching'
    BY <1>3 DEF Fires
  <2>2. QED
    BY <1>3, <1>7, <2>1 DEF TimerEvent, StartTimers, Keep, FinishTimers, FiresForNobody,
                            SpawnTux, TuxCanShot, TuxCanSwitchGun, AddShot, EndArena
<1>8. CASE Tick \/ LoadArena \/ Rest
  BY <1>3, <1>8 DEF Tick, LoadArena, Rest, vars
<1>9. QED
  BY <1>4, <1>5, <1>6, <1>7, <1>8 DEF Next

\* Only loading a game changes what was lost.
LEMMA LostStep ==
    ASSUME [Next]_vars, ~LoadArena
    PROVE  lost' = lost
<1>1. ASSUME NEW t \in Tuxes, TuxStep(t) PROVE lost' = lost
  BY <1>1 DEF TuxStep, Join, Leave, Move, SwitchTuxGun, ShotTux, PutMine, PutNoMine, TuxEvent
<1>2. ASSUME NEW i \in Items, Touch(i) \/ ExplosionEnds(i) PROVE lost' = lost
  BY <1>2 DEF Touch, GiveGun, GiveBonus, StepOnMine, StepInExplosion, ExplosionEnds
<1>3. ASSUME NEW s \in flying, ShotStep(s) PROVE lost' = lost
  BY <1>3 DEF ShotStep, ShotMissesTeleport, BombBallExplosion, ShotKills, ShotHitsMine,
              ShotEnds, ShotTurns
<1>4. TimerEvent \/ Tick => lost' = lost
  BY DEF TimerEvent, StartTimers, Keep, FinishTimers, Fires, FiresForNobody, SpawnTux,
         TuxCanShot, TuxCanSwitchGun, AddShot, EndArena, Tick
<1> QED
  BY <1>1, <1>2, <1>3, <1>4 DEF Next, Rest, vars

\* A game that is loaded: no timer waits, everybody may shoot and switch, and
\* whoever was dead has lost his spawn timer.
LEMMA LoadStep ==
    ASSUME IInv, LoadArena
    PROVE  TypeOK' /\ Core' /\ Clean
<1>1. TypeOK /\ tux \in [Tuxes -> TuxRecord]
  BY DEF IInv, TypeOK
<1>2. timers' = <<>> /\ walk' = 0 /\ walk = 0 /\ NetTuxes = {}
  BY DEF LoadArena, Idle
<1>3. timers' \in Seq(Timer) /\ Len(timers') = 0 /\ DOMAIN timers' = {}
  BY <1>2, EmptySeq
<1>4. ASSUME NEW t \in Tuxes
      PROVE  /\ tux'[t] \in TuxRecord
             /\ tux'[t].status = tux[t].status /\ tux[t].status \in {"alive", "dead"}
             /\ tux'[t].canShot = TRUE /\ tux'[t].canSwitch = TRUE
  <2>1. tux[t] \in TuxRecord /\ tux[t].status \in {"alive", "dead"}
    BY <1>1 DEF LoadArena, Present, Alive, Dead
  <2>2. tux'[t] = [tux[t] EXCEPT !.canShot = TRUE, !.canSwitch = TRUE]
    BY DEF LoadArena
  <2> QED
    BY <2>1, <2>2 DEF TuxRecord
<1>5. tux' \in [Tuxes -> TuxRecord]
  BY <1>4 DEF LoadArena
<1>6. lost' \in SUBSET (Tuxes \cup {NoTux}) /\ \A t \in Tuxes : t \in lost' <=> Dead(t)
  BY TuxAssumption DEF LoadArena
<1>7. TypeOK'
  <2>1. walk' \in 0 .. Len(timers') + 1
    BY <1>2, <1>3
  <2> QED
    BY <1>1, <1>3, <1>5, <1>6, <2>1 DEF LoadArena, TypeOK
<1>8. Soon' /\ Passed'
  BY <1>3 DEF Soon, Passed
<1>9. ASSUME NEW t \in Tuxes PROVE Life(t)'
  <2>1. ~SpawnPends(t)' /\ SpawnsLast(t)' /\ Waits("canShot", t, TRUE)'
        /\ Waits("canSwitch", t, TRUE)'
    BY <1>3 DEF SpawnPends, SpawnsLast, Waits
  <2>2. Dead(t)' <=> t \in lost'
    BY <1>4, <1>6 DEF Dead
  <2> QED
    BY <1>2, <1>4, <2>1, <2>2 DEF Life, Alive, Dead
<1>10. Clean
  BY <1>4 DEF Clean, Dead
<1> QED
  BY <1>7, <1>8, <1>9, <1>10 DEF Core

\* The invariant is inductive, and no step breaks RespawnsClean.
LEMMA IInvStep == IInv /\ [Next]_vars => IInv' /\ Clean
<1> SUFFICES ASSUME IInv, [Next]_vars PROVE IInv' /\ Clean
  OBVIOUS
<1>1. TypeOK /\ Core /\ Touching
  BY DEF IInv, Core
<1>2. ASSUME UNCHANGED vars
      PROVE  TypeOK' /\ Core' /\ Touching' /\ Clean
  <2>1. TypeOK' /\ Touching'
    BY <1>1, <1>2 DEF TypeOK, Touching, vars
  <2>2. Core' /\ Clean
    BY <1>1, <1>2, CoreQuiet DEF vars, Same
  <2>3. QED
    BY <2>1, <2>2
<1>3. ASSUME NEW t \in Tuxes, TuxStep(t), lost' = lost
      PROVE  TypeOK' /\ Core' /\ Clean
  BY <1>1, <1>3, TypeTuxStep, CoreTuxStep
<1>4. ASSUME NEW i \in Items, Touch(i), lost' = lost
      PROVE  TypeOK' /\ Core' /\ Clean
  <2>1. i \in touched
    BY <1>4 DEF Touch, GiveGun, GiveBonus, StepOnMine, StepInExplosion, NextTouch
  <2>2. toucher \in Tuxes
    BY <1>1, <2>1 DEF Touching
  <2>3. QED
    BY <1>1, <1>4, <2>2, TypeItemStep, CoreItemStep
<1>5. ASSUME NEW i \in Items, ExplosionEnds(i), lost' = lost
      PROVE  TypeOK' /\ Core' /\ Clean
  <2>1. NoItem \in Item
    BY DEF NoItem, Item
  <2>2. TypeOK'
    BY <1>1, <1>5, <2>1 DEF ExplosionEnds, TypeOK
  <2>3. Core' /\ Clean
    BY <1>1, <1>5, CoreQuiet DEF ExplosionEnds, Same
  <2>4. QED
    BY <2>2, <2>3
<1>6. ASSUME NEW s \in flying, ShotStep(s), lost' = lost
      PROVE  TypeOK' /\ Core' /\ Clean
  BY <1>1, <1>6, TypeShotStep, CoreShotStep
<1>7. ASSUME Tick
      PROVE  TypeOK' /\ Core' /\ Clean
  <2>1. timers' \in Seq(Timer) /\ Len(timers') = Len(timers)
    BY <1>1, <1>7, TypeTick
  <2>2. TypeOK'
    BY <1>1, <1>7, <2>1 DEF Tick, TypeOK
  <2>3. QED
    BY <1>1, <1>7, <2>2, CoreTick
<1>8. ASSUME TimerEvent, lost' = lost
      PROVE  TypeOK' /\ Core' /\ Clean
  BY <1>1, <1>8, TypeTimerEvent, CoreTimerEvent
<1>9. CASE Next
  <2>0. LoadArena \/ lost' = lost
    BY LostStep
  <2>1. TypeOK' /\ Core' /\ Clean
    BY <1>2, <1>3, <1>4, <1>5, <1>6, <1>7, <1>8, <1>9, <2>0, LoadStep DEF Next, Rest
  <2>2. QED
    BY <1>1, <1>9, <2>1, TouchingStep DEF IInv, Core
<1>10. QED
  BY <1>2, <1>9 DEF IInv, Core

(***************************************************************************)
(* Part 6: what it says of Spec.                                           *)
(***************************************************************************)

\* One task of a kind is what Waits says of it.
LEMMA WaitsOne ==
    ASSUME NEW c, NEW t, NEW free, Waits(c, t, free)
    PROVE  IF free THEN Pending(c, t) = {} ELSE One(Pending(c, t))
<1>1. CASE free
  BY <1>1 DEF Waits, Is, Pending
<1>2. CASE ~free
  <2>1. PICK i \in DOMAIN timers : Is(i, c, t) /\ \A j \in DOMAIN timers : Is(j, c, t) => j = i
    BY <1>2 DEF Waits
  <2>2. Pending(c, t) = {i}
    BY <2>1 DEF Is, Pending
  <2>3. QED
    BY <1>2, <2>2 DEF One
<1>3. QED
  BY <1>1, <1>2

\* The invariant says of Pending what the properties say.
LEMMA IInvImplies == IInv => TypeOK /\ OneSpawn /\ OneReload
<1> SUFFICES ASSUME IInv PROVE TypeOK /\ OneSpawn /\ OneReload
  OBVIOUS
<1>1. TypeOK /\ \A t \in Tuxes : Life(t)
  BY DEF IInv
<1>2. ASSUME NEW t \in Tuxes, Dead(t), t \notin lost
      PROVE  One(Pending("spawn", t))
  <2>1. PICK i \in DOMAIN timers : Is(i, "spawn", t)
    BY <1>1, <1>2 DEF Life, SpawnPends
  <2>2. \A j \in DOMAIN timers : Is(j, "spawn", t) => i <= j /\ j <= i
    BY <1>1, <1>2, <2>1 DEF Life, SpawnsLast, Is
  <2>3. \A j \in DOMAIN timers : Is(j, "spawn", t) => j = i
    BY <1>1, <2>2, TimersFacts
  <2>4. Pending("spawn", t) = {i}
    BY <2>1, <2>3 DEF Is, Pending
  <2>5. QED
    BY <2>4 DEF One
<1>3. ASSUME NEW t \in Tuxes, Alive(t) \/ t \in lost
      PROVE  Pending("spawn", t) = {}
  BY <1>1, <1>3 DEF Life, SpawnPends, Is, Pending
<1>4. ASSUME NEW t \in Tuxes, Alive(t)
      PROVE  /\ IF tux[t].canShot THEN Pending("canShot", t) = {} ELSE One(Pending("canShot", t))
             /\ t \notin NetTuxes =>
                   IF tux[t].canSwitch THEN Pending("canSwitch", t) = {}
                                       ELSE One(Pending("canSwitch", t))
  <2>1. Waits("canShot", t, tux[t].canShot)
    BY <1>1, <1>4 DEF Life
  <2>2. t \notin NetTuxes => Waits("canSwitch", t, tux[t].canSwitch)
    BY <1>1, <1>4 DEF Life
  <2>3. QED
    BY <2>1, <2>2, WaitsOne
<1>5. QED
  BY <1>1, <1>2, <1>3, <1>4 DEF OneSpawn, OneReload

\* The invariant holds.
LEMMA IInvHolds == Spec => []IInv
<1>1. IInv /\ [Next]_vars => IInv'
  BY IInvStep
<1>2. QED
  BY IInvInit, <1>1, PTL DEF Spec

\* Every variable keeps its type, whatever happens in the arena.
THEOREM TypeCorrect == Spec => []TypeOK
  BY IInvHolds, IInvImplies, PTL

\* A dead tux has one spawn timer and a living one has none: it neither stays
\* dead nor comes to life twice, however many shots and explosions meet it; but
\* who was dead in a saved game has none for good (saveLoad.c:153).
THEOREM OneSpawnHolds == Spec => []OneSpawn
  BY IInvHolds, IInvImplies, PTL

\* A living tux waits for one reload or for none, as its flags say, though deaths
\* and departures remove no timer.
THEOREM OneReloadHolds == Spec => []OneReload
  BY IInvHolds, IInvImplies, PTL

\* No timer of one life of a tux is pending when the next begins.
THEOREM RespawnsCleanHolds == Spec => RespawnsClean
<1>1. IInv /\ [Next]_vars =>
        [\A t \in Tuxes : Dead(t) /\ tux'[t].status = "alive" =>
           \A i \in DOMAIN timers' : timers'[i].tux # t]_vars
  BY IInvStep DEF Clean
<1>2. QED
  BY IInvHolds, <1>1, PTL DEF Spec, RespawnsClean

(***************************************************************************)
(* Part 7: guns.  A dead tux has shots for its simple gun, whatever it is  *)
(* given, so it holds a loaded gun when it respawns.                       *)
(***************************************************************************)
Ready(r) == r.ammo[r.gun] > 0 \/ Loaded(r) = {}
Spare(r) == r.status = "dead" => r.ammo[GUN_SIMPLE] > 0

\* What holds of the record r of t.
Armed(t, r) ==
    /\ t \in NetTuxes /\ r.status \in {"alive", "dead"} => Ready(r)
    /\ Spare(r)

Arms == \A t \in Tuxes : Armed(t, tux[t])

\* What leaves guns, shots and the life alone.
LEMMA ArmedSame ==
    ASSUME NEW t, NEW r, NEW q, Armed(t, r),
           q.status = r.status, q.gun = r.gun, q.ammo = r.ammo
    PROVE  Armed(t, q)
  BY DEF Armed, Ready, Spare, Loaded

\* Who arrives and who dies holds a loaded gun.
LEMMA ArmedNew ==
    ASSUME NEW t
    PROVE  /\ \A g \in Guns : Armed(t, NewTux(g))
           /\ Armed(t, Nobody("unborn")) /\ Armed(t, Nobody("gone"))
           /\ \A r \in TuxRecord : Armed(t, Killed(r))
<1>1. \A g \in Guns : Armed(t, NewTux(g))
  <2>1. ASSUME NEW g \in Guns
        PROVE  NewTux(g).ammo[g] = GunMaxShot /\ NewTux(g).gun = g /\ NewTux(g).status = "alive"
    BY DEF NewTux
  <2>2. QED
    BY <2>1, TuxAssumption DEF Armed, Ready, Spare
<1>2. Armed(t, Nobody("unborn")) /\ Armed(t, Nobody("gone"))
  BY NewTuxType DEF Armed, Spare
<1>3. ASSUME NEW r \in TuxRecord
      PROVE  Armed(t, Killed(r))
  <2> DEFINE ammo == [g \in Guns |-> IF g = GUN_SIMPLE THEN GunMaxShot ELSE 0]
  <2>1. ammo[GUN_SIMPLE] = GunMaxShot
    BY TuxAssumption
  <2>2. Killed(r).ammo = ammo /\ Killed(r).gun = GUN_SIMPLE
    BY DEF Killed, TuxRecord
  <2> HIDE DEF ammo
  <2>3. QED
    BY <2>1, <2>2, TuxAssumption DEF Armed, Ready, Spare
<1>4. QED
  BY <1>1, <1>2, <1>3

\* Who switches takes a loaded gun.
LEMMA ArmedSwitched ==
    ASSUME NEW t, NEW r \in TuxRecord, Loaded(r) # {}, Spare(r)
    PROVE  Armed(t, Switched(r))
<1> DEFINE from == IF {g \in Loaded(r) : g > r.gun} # {}
                   THEN {g \in Loaded(r) : g > r.gun} ELSE Loaded(r)
<1>1. from \subseteq Loaded(r) /\ from # {}
  OBVIOUS
<1>2. NextGun(r) = CHOOSE g \in from : \A h \in from : g <= h
  BY DEF NextGun
<1> HIDE DEF from
<1>3. \E g \in from : \A h \in from : g <= h
  BY <1>1, FirstGun DEF Loaded
<1>4. NextGun(r) \in Loaded(r)
  BY <1>1, <1>2, <1>3
<1>5. /\ Switched(r).gun = NextGun(r) /\ Switched(r).ammo = r.ammo
      /\ Switched(r).status = r.status
  BY DEF Switched, TuxRecord
<1>6. QED
  BY <1>4, <1>5 DEF Armed, Ready, Spare, Loaded

\* tux_event gives shots to who has none.
LEMMA ArmedEvent ==
    ASSUME NEW t, NEW r \in TuxRecord, Armed(t, r)
    PROVE  Armed(t, EventBonus(PickUpGun(r)))
<1>1. Armed(t, PickUpGun(r)) /\ PickUpGun(r) \in TuxRecord
  <2>1. CASE Loaded(r) # {}
    BY <2>1 DEF PickUpGun
  <2>2. ASSUME Loaded(r) = {}
        PROVE  r.status # "dead"
    <3>1. GUN_SIMPLE \in Guns /\ r.ammo[GUN_SIMPLE] <= 0
      BY <2>2, TuxAssumption DEF Loaded, TuxRecord
    <3>2. r.ammo[GUN_SIMPLE] \in Nat
      BY <3>1, TuxAssumption DEF TuxRecord
    <3>3. QED
      BY <3>1, <3>2 DEF Armed, Spare
  <2>3. CASE Loaded(r) = {} /\ r.pickup + 1 < MaxPickup
    <3>1. PickUpGun(r) = [r EXCEPT !.gun = GUN_SIMPLE, !.pickup = r.pickup + 1]
      BY <2>3 DEF PickUpGun
    <3>2. r.pickup + 1 \in 0 .. MaxPickup /\ GUN_SIMPLE \in Guns
      BY <2>3, TuxAssumption DEF TuxRecord
    <3>3. PickUpGun(r) \in TuxRecord
      BY <3>1, <3>2 DEF TuxRecord
    <3>4. PickUpGun(r).ammo = r.ammo /\ PickUpGun(r).status = r.status
      BY <3>1 DEF TuxRecord
    <3>5. Loaded(PickUpGun(r)) = {}
      BY <2>3, <3>4 DEF Loaded
    <3>6. QED
      BY <2>2, <2>3, <3>3, <3>4, <3>5 DEF Armed, Ready, Spare
  <2>4. CASE Loaded(r) = {} /\ ~(r.pickup + 1 < MaxPickup)
    <3> DEFINE ammo == [r.ammo EXCEPT ![GUN_SIMPLE] = GunMaxShot]
    <3>1. PickUpGun(r) = [r EXCEPT !.gun = GUN_SIMPLE, !.ammo = ammo, !.pickup = 0]
      BY <2>4 DEF PickUpGun
    <3>2. ammo \in [Guns -> 0 .. MaxAmmo] /\ 0 \in 0 .. MaxPickup /\ GUN_SIMPLE \in Guns
      BY TuxAssumption DEF TuxRecord
    <3>3. ammo[GUN_SIMPLE] > 0
      BY TuxAssumption DEF TuxRecord
    <3> HIDE DEF ammo
    <3>4. PickUpGun(r) \in TuxRecord
      BY <3>1, <3>2 DEF TuxRecord
    <3>5. PickUpGun(r).ammo = ammo /\ PickUpGun(r).gun = GUN_SIMPLE
      BY <3>1 DEF TuxRecord
    <3>6. QED
      BY <3>3, <3>4, <3>5 DEF Armed, Ready, Spare
  <2>5. QED
    BY <2>1, <2>3, <2>4
<1>2. ASSUME NEW q \in TuxRecord
      PROVE  /\ EventBonus(q).status = q.status /\ EventBonus(q).gun = q.gun
             /\ EventBonus(q).ammo = q.ammo
  BY DEF EventBonus, TuxRecord
<1>3. QED
  BY <1>1, <1>2, ArmedSame

\* A gun that is given is loaded and in hand.
LEMMA ArmedGiven ==
    ASSUME NEW t, NEW r \in TuxRecord, NEW g \in Guns, Armed(t, r)
    PROVE  Armed(t, GivenGun(r, g))
<1> DEFINE n == IF r.ammo[g] + GunMaxShot <= MaxAmmo THEN r.ammo[g] + GunMaxShot ELSE MaxAmmo
           ammo == [r.ammo EXCEPT ![g] = n]
<1>1. n > 0
  BY TuxAssumption DEF TuxRecord
<1>2. GivenGun(r, g) = [r EXCEPT !.pickup = 0, !.gun = g, !.ammo = ammo]
  BY DEF GivenGun
<1> HIDE DEF n
<1>3. ammo[g] > 0 /\ (r.ammo[GUN_SIMPLE] > 0 => ammo[GUN_SIMPLE] > 0)
  BY <1>1, TuxAssumption DEF TuxRecord
<1> HIDE DEF ammo
<1>4. /\ GivenGun(r, g).ammo = ammo /\ GivenGun(r, g).gun = g
      /\ GivenGun(r, g).status = r.status
  BY <1>2 DEF TuxRecord
<1>5. QED
  BY <1>3, <1>4 DEF Armed, Ready, Spare

\* One tux changes, to a record that is as it must be.
LEMMA ArmsOne ==
    ASSUME TypeOK, Arms, NEW t \in Tuxes, NEW x, tux' = [tux EXCEPT ![t] = x], Armed(t, x)
    PROVE  Arms'
  BY DEF Arms, TypeOK

\* After a shot, whoever may switch from an empty gun does; on the net everybody
\* may.
LEMMA ArmsShot ==
    ASSUME TypeOK, Arms, NEW t \in Tuxes, NEW r \in TuxRecord, r.status = "alive",
           AfterShot(t, r)
    PROVE  Arms'
<1> DEFINE q == [r EXCEPT !.canShot = FALSE]
<1>1. /\ q \in TuxRecord /\ q.status = "alive" /\ q.gun = r.gun /\ q.ammo = r.ammo
      /\ Loaded(q) = Loaded(r)
  BY DEF TuxRecord, Loaded
<1>2. CASE r.ammo[r.gun] = 0 /\ MaySwitch(t, r)
  <2>1. tux' = [tux EXCEPT ![t] = Switched(q)]
    BY <1>2 DEF AfterShot
  <2>2. Loaded(q) # {}
    BY <1>1, <1>2 DEF MaySwitch
  <2> HIDE DEF q
  <2>3. Armed(t, Switched(q))
    BY <1>1, <2>2, ArmedSwitched DEF Spare
  <2>4. QED
    BY <2>1, <2>3, ArmsOne
<1>3. CASE ~(r.ammo[r.gun] = 0 /\ MaySwitch(t, r))
  <2>1. tux' = [tux EXCEPT ![t] = q]
    BY <1>3 DEF AfterShot
  <2> HIDE DEF q
  <2>2. r.ammo[r.gun] \in Nat
    <3>1. r.ammo \in [Guns -> 0 .. MaxAmmo] /\ r.gun \in Guns
      BY DEF TuxRecord
    <3>2. r.ammo[r.gun] \in 0 .. MaxAmmo
      BY <3>1
    <3>3. QED
      BY <3>2, TuxAssumption
  <2>3. ASSUME t \in NetTuxes
        PROVE  Ready(q)
    <3>1. r.ammo[r.gun] # 0 \/ Loaded(r) = {}
      BY <1>3, <2>3 DEF MaySwitch
    <3>2. r.ammo[r.gun] > 0 \/ Loaded(r) = {}
      BY <2>2, <3>1
    <3>3. q.ammo[q.gun] = r.ammo[r.gun]
      BY <1>1
    <3>4. QED
      BY <1>1, <3>2, <3>3 DEF Ready
  <2>4. Armed(t, q)
    BY <1>1, <2>3 DEF Armed, Spare
  <2>5. QED
    BY <2>1, <2>4, ArmsOne
<1>4. QED
  BY <1>2, <1>3

\* What a tux does keeps Arms.
LEMMA ArmsTuxStep ==
    ASSUME TypeOK, Arms, NEW t \in Tuxes, TuxStep(t)
    PROVE  Arms'
<1>1. tux[t] \in TuxRecord /\ tux \in [Tuxes -> TuxRecord] /\ Armed(t, tux[t])
  BY DEF TypeOK, Arms
<1>2. CASE Join(t)
  <2>1. PICK g \in Guns : tux' = [tux EXCEPT ![t] = NewTux(g)]
    BY <1>2 DEF Join
  <2>2. QED
    BY <2>1, ArmedNew, ArmsOne
<1>3. CASE Leave(t)
  BY <1>3, ArmedNew, ArmsOne DEF Leave
<1>4. CASE Move(t)
  <2>1. PICK w \in BOOLEAN : tux' = [tux EXCEPT ![t] = [tux[t] EXCEPT !.inWall = w]]
    BY <1>4 DEF Move
  <2> DEFINE q == [tux[t] EXCEPT !.inWall = w]
  <2>2. q.status = tux[t].status /\ q.gun = tux[t].gun /\ q.ammo = tux[t].ammo
    BY <1>1 DEF TuxRecord
  <2> HIDE DEF q
  <2>3. Armed(t, q)
    BY <1>1, <2>2, ArmedSame
  <2>4. QED
    BY <2>1, <2>3, ArmsOne DEF q
<1>5. CASE SwitchTuxGun(t)
  BY <1>1, <1>5, ArmedSwitched, ArmsOne DEF SwitchTuxGun, MaySwitch, Armed
<1>6. CASE ShotTux(t)
  <2> DEFINE r == IF tux[t].bonus = BONUS_SHOT THEN tux[t] ELSE Spent(tux[t])
  <2>1. r \in TuxRecord /\ r.status = "alive"
    BY <1>1, <1>6, SpentType DEF ShotTux, CanShoot, Alive, Same
  <2>2. AfterShot(t, r)
    BY <1>6 DEF ShotTux
  <2> HIDE DEF r
  <2>3. QED
    BY <2>1, <2>2, ArmsShot
<1>7. CASE PutMine(t)
  <2>1. Spent(tux[t]) \in TuxRecord /\ Spent(tux[t]).status = "alive"
    BY <1>1, <1>7, SpentType DEF PutMine, CanShoot, Alive, Same
  <2>2. QED
    BY <1>7, <2>1, ArmsShot DEF PutMine
<1>8. CASE PutNoMine(t)
  BY <1>1, <1>8, ArmsShot DEF PutNoMine, CanShoot, Alive
<1>9. CASE TuxEvent(t)
  BY <1>1, <1>9, ArmedEvent, ArmsOne DEF TuxEvent
<1>10. QED
  BY <1>2, <1>3, <1>4, <1>5, <1>6, <1>7, <1>8, <1>9 DEF TuxStep

\* So does what happens to one.
LEMMA ArmsDie ==
    ASSUME TypeOK, Arms, NEW t \in Tuxes, Die(t) \/ Teleport(t)
    PROVE  Arms'
<1>1. tux[t] \in TuxRecord /\ Armed(t, tux[t])
  BY DEF TypeOK, Arms
<1>2. CASE Teleport(t)
  <2>1. tux' = [tux EXCEPT ![t] = [tux[t] EXCEPT !.inWall = FALSE]]
    BY <1>2 DEF Teleport
  <2> DEFINE q == [tux[t] EXCEPT !.inWall = FALSE]
  <2>2. q.status = tux[t].status /\ q.gun = tux[t].gun /\ q.ammo = tux[t].ammo
    BY <1>1 DEF TuxRecord
  <2> HIDE DEF q
  <2>3. Armed(t, q)
    BY <1>1, <2>2, ArmedSame
  <2>4. QED
    BY <2>1, <2>3, ArmsOne DEF q
<1>3. CASE Kill(t)
  BY <1>1, <1>3, ArmedNew, ArmsOne DEF Kill
<1>4. CASE UNCHANGED tux
  BY <1>4 DEF Arms
<1>5. QED
  BY <1>2, <1>3, <1>4 DEF Die

\* The rest of what happens to tuxes: items, shots and timers.
LEMMA ArmsStep ==
    ASSUME IInv, Arms, [Next]_vars
    PROVE  Arms'
<1>1. TypeOK /\ Core /\ Touching
  BY DEF IInv, Core
<1>2. UNCHANGED tux => Arms'
  BY DEF Arms
<1>3. ASSUME NEW i \in Items, Touch(i)
      PROVE  Arms'
  <2>1. i \in touched
    BY <1>3 DEF Touch, GiveGun, GiveBonus, StepOnMine, StepInExplosion, NextTouch
  <2>2. PICK t \in Tuxes : t = toucher
    BY <1>1, <2>1 DEF Touching
  <2>3. tux[t] \in TuxRecord /\ Armed(t, tux[t])
    BY <1>1 DEF TypeOK, Arms
  <2>4. CASE GiveGun(i)
    <3>1. items[i].type \in Guns /\ tux' = [tux EXCEPT ![t] = GivenGun(tux[t], items[i].type)]
      BY <2>2, <2>4 DEF GiveGun
    <3>2. QED
      BY <1>1, <2>3, <3>1, ArmedGiven, ArmsOne
  <2>5. CASE GiveBonus(i)
    <3> DEFINE q == [tux[t] EXCEPT !.bonus = items[i].type, !.bonusTime = MaxBonus]
    <3>1. tux' = [tux EXCEPT ![t] = q]
      BY <2>2, <2>5 DEF GiveBonus
    <3>2. q.status = tux[t].status /\ q.gun = tux[t].gun /\ q.ammo = tux[t].ammo
      BY <2>3 DEF TuxRecord
    <3> HIDE DEF q
    <3>3. QED
      BY <1>1, <2>3, <3>1, <3>2, ArmedSame, ArmsOne
  <2>6. CASE StepOnMine(i)
    BY <1>2, <2>6 DEF StepOnMine
  <2>7. CASE StepInExplosion(i)
    <3>1. UNCHANGED tux \/ Teleport(t) \/ Die(t)
      BY <2>2, <2>7 DEF StepInExplosion
    <3>2. QED
      BY <1>1, <1>2, <3>1, ArmsDie
  <2>8. QED
    BY <1>3, <2>4, <2>5, <2>6, <2>7 DEF Touch
<1>4. ASSUME NEW s \in flying, ShotStep(s)
      PROVE  Arms'
  <2>1. UNCHANGED tux \/ \E t \in Tuxes : Teleport(t) \/ Die(t)
    BY <1>4 DEF ShotStep, ShotMissesTeleport, BombBallExplosion, ShotKills, ShotHitsMine,
                ShotEnds, ShotTurns
  <2>2. QED
    BY <1>1, <1>2, <2>1, ArmsDie
<1>5. ASSUME SpawnTux
      PROVE  Arms'
  <2>1. /\ Fires({"spawn"}) /\ Present(timers[walk].tux)
        /\ tux' = [tux EXCEPT ![timers[walk].tux] =
                      [@ EXCEPT !.status = "alive", !.gun = GUN_SIMPLE, !.inWall = FALSE]]
    BY <1>5 DEF SpawnTux
  <2>2. walk \in DOMAIN timers /\ timers[walk].task = "spawn" /\ timers[walk].tux \in Tuxes
    BY <1>1, <2>1, FiresFacts DEF TuxTasks
  <2>3. PICK t \in Tuxes : t = timers[walk].tux
    BY <2>2
  <2>4. Dead(t)
    BY <1>1, <2>1, <2>2, <2>3 DEF Core, Life, SpawnPends, Is, Present
  <2>5. tux[t] \in TuxRecord /\ tux[t].ammo[GUN_SIMPLE] > 0
    BY <1>1, <2>4 DEF TypeOK, Arms, Armed, Spare, Dead
  <2> DEFINE q == [tux[t] EXCEPT !.status = "alive", !.gun = GUN_SIMPLE, !.inWall = FALSE]
  <2>6. q.status = "alive" /\ q.gun = GUN_SIMPLE /\ q.ammo = tux[t].ammo
    BY <2>5 DEF TuxRecord
  <2>7. tux' = [tux EXCEPT ![t] = q]
    BY <2>1, <2>3
  <2> HIDE DEF q
  <2>8. Armed(t, q)
    BY <2>5, <2>6 DEF Armed, Ready, Spare
  <2>9. QED
    BY <1>1, <2>7, <2>8, ArmsOne
<1>6. ASSUME TuxCanShot \/ TuxCanSwitchGun
      PROVE  Arms'
  <2>1. Fires({"canShot"}) \/ Fires({"canSwitch"})
    BY <1>6 DEF TuxCanShot, TuxCanSwitchGun
  <2>2. timers[walk].tux \in Tuxes
    BY <1>1, <2>1, FiresFacts DEF TuxTasks
  <2>3. PICK t \in Tuxes : t = timers[walk].tux
    BY <2>2
  <2>4. tux[t] \in TuxRecord /\ Armed(t, tux[t])
    BY <1>1 DEF TypeOK, Arms
  <2>5. PICK q \in {[tux[t] EXCEPT !.canShot = TRUE], [tux[t] EXCEPT !.canSwitch = TRUE]} :
          tux' = [tux EXCEPT ![t] = q]
    BY <1>6, <2>3 DEF TuxCanShot, TuxCanSwitchGun
  <2>6. q.status = tux[t].status /\ q.gun = tux[t].gun /\ q.ammo = tux[t].ammo
    BY <2>4, <2>5 DEF TuxRecord
  <2>7. QED
    BY <1>1, <2>4, <2>5, <2>6, ArmedSame, ArmsOne
<1>7. CASE TimerEvent
  BY <1>2, <1>5, <1>6, <1>7 DEF TimerEvent, StartTimers, Keep, FinishTimers, FiresForNobody,
                                AddShot, EndArena
<1>8. CASE LoadArena
  <2>1. ASSUME NEW t \in Tuxes PROVE Armed(t, tux'[t])
    <3>1. tux[t] \in TuxRecord /\ Armed(t, tux[t])
      BY <1>1 DEF TypeOK, Arms
    <3>2. tux'[t] = [tux[t] EXCEPT !.canShot = TRUE, !.canSwitch = TRUE]
      BY <1>8 DEF LoadArena
    <3>3. /\ tux'[t].status = tux[t].status /\ tux'[t].gun = tux[t].gun
          /\ tux'[t].ammo = tux[t].ammo
      BY <3>1, <3>2 DEF TuxRecord
    <3> QED
      BY <3>1, <3>3, ArmedSame
  <2> QED
    BY <2>1 DEF Arms
<1>9. CASE Next
  BY <1>1, <1>2, <1>3, <1>4, <1>7, <1>8, <1>9, ArmsTuxStep DEF Next, ExplosionEnds, Tick, Rest, vars
<1>10. QED
  BY <1>2, <1>9 DEF vars

\* Nobody on the net holds an empty gun beside a loaded one.
THEOREM HoldsLoadedGunHolds == Spec => []HoldsLoadedGun
<1>1. Init => Arms
  BY ArmedNew DEF Init, Arms
<1>2. IInv /\ Arms /\ [Next]_vars => Arms'
  BY ArmsStep
<1>3. Arms => HoldsLoadedGun
  BY TuxAssumption DEF Arms, Armed, Ready, HoldsLoadedGun, Present, Alive, Dead
<1>4. QED
  BY <1>1, <1>2, <1>3, IInvHolds, PTL DEF Spec
(***************************************************************************)
(* Part 8: mines.                                                          *)
(***************************************************************************)

\* Whoever is there is still there.
Stays == \A u \in Tuxes : Present(u) => tux'[u].status \in {"alive", "dead"}

\* One tux changes, and stays if it was there.
LEMMA StaysOne ==
    ASSUME TypeOK, NEW t \in Tuxes, NEW x, tux' = [tux EXCEPT ![t] = x],
           Present(t) => x.status \in {"alive", "dead"}
    PROVE  Stays
  BY DEF Stays, TypeOK, Present, Alive, Dead

\* A death and a teleport take nobody away.
LEMMA StaysDie ==
    ASSUME TypeOK, NEW t \in Tuxes, Die(t) \/ Teleport(t)
    PROVE  Stays
<1>1. tux[t] \in TuxRecord
  BY DEF TypeOK
<1>2. CASE Teleport(t)
  <2>1. tux' = [tux EXCEPT ![t] = [tux[t] EXCEPT !.inWall = FALSE]]
    BY <1>2 DEF Teleport
  <2>2. [tux[t] EXCEPT !.inWall = FALSE].status = tux[t].status
    BY <1>1 DEF TuxRecord
  <2>3. QED
    BY <2>1, <2>2, StaysOne DEF Present, Alive, Dead
<1>3. CASE Kill(t)
  BY <1>1, <1>3, KilledType, StaysOne DEF Kill
<1>4. CASE UNCHANGED tux
  BY <1>4 DEF Stays, Present, Alive, Dead
<1>5. QED
  BY <1>2, <1>3, <1>4 DEF Die

\* Nor does a shot.
LEMMA StaysShot ==
    ASSUME TypeOK, NEW t \in Tuxes, NEW r \in TuxRecord, r.status = "alive", AfterShot(t, r)
    PROVE  Stays
<1> DEFINE q == [r EXCEPT !.canShot = FALSE]
<1>1. q \in TuxRecord /\ q.status = "alive"
  BY DEF TuxRecord
<1>2. Switched(q).status = "alive"
  <2> HIDE DEF q
  <2> QED BY <1>1 DEF Switched, TuxRecord
<1>3. tux' = [tux EXCEPT ![t] = q] \/ tux' = [tux EXCEPT ![t] = Switched(q)]
  BY DEF AfterShot
<1> HIDE DEF q
<1>4. QED
  BY <1>1, <1>2, <1>3, StaysOne

\* Only Leave takes a tux away.
LEMMA StaysTuxStep ==
    ASSUME TypeOK, NEW t \in Tuxes, TuxStep(t), ~Leave(t)
    PROVE  Stays
<1>1. tux[t] \in TuxRecord
  BY DEF TypeOK
<1>2. ASSUME NEW x, tux' = [tux EXCEPT ![t] = x], x.status = tux[t].status
      PROVE  Stays
  BY <1>2, StaysOne DEF Present, Alive, Dead
<1>3. CASE Join(t)
  <2>1. PICK g \in Guns : tux' = [tux EXCEPT ![t] = NewTux(g)] /\ tux[t].status = "unborn"
    BY <1>3 DEF Join
  <2>2. QED
    BY <2>1, StaysOne DEF Present, Alive, Dead
<1>4. CASE Move(t)
  <2>1. PICK w \in BOOLEAN : tux' = [tux EXCEPT ![t] = [tux[t] EXCEPT !.inWall = w]]
    BY <1>4 DEF Move
  <2>2. [tux[t] EXCEPT !.inWall = w].status = tux[t].status
    BY <1>1 DEF TuxRecord
  <2>3. QED
    BY <1>2, <2>1, <2>2
<1>5. CASE SwitchTuxGun(t)
  <2>1. Switched(tux[t]).status = tux[t].status
    BY <1>1 DEF Switched, TuxRecord
  <2>2. QED
    BY <1>2, <1>5, <2>1 DEF SwitchTuxGun
<1>6. CASE ShotTux(t)
  <2> DEFINE r == IF tux[t].bonus = BONUS_SHOT THEN tux[t] ELSE Spent(tux[t])
  <2>1. r \in TuxRecord /\ r.status = "alive"
    BY <1>1, <1>6, SpentType DEF ShotTux, CanShoot, Alive, Same
  <2>2. AfterShot(t, r)
    BY <1>6 DEF ShotTux
  <2> HIDE DEF r
  <2>3. QED
    BY <2>1, <2>2, StaysShot
<1>7. CASE PutMine(t)
  <2>1. Spent(tux[t]) \in TuxRecord /\ Spent(tux[t]).status = "alive"
    BY <1>1, <1>7, SpentType DEF PutMine, CanShoot, Alive, Same
  <2>2. QED
    BY <1>7, <2>1, StaysShot DEF PutMine
<1>8. CASE PutNoMine(t)
  BY <1>1, <1>8, StaysShot DEF PutNoMine, CanShoot, Alive
<1>9. CASE TuxEvent(t)
  BY <1>1, <1>2, <1>9, EventType DEF TuxEvent, Same
<1>10. QED
  BY <1>3, <1>4, <1>5, <1>6, <1>7, <1>8, <1>9 DEF TuxStep

\* Timers take nobody away.
LEMMA StaysTimer ==
    ASSUME TypeOK, Core, TimerEvent
    PROVE  Stays
<1>1. UNCHANGED tux => Stays
  BY DEF Stays, Present, Alive, Dead
<1>2. ASSUME SpawnTux \/ TuxCanShot \/ TuxCanSwitchGun
      PROVE  Stays
  <2>1. Fires({"spawn"}) \/ Fires({"canShot"}) \/ Fires({"canSwitch"})
    BY <1>2 DEF SpawnTux, TuxCanShot, TuxCanSwitchGun
  <2>2. timers[walk].tux \in Tuxes
    BY <2>1, FiresFacts DEF TuxTasks
  <2>3. PICK t \in Tuxes : t = timers[walk].tux
    BY <2>2
  <2>4. tux[t] \in TuxRecord
    BY DEF TypeOK
  <2>5. PICK q \in {[tux[t] EXCEPT !.status = "alive", !.gun = GUN_SIMPLE, !.inWall = FALSE],
                    [tux[t] EXCEPT !.canShot = TRUE], [tux[t] EXCEPT !.canSwitch = TRUE]} :
          tux' = [tux EXCEPT ![t] = q]
    BY <1>2, <2>3 DEF SpawnTux, TuxCanShot, TuxCanSwitchGun
  <2>6. q.status \in {"alive", tux[t].status}
    BY <2>4, <2>5 DEF TuxRecord
  <2>7. QED
    BY <2>5, <2>6, StaysOne DEF Present, Alive, Dead
<1>3. QED
  BY <1>1, <1>2 DEF TimerEvent, StartTimers, Keep, FinishTimers, FiresForNobody, AddShot, EndArena

\* Mines are kept, replaced or laid by somebody who is there.
MinesKept ==
    \A i \in Items :
        \/ items'[i] = items[i]
        \/ items'[i].type # ITEM_MINE
        \/ items'[i].author \in Tuxes /\ Present(items'[i].author)

\* Then every mine still has its owner.
LEMMA MinesStay ==
    ASSUME TypeOK, MinesHaveOwners, Stays, MinesKept
    PROVE  MinesHaveOwners'
<1>1. ASSUME NEW i \in Items, items'[i].type = ITEM_MINE, items'[i].author # NoTux
      PROVE  items'[i].author \in Tuxes /\ Present(items'[i].author)
  <2>1. CASE items'[i] = items[i]
    <3>1. items[i].author \in Tuxes
      BY <1>1, <2>1 DEF TypeOK, Item
    <3>2. items[i] # NoItem
      BY <1>1, <2>1 DEF NoItem
    <3>3. Present(items[i].author)
      BY <1>1, <2>1, <3>2 DEF MinesHaveOwners, Lying
    <3>4. QED
      BY <2>1, <3>1, <3>3
  <2>2. QED
    BY <1>1, <2>1 DEF MinesKept
<1>2. QED
  BY <1>1 DEF MinesHaveOwners, Lying, Stays, Present, Alive, Dead

\* New items are no mines.
LEMMA MinesAdded ==
    ASSUME TypeOK
    PROVE  /\ UNCHANGED items => MinesKept
           /\ AddNewItem(items) => MinesKept
           /\ \A i \in Items :
                 /\ AddNewItem([items EXCEPT ![i] = NoItem]) => MinesKept
                 /\ MineExplosion(i) => MinesKept
                 /\ \A a : AddItem(i, ITEM_BIG_EXPLOSION, a) => MinesKept
                 /\ items' = [items EXCEPT ![i] = NoItem] => MinesKept
<1>1. items \in [Items -> Item] /\ NoItem.type # ITEM_MINE
  BY DEF TypeOK, NoItem
<1>2. \A new \in NewItems : new.type # ITEM_MINE
  <2>1. \A k \in Guns \cup Bonuses : k \in 0 .. 6 \/ k \in 10 .. 15
    BY TuxAssumption
  <2>2. \A k \in Guns \cup Bonuses : k # ITEM_MINE
    BY <2>1
  <2>3. \A new \in NewItems : new.type \in Guns \cup Bonuses
    BY DEF NewItems
  <2>4. QED
    BY <2>2, <2>3
<1>3. ASSUME NEW its \in [Items -> Item], AddNewItem(its),
             \A i \in Items : its[i] = items[i] \/ its[i].type # ITEM_MINE
      PROVE  MinesKept
  <2>1. CASE items' = its
    BY <1>3, <2>1 DEF MinesKept
  <2>2. ASSUME NEW j \in Items, NEW new \in NewItems, items' = [its EXCEPT ![j] = new]
        PROVE  MinesKept
    <3>1. ASSUME NEW i \in Items
          PROVE  items'[i] = items[i] \/ items'[i].type # ITEM_MINE
      BY <1>2, <1>3, <2>2
    <3>2. QED
      BY <3>1 DEF MinesKept
  <2>3. QED
    BY <1>3, <2>1, <2>2 DEF AddNewItem
<1>5. ASSUME NEW i \in Items
      PROVE  /\ AddNewItem([items EXCEPT ![i] = NoItem]) => MinesKept
             /\ items' = [items EXCEPT ![i] = NoItem] => MinesKept
  <2> DEFINE its == [items EXCEPT ![i] = NoItem]
  <2>1. /\ its \in [Items -> Item] /\ NoItem \in Item
        /\ \A j \in Items : its[j] = items[j] \/ its[j].type # ITEM_MINE
    <3>1. NoItem \in Item
      BY DEF NoItem, Item
    <3>2. QED
      BY <1>1, <3>1
  <2> HIDE DEF its
  <2>2. AddNewItem(its) => MinesKept
    BY <1>3, <2>1
  <2>3. items' = its => MinesKept
    BY <2>1 DEF MinesKept
  <2>4. QED
    BY <2>2, <2>3 DEF its
<1>6. ASSUME NEW i \in Items, NEW a, AddItem(i, ITEM_BIG_EXPLOSION, a)
      PROVE  MinesKept
  <2>1. items' = [items EXCEPT ![i] = [type |-> ITEM_BIG_EXPLOSION, author |-> a]]
    BY <1>6 DEF AddItem
  <2>2. [type |-> ITEM_BIG_EXPLOSION, author |-> a].type # ITEM_MINE
    OBVIOUS
  <2>3. \A j \in Items : items'[j] = items[j] \/ items'[j].type # ITEM_MINE
    BY <1>1, <2>1, <2>2
  <2>4. QED
    BY <2>3 DEF MinesKept
<1>7. \A i \in Items : MineExplosion(i) => MinesKept
  BY <1>6 DEF MineExplosion
<1>8. AddNewItem(items) => MinesKept
  BY <1>1, <1>3
<1>9. UNCHANGED items => MinesKept
  BY DEF MinesKept
<1>10. QED
  BY <1>5, <1>6, <1>7, <1>8, <1>9

\* Every step leaves the mines to somebody who is there, or to nobody.
LEMMA MinesStep ==
    ASSUME IInv, MinesHaveOwners, [Next]_vars
    PROVE  MinesHaveOwners'
<1>1. TypeOK /\ Core /\ Touching
  BY DEF IInv, Core
<1>2. UNCHANGED tux => Stays
  BY DEF Stays, Present, Alive, Dead
<1>3. Stays /\ MinesKept => MinesHaveOwners'
  BY <1>1, MinesStay
<1>4. ASSUME NEW t \in Tuxes, TuxStep(t)
      PROVE  MinesHaveOwners'
  <2>1. CASE Leave(t)
    <3>1. ASSUME NEW i \in Items, items'[i].type = ITEM_MINE, items'[i].author # NoTux
          PROVE  items[i].type = ITEM_MINE /\ items'[i] = items[i] /\ items[i].author # t
      BY <1>1, <2>1, <3>1 DEF Leave, TypeOK, Item
    <3>2. ASSUME NEW i \in Items, items'[i].type = ITEM_MINE, items'[i].author # NoTux
          PROVE  tux'[items'[i].author].status \in {"alive", "dead"}
      <4>1. items[i].author \in Tuxes \ {t} /\ items[i] # NoItem
        BY <1>1, <3>1, <3>2 DEF TypeOK, Item, NoItem
      <4>2. Present(items[i].author)
        BY <3>1, <3>2, <4>1 DEF MinesHaveOwners, Lying
      <4>3. tux'[items[i].author] = tux[items[i].author]
        BY <1>1, <2>1, <4>1 DEF Leave, TypeOK
      <4>4. QED
        BY <3>1, <3>2, <4>2, <4>3 DEF Present, Alive, Dead
    <3>3. QED
      BY <3>2 DEF MinesHaveOwners, Lying, Present, Alive, Dead
  <2>2. CASE PutMine(t)
    <3>1. MinesKept
      <4>1. PICK i \in Items : AddItem(i, ITEM_MINE, t)
        BY <2>2 DEF PutMine, Free
      <4>2. items' = [items EXCEPT ![i] = [type |-> ITEM_MINE, author |-> t]]
        BY <4>1 DEF AddItem
      <4>3. Present(t)
        BY <2>2 DEF PutMine, CanShoot, Present
      <4>4. QED
        BY <1>1, <4>2, <4>3 DEF MinesKept, TypeOK
    <3>2. tux[t] \in TuxRecord /\ tux[t].ammo[tux[t].gun] > 0 /\ tux[t].status = "alive"
      BY <1>1, <2>2 DEF PutMine, CanShoot, Alive, TypeOK
    <3>3. Spent(tux[t]) \in TuxRecord /\ Spent(tux[t]).status = "alive"
      BY <3>2, SpentType DEF Same
    <3>4. Stays
      BY <1>1, <2>2, <3>3, StaysShot DEF PutMine
    <3>5. QED
      BY <1>3, <3>1, <3>4
  <2>3. CASE ~Leave(t) /\ ~PutMine(t)
    <3>1. MinesKept
      BY <1>1, <1>4, <2>3, MinesAdded DEF TuxStep, Join, Move, SwitchTuxGun, ShotTux, PutNoMine,
                                       TuxEvent
    <3>2. QED
      BY <1>1, <1>3, <1>4, <2>3, <3>1, StaysTuxStep
  <2>4. QED
    BY <2>1, <2>2, <2>3
<1>5. ASSUME NEW i \in Items, Touch(i)
      PROVE  MinesHaveOwners'
  <2>1. i \in touched
    BY <1>5 DEF Touch, GiveGun, GiveBonus, StepOnMine, StepInExplosion, NextTouch
  <2>2. PICK t \in Tuxes : t = toucher
    BY <1>1, <2>1 DEF Touching
  <2>3. tux[t] \in TuxRecord
    BY <1>1 DEF TypeOK
  <2>4. MinesKept
    BY <1>1, <1>5, MinesAdded DEF Touch, GiveGun, GiveBonus, StepOnMine, StepInExplosion
  <2>5. ASSUME NEW x, tux' = [tux EXCEPT ![t] = x], x.status = tux[t].status
        PROVE  Stays
    BY <1>1, <2>5, StaysOne DEF Present, Alive, Dead
  <2>6. CASE GiveGun(i)
    BY <1>3, <2>2, <2>3, <2>4, <2>5, <2>6, GivenType DEF GiveGun, Same
  <2>7. CASE GiveBonus(i)
    BY <1>3, <2>2, <2>3, <2>4, <2>5, <2>7, GivenType DEF GiveBonus, Same
  <2>8. CASE StepOnMine(i)
    BY <1>2, <1>3, <2>4, <2>8 DEF StepOnMine
  <2>9. CASE StepInExplosion(i)
    <3>1. UNCHANGED tux \/ Teleport(t) \/ Die(t)
      BY <2>2, <2>9 DEF StepInExplosion
    <3>2. QED
      BY <1>1, <1>2, <1>3, <2>4, <3>1, StaysDie
  <2>10. QED
    BY <1>5, <2>6, <2>7, <2>8, <2>9 DEF Touch
<1>6. ASSUME NEW s \in flying, ShotStep(s)
      PROVE  MinesHaveOwners'
  <2>1. UNCHANGED tux \/ \E t \in Tuxes : Teleport(t) \/ Die(t)
    BY <1>6 DEF ShotStep, ShotMissesTeleport, BombBallExplosion, ShotKills, ShotHitsMine,
                ShotEnds, ShotTurns
  <2>2. MinesKept
    BY <1>1, <1>6, MinesAdded DEF ShotStep, ShotMissesTeleport, BombBallExplosion, ShotKills,
                                  ShotHitsMine, ShotEnds, ShotTurns, Free
  <2>3. QED
    BY <1>1, <1>2, <1>3, <2>1, <2>2, StaysDie
<1>7. ASSUME TimerEvent
      PROVE  MinesHaveOwners'
  <2>1. MinesKept
    BY <1>1, <1>7, MinesAdded DEF TimerEvent, StartTimers, Keep, FinishTimers, FiresForNobody,
                                  SpawnTux, TuxCanShot, TuxCanSwitchGun, AddShot, EndArena
  <2>2. QED
    BY <1>1, <1>3, <1>7, <2>1, StaysTimer
<1>8. ASSUME NEW i \in Items, ExplosionEnds(i)
      PROVE  MinesHaveOwners'
  BY <1>1, <1>2, <1>3, <1>8, MinesAdded DEF ExplosionEnds
<1>9. UNCHANGED <<tux, items>> => MinesHaveOwners'
  BY <1>1, <1>2, <1>3, MinesAdded
<1>10. CASE LoadArena
  <2>1. ASSUME NEW u \in Tuxes PROVE tux'[u].status = tux[u].status
    <3>1. tux[u] \in TuxRecord
      BY <1>1 DEF TypeOK
    <3>2. tux'[u] = [tux[u] EXCEPT !.canShot = TRUE, !.canSwitch = TRUE]
      BY <1>10 DEF LoadArena
    <3> QED
      BY <3>1, <3>2 DEF TuxRecord
  <2>2. Stays
    BY <2>1 DEF Stays, Present, Alive, Dead
  <2>3. MinesKept
    BY <1>10 DEF LoadArena, MinesKept
  <2> QED
    BY <1>3, <2>2, <2>3
<1>11. CASE Next
  BY <1>4, <1>5, <1>6, <1>7, <1>8, <1>9, <1>10, <1>11 DEF Next, Tick, Rest, vars
<1>12. QED
  BY <1>9, <1>11 DEF vars

\* A mine belongs to a tux of the arena or to nobody.
THEOREM MinesHaveOwnersHolds == Spec => []MinesHaveOwners
<1>1. Init => MinesHaveOwners
  BY TuxAssumption DEF Init, MinesHaveOwners, Lying, NoItem, NewItems
<1>2. IInv /\ MinesHaveOwners /\ [Next]_vars => MinesHaveOwners'
  BY MinesStep
<1>3. QED
  BY <1>1, <1>2, IInvHolds, PTL DEF Spec

(***************************************************************************)
(* Part 9: the end of the match.                                           *)
(***************************************************************************)
\* The last round is over, the match is not, and it was not saved in between.
Ending == LastRoundOver /\ ~ended /\ NoTux \notin lost

\* No end is pending before the last round, one after it until the match ends or is
\* saved.
EndInv ==
    /\ Ending => Waits("end", NoTux, FALSE)
    /\ ~Ending => Waits("end", NoTux, TRUE)
    /\ ended \/ NoTux \in lost => LastRoundOver

\* Tasks of tuxes come and go without touching it.
LEMMA EndAppended ==
    ASSUME TypeOK, EndInv, NEW more \in Seq(Timer), Appended(more),
           \A n \in DOMAIN more : more[n].task # "end",
           UNCHANGED <<ended, lost>>, LastRoundOver' <=> LastRoundOver
    PROVE  EndInv'
<1>1. \A free \in BOOLEAN : Waits("end", NoTux, free) => Waits("end", NoTux, free)'
  BY WaitsAppended
<1>2. QED
  BY <1>1 DEF EndInv, Ending

\* A shot sets no end.
LEMMA EndShot ==
    ASSUME TypeOK, EndInv, NEW t \in Tuxes, NEW r, AfterShot(t, r), UNCHANGED <<round, ended, lost>>
    PROVE  EndInv'
<1>1. PICK more \in Seq(Timer), n \in Nat : Volleyed(t, r, more, n)
  BY ShotAppends
<1>2. Appended(more) /\ \A i \in DOMAIN more : more[i].task # "end"
  BY <1>1 DEF Volleyed
<1>3. QED
  BY <1>2, EndAppended DEF LastRoundOver

\* The death that ends the last round sets it; no later one does.
LEMMA EndDie ==
    ASSUME TypeOK, EndInv, NEW t \in Tuxes, Die(t), UNCHANGED <<ended, lost>>
    PROVE  EndInv'
<1>1. round \in 0 .. MaxRound /\ MaxRound \in Nat
  BY TuxAssumption DEF TypeOK
<1>2. CASE UNCHANGED <<round, timers>>
  BY <1>2 DEF EndInv, Ending, LastRoundOver, Waits, Is
<1>3. CASE Kill(t)
  <2>1. PICK more \in Seq(Timer) :
          /\ Appended(more) /\ Len(more) \in {1, 2}
          /\ more[Len(more)] = Task("spawn", t, SpawnTime)
          /\ Len(more) = 2 => LastRound /\ more[1] = Task("end", NoTux, EndTime)
          /\ LastRound => Len(more) = 2
    BY <1>3, KillAppends
  <2>2. DOMAIN more = 1 .. Len(more)
    BY <2>1, AppendedFacts
  <2>3. round' = IF round < MaxRound THEN round + 1 ELSE round
    BY <1>3 DEF Kill
  <2>4. CASE LastRound
    <3>1. LastRoundOver' /\ ~LastRoundOver /\ ~ended /\ NoTux \notin lost
      BY <1>1, <2>3, <2>4 DEF LastRound, LastRoundOver, EndInv
    <3>2. 1 \in DOMAIN more /\ more[1].task = "end" /\ more[1].tux = NoTux
      BY <2>1, <2>2, <2>4 DEF Task
    <3>3. \A n \in DOMAIN more : more[n].task = "end" => n = 1
      <4>1. Len(more) = 2
        BY <2>1, <2>4
      <4>2. DOMAIN more = {1, 2}
        BY <2>2, <4>1
      <4>3. more[2] = Task("spawn", t, SpawnTime)
        BY <2>1, <4>1
      <4>4. more[2].task = "spawn"
        BY <4>3 DEF Task
      <4>5. QED
        BY <4>2, <4>4
    <3>4. Waits("end", NoTux, TRUE)
      BY <3>1 DEF EndInv, Ending
    <3>5. Waits("end", NoTux, FALSE)'
      BY <2>1, <3>2, <3>3, <3>4, WaitsAppended
    <3>6. QED
      BY <3>1, <3>5 DEF EndInv, Ending
  <2>5. CASE ~LastRound
    <3>1. LastRoundOver' <=> LastRoundOver
      BY <1>1, <2>3, <2>5 DEF LastRound, LastRoundOver
    <3>2. \A n \in DOMAIN more : more[n].task # "end"
      BY <2>1, <2>2, <2>5 DEF Task
    <3>3. QED
      BY <2>1, <3>1, <3>2, EndAppended
  <2>6. QED
    BY <2>4, <2>5
<1>4. QED
  BY <1>2, <1>3 DEF Die

\* Every step keeps the end set once.
LEMMA EndStep ==
    ASSUME IInv, EndInv, [Next]_vars
    PROVE  EndInv'
<1>1. TypeOK /\ Core /\ Touching
  BY DEF IInv, Core
<1>2. UNCHANGED <<timers, round, ended, lost>> => EndInv'
  BY DEF EndInv, Ending, LastRoundOver, Waits, Is
<1>3. ASSUME NEW t \in Tuxes, TuxStep(t)
      PROVE  EndInv'
  <2>1. CASE SwitchTuxGun(t)
    <3>1. SwitchTimer(t) \in Timer
      BY TuxAssumption, TaskType DEF TuxTasks, SwitchTimer
    <3>2. PICK q \in Timer : q = SwitchTimer(t)
      BY <3>1
    <3>3. <<q>> \in Seq(Timer) /\ DOMAIN <<q>> = {1} /\ <<q>>[1] = q
      <4>1. <<q>> \in Seq(Timer)
        OBVIOUS
      <4>2. DOMAIN <<q>> = {1} /\ <<q>>[1] = q
        OBVIOUS
      <4>3. QED
        BY <4>1, <4>2
    <3>4. timers' = timers \o <<q>>
      BY <1>1, <2>1, <3>2, AppendIsConcat DEF SwitchTuxGun, TypeOK
    <3>5. Appended(<<q>>)
      BY <1>1, <3>3, <3>4, Appending DEF TypeOK
    <3>6. q.task # "end"
      BY <3>2 DEF SwitchTimer, Task
    <3>7. UNCHANGED <<ended, lost>> /\ (LastRoundOver' <=> LastRoundOver)
      BY <2>1 DEF SwitchTuxGun, LastRoundOver
    <3>8. QED
      BY <1>1, <3>3, <3>5, <3>6, <3>7, EndAppended
  <2>2. CASE ShotTux(t)
    BY <1>1, <2>2, EndShot DEF ShotTux
  <2>3. CASE PutMine(t) \/ PutNoMine(t)
    BY <1>1, <2>3, EndShot DEF PutMine, PutNoMine
  <2>4. CASE Join(t) \/ Leave(t) \/ Move(t) \/ TuxEvent(t)
    BY <1>2, <2>4 DEF Join, Leave, Move, TuxEvent
  <2>5. QED
    BY <1>3, <2>1, <2>2, <2>3, <2>4 DEF TuxStep
<1>4. ASSUME NEW i \in Items, Touch(i)
      PROVE  EndInv'
  <2>1. i \in touched
    BY <1>4 DEF Touch, GiveGun, GiveBonus, StepOnMine, StepInExplosion, NextTouch
  <2>2. PICK t \in Tuxes : t = toucher
    BY <1>1, <2>1 DEF Touching
  <2>3. UNCHANGED <<timers, round, ended, lost>> \/ (Die(t) /\ UNCHANGED <<ended, lost>>)
    BY <1>4, <2>2 DEF Touch, GiveGun, GiveBonus, StepOnMine, StepInExplosion
  <2>4. QED
    BY <1>1, <1>2, <2>3, EndDie
<1>5. ASSUME NEW s \in flying, ShotStep(s)
      PROVE  EndInv'
  <2>1. \/ UNCHANGED <<timers, round, ended, lost>>
        \/ \E t \in Tuxes : Die(t) /\ UNCHANGED <<ended, lost>>
    BY <1>5 DEF ShotStep, ShotMissesTeleport, BombBallExplosion, ShotKills, ShotHitsMine,
                ShotEnds, ShotTurns
  <2>2. QED
    BY <1>1, <1>2, <2>1, EndDie
<1>6. ASSUME NEW kinds, Fires(kinds)
      PROVE  /\ \A free \in BOOLEAN : Waits("end", NoTux, free) /\ ~Is(walk, "end", NoTux)
                                         => Waits("end", NoTux, free)'
             /\ Waits("end", NoTux, FALSE) /\ Is(walk, "end", NoTux)
                   => Waits("end", NoTux, TRUE)'
             /\ (LastRoundOver' <=> LastRoundOver) /\ lost' = lost
  <2>1. walk \in DOMAIN timers /\ timers' = Without(walk)
    BY <1>6 DEF Fires
  <2>2. QED
    BY <1>1, <1>6, <2>1, WaitsRemoved DEF Fires, LastRoundOver
<1>7. CASE EndArena
  <2>1. Fires({"end"}) /\ ended' = TRUE
    BY <1>7 DEF EndArena
  <2>2. walk \in DOMAIN timers /\ timers[walk].task = "end"
    BY <2>1 DEF Fires
  <2>3. timers[walk] \in Timer
    BY <1>1, <2>2, TimersFacts
  <2>4. Is(walk, "end", NoTux)
    BY <2>2, <2>3 DEF Timer, TuxTasks, Is
  <2>5. Ending /\ Waits("end", NoTux, FALSE)
    BY <2>2, <2>4 DEF EndInv, Waits
  <2>6. Waits("end", NoTux, TRUE)' /\ LastRoundOver'
    BY <1>6, <2>1, <2>4, <2>5 DEF Ending
  <2>7. QED
    BY <2>1, <2>6 DEF EndInv, Ending
<1>8. ASSUME NEW kinds \in SUBSET TuxTasks, Fires(kinds), UNCHANGED ended
      PROVE  EndInv'
  <2>1. ~Is(walk, "end", NoTux)
    BY <1>8 DEF Fires, Is, TuxTasks
  <2>2. \A free \in BOOLEAN : Waits("end", NoTux, free) => Waits("end", NoTux, free)'
    BY <1>6, <1>8, <2>1
  <2>3. (LastRoundOver' <=> LastRoundOver) /\ lost' = lost
    BY <1>6, <1>8
  <2>4. QED
    BY <1>8, <2>2, <2>3 DEF EndInv, Ending
<1>9. CASE TimerEvent
  <2>1. CASE StartTimers \/ Keep \/ FinishTimers
    BY <1>2, <2>1 DEF StartTimers, Keep, FinishTimers
  <2>2. CASE FiresForNobody
    BY <1>8, <2>2 DEF FiresForNobody
  <2>3. CASE SpawnTux
    BY <1>8, <2>3 DEF SpawnTux, TuxTasks
  <2>4. CASE TuxCanShot
    BY <1>8, <2>4 DEF TuxCanShot, TuxTasks
  <2>5. CASE TuxCanSwitchGun
    BY <1>8, <2>5 DEF TuxCanSwitchGun, TuxTasks
  <2>6. CASE AddShot
    BY <1>8, <2>6 DEF AddShot, TuxTasks
  <2>7. QED
    BY <1>7, <1>9, <2>1, <2>2, <2>3, <2>4, <2>5, <2>6 DEF TimerEvent
<1>10. CASE Tick
  <2>1. /\ timers' \in Seq(Timer) /\ Len(timers') = Len(timers)
        /\ \A i \in 1 .. Len(timers) : timers'[i] = Older(timers[i])
    BY <1>1, <1>10, TypeTick
  <2>2. /\ DOMAIN timers = 1 .. Len(timers) /\ DOMAIN timers' = 1 .. Len(timers')
        /\ \A i \in DOMAIN timers : timers[i] \in Timer
    BY <1>1, <2>1, TimersFacts, LenProperties
  <2>3. \A r \in Timer : Older(r).task = r.task /\ Older(r).tux = r.tux
    BY DEF Older, Timer
  <2>4. \A i \in DOMAIN timers :
          timers'[i].task = timers[i].task /\ timers'[i].tux = timers[i].tux
    BY <2>1, <2>2, <2>3
  <2>5. \A free \in BOOLEAN : Waits("end", NoTux, free) => Waits("end", NoTux, free)'
    BY <2>1, <2>2, <2>4 DEF Waits, Is
  <2>6. UNCHANGED <<round, ended, lost>>
    BY <1>10 DEF Tick
  <2>7. QED
    BY <2>5, <2>6 DEF EndInv, Ending, LastRoundOver
<1>11. CASE LoadArena
  <2>1. DOMAIN timers' = {} /\ UNCHANGED <<round, ended>> /\ ~ended
    <3>1. timers' = <<>> /\ UNCHANGED <<round, ended>> /\ ~ended
      BY <1>11 DEF LoadArena, Idle
    <3> QED
      BY <3>1
  <2>2. NoTux \in lost' <=> LastRoundOver
    <3>1. LastRoundOver => NoTux \in lost'
      BY <1>11 DEF LoadArena
    <3>2. ~LastRoundOver => lost' \subseteq Tuxes
      BY <1>11 DEF LoadArena
    <3> QED
      BY <3>1, <3>2, TuxAssumption
  <2>3. LastRoundOver' <=> LastRoundOver
    BY <2>1 DEF LastRoundOver
  <2>4. ~Ending'
    BY <2>2, <2>3 DEF Ending
  <2>5. Waits("end", NoTux, TRUE)'
    BY <2>1 DEF Waits
  <2>6. (ended \/ NoTux \in lost => LastRoundOver)'
    BY <2>1, <2>2, <2>3
  <2> QED
    BY <2>4, <2>5, <2>6 DEF EndInv
<1>12. CASE Next
  BY <1>2, <1>3, <1>4, <1>5, <1>9, <1>10, <1>11, <1>12 DEF Next, ExplosionEnds, Rest, vars
<1>13. QED
  BY <1>2, <1>12 DEF vars

\* The end of the match is set once, by the death that ends the last round, and is
\* lost when the match is saved after that and loaded (saveLoad.c:111-112).
THEOREM EndIsPendingHolds == Spec => []EndIsPending
<1>1. Init => EndInv
  <2>1. ASSUME Init
        PROVE  DOMAIN timers = {} /\ ~LastRoundOver /\ ~ended /\ lost = {}
    BY <2>1 DEF Init, LastRoundOver
  <2>2. QED
    BY <2>1 DEF EndInv, Ending, Waits
<1>2. IInv /\ EndInv /\ [Next]_vars => EndInv'
  BY EndStep
<1>3. EndInv => EndIsPending
  BY WaitsOne DEF EndInv, Ending, EndIsPending
<1>4. QED
  BY <1>1, <1>2, <1>3, IInvHolds, PTL DEF Spec

(***************************************************************************)
(* Part 10: what is waited for is not put off.                             *)
(***************************************************************************)

\* The task at i is still there after the step, and no farther away.
Kept(i) ==
    \E j \in DOMAIN timers' :
        /\ timers'[j].task = timers[i].task /\ timers'[j].tux = timers[i].tux
        /\ timers'[j].left <= timers[i].left

\* The task the walk is at is removed and done, for a tux that is there.
Done(i) ==
    /\ i = walk
    /\ timers[i].task \in TuxTasks => timers[i].tux \in Tuxes
    /\ \/ timers[i].task \in TuxTasks /\ ~Present(timers[i].tux) /\ UNCHANGED tux
       \/ timers[i].task = "spawn" /\ tux'[timers[i].tux].status = "alive"
       \/ timers[i].task = "canShot" /\ tux'[timers[i].tux].canShot
       \/ timers[i].task = "canSwitch" /\ tux'[timers[i].tux].canSwitch
       \/ timers[i].task \in {"tommy", "lasser"}
       \/ timers[i].task = "end" /\ ended'

\* Adding to the list keeps what is in it,
LEMMA KeptAppended ==
    ASSUME TypeOK, NEW more \in Seq(Timer), Appended(more), NEW i \in DOMAIN timers
    PROVE  Kept(i)
<1>1. i \in DOMAIN timers' /\ timers'[i] = timers[i] /\ timers[i].left \in Nat
  BY AppendedFacts, TimersFacts
<1> QED
  BY <1>1 DEF Kept

\* a step that leaves the list alone does,
LEMMA KeptUnchanged ==
    ASSUME TypeOK, timers' = timers, NEW i \in DOMAIN timers
    PROVE  Kept(i)
<1>1. timers[i].left \in Nat
  BY TimersFacts
<1> QED
  BY <1>1 DEF Kept

\* and so do a death, a shot and a change of guns.
LEMMA KeptAdded ==
    ASSUME TypeOK, NEW i \in DOMAIN timers,
           \E t \in Tuxes : Die(t) \/ SwitchTuxGun(t) \/ \E r : AfterShot(t, r)
    PROVE  Kept(i)
<1>1. PICK t \in Tuxes : Die(t) \/ SwitchTuxGun(t) \/ \E r : AfterShot(t, r)
  OBVIOUS
<1>2. CASE Die(t)
  <2>1. Kill(t) => Kept(i)
    BY KillAppends, KeptAppended
  <2> QED
    BY <1>2, <2>1, KeptUnchanged DEF Die
<1>3. CASE SwitchTuxGun(t)
  <2>1. SwitchTimer(t) \in Timer
    BY TuxAssumption, TaskType DEF TuxTasks, SwitchTimer
  <2>2. PICK q \in Timer : q = SwitchTimer(t)
    BY <2>1
  <2>3. <<q>> \in Seq(Timer)
    OBVIOUS
  <2>4. timers' = timers \o <<q>>
    BY <1>3, <2>2, AppendIsConcat DEF SwitchTuxGun, TypeOK
  <2>5. Appended(<<q>>)
    BY <2>3, <2>4, Appending DEF TypeOK
  <2> QED
    BY <2>3, <2>5, KeptAppended
<1>4. ASSUME NEW r, AfterShot(t, r) PROVE Kept(i)
  <2>1. PICK more \in Seq(Timer), n \in Nat : Volleyed(t, r, more, n)
    BY <1>4, ShotAppends
  <2> QED
    BY <2>1, KeptAppended DEF Volleyed
<1> QED
  BY <1>1, <1>2, <1>3, <1>4

\* Time only brings tasks nearer.
LEMMA KeptTick ==
    ASSUME TypeOK, Tick, NEW i \in DOMAIN timers
    PROVE  Kept(i)
<1>1. /\ timers' \in Seq(Timer) /\ Len(timers') = Len(timers)
      /\ \A k \in 1 .. Len(timers) : timers'[k] = Older(timers[k])
  BY TypeTick
<1>2. /\ DOMAIN timers = 1 .. Len(timers) /\ DOMAIN timers' = 1 .. Len(timers')
      /\ timers[i] \in Timer /\ timers[i].left \in Nat
  BY <1>1, TimersFacts, LenProperties
<1>3. timers'[i] = Older(timers[i]) /\ i \in DOMAIN timers'
  BY <1>1, <1>2
<1>4. \A r \in Timer : /\ Older(r).task = r.task /\ Older(r).tux = r.tux
                        /\ Older(r).left = IF r.left > 0 THEN r.left - 1 ELSE 0
  BY DEF Older, Timer
<1>5. /\ timers'[i].task = timers[i].task /\ timers'[i].tux = timers[i].tux
      /\ timers'[i].left <= timers[i].left
  BY <1>2, <1>3, <1>4
<1> QED
  BY <1>3, <1>5 DEF Kept

\* The walk removes the task it is at, and no other.
LEMMA KeptFires ==
    ASSUME TypeOK, NEW kinds, Fires(kinds), NEW i \in DOMAIN timers, i # walk
    PROVE  Kept(i)
<1>1. walk \in DOMAIN timers /\ timers' = Without(walk)
  BY DEF Fires
<1>2. PICK j \in DOMAIN timers' : Old(j, walk) = i
  BY <1>1, RemovedFacts
<1>3. timers'[j] = timers[i] /\ timers[i].left \in Nat
  BY <1>1, <1>2, RemovedFacts, TimersFacts
<1> QED
  BY <1>3 DEF Kept

\* What the walk removes it has done.
LEMMA FiredIsDone ==
    ASSUME TypeOK, TimerEvent, NEW i \in DOMAIN timers, ~Kept(i)
    PROVE  Done(i)
<1>1. ~(StartTimers \/ Keep \/ FinishTimers)
  BY KeptUnchanged DEF StartTimers, Keep, FinishTimers
<1>2. (\E kinds : Fires(kinds)) /\ i = walk
  BY <1>1, KeptFires DEF TimerEvent, FiresForNobody, SpawnTux, TuxCanShot, TuxCanSwitchGun,
                         AddShot, EndArena
<1>3. /\ timers[i].task \in TuxTasks => timers[i].tux \in Tuxes
      /\ tux \in [Tuxes -> TuxRecord]
  BY TimersFacts DEF TypeOK
<1>4. CASE FiresForNobody
  BY <1>2, <1>3, <1>4 DEF FiresForNobody, Fires, Done
<1>5. CASE SpawnTux
  <2>1. timers[walk].task = "spawn" /\ timers[walk].tux \in Tuxes
    BY <1>2, <1>3, <1>5 DEF SpawnTux, Fires, TuxTasks
  <2>2. PICK t \in Tuxes : t = timers[walk].tux
    BY <2>1
  <2>3. tux'[t].status = "alive"
    BY <1>3, <1>5, <2>2 DEF SpawnTux, TuxRecord
  <2> QED
    BY <1>2, <1>3, <2>1, <2>2, <2>3 DEF Done
<1>6. CASE TuxCanShot
  <2>1. timers[walk].task = "canShot" /\ timers[walk].tux \in Tuxes
    BY <1>2, <1>3, <1>6 DEF TuxCanShot, Fires, TuxTasks
  <2>2. PICK t \in Tuxes : t = timers[walk].tux
    BY <2>1
  <2>3. tux'[t].canShot
    BY <1>3, <1>6, <2>2 DEF TuxCanShot, TuxRecord
  <2> QED
    BY <1>2, <1>3, <2>1, <2>2, <2>3 DEF Done
<1>7. CASE TuxCanSwitchGun
  <2>1. timers[walk].task = "canSwitch" /\ timers[walk].tux \in Tuxes
    BY <1>2, <1>3, <1>7 DEF TuxCanSwitchGun, Fires, TuxTasks
  <2>2. PICK t \in Tuxes : t = timers[walk].tux
    BY <2>1
  <2>3. tux'[t].canSwitch
    BY <1>3, <1>7, <2>2 DEF TuxCanSwitchGun, TuxRecord
  <2> QED
    BY <1>2, <1>3, <2>1, <2>2, <2>3 DEF Done
<1>8. CASE AddShot
  BY <1>2, <1>3, <1>8 DEF AddShot, Fires, Done
<1>9. CASE EndArena
  BY <1>2, <1>3, <1>9 DEF EndArena, Fires, Done
<1> QED
  BY <1>1, <1>4, <1>5, <1>6, <1>7, <1>8, <1>9 DEF TimerEvent

\* No step loses a task or puts it off, but for the loading of a saved game.
LEMMA NoTaskIsLost ==
    ASSUME IInv, [Next]_vars, ~LoadArena, NEW i \in DOMAIN timers
    PROVE  Kept(i) \/ Done(i)
<1>1. TypeOK /\ Touching
  BY DEF IInv
<1>2. ASSUME NEW t \in Tuxes, TuxStep(t) PROVE Kept(i)
  <2>1. \/ UNCHANGED timers
        \/ SwitchTuxGun(t) \/ \E r : AfterShot(t, r)
    BY <1>2 DEF TuxStep, Join, Leave, Move, ShotTux, PutMine, PutNoMine, TuxEvent
  <2> QED
    BY <1>1, <2>1, KeptUnchanged, KeptAdded
<1>3. ASSUME NEW k \in Items, Touch(k) PROVE Kept(i)
  <2>1. k \in touched
    BY <1>3 DEF Touch, GiveGun, GiveBonus, StepOnMine, StepInExplosion, NextTouch
  <2>2. PICK t \in Tuxes : t = toucher
    BY <1>1, <2>1 DEF Touching
  <2>3. UNCHANGED timers \/ Die(t)
    BY <1>3, <2>2 DEF Touch, GiveGun, GiveBonus, StepOnMine, StepInExplosion
  <2> QED
    BY <1>1, <2>3, KeptUnchanged, KeptAdded
<1>4. ASSUME NEW s \in flying, ShotStep(s) PROVE Kept(i)
  <2>1. UNCHANGED timers \/ \E t \in Tuxes : Die(t)
    BY <1>4 DEF ShotStep, ShotMissesTeleport, BombBallExplosion, ShotKills, ShotHitsMine,
                ShotEnds, ShotTurns
  <2> QED
    BY <1>1, <2>1, KeptUnchanged, KeptAdded
<1>5. CASE Tick
  BY <1>1, <1>5, KeptTick
<1>6. CASE TimerEvent
  BY <1>1, <1>6, FiredIsDone
<1>7. ASSUME NEW k \in Items, ExplosionEnds(k) PROVE Kept(i)
  BY <1>1, <1>7, KeptUnchanged DEF ExplosionEnds
<1>8. UNCHANGED timers => Kept(i)
  BY <1>1, KeptUnchanged
<1> QED
  BY <1>2, <1>3, <1>4, <1>5, <1>6, <1>7, <1>8 DEF Next, Rest, vars

\* The task of this kind that t waits for is there after the step, and no farther away.
Nearer(task, t) ==
    \A i \in Pending(task, t) : \E j \in Pending(task, t)' : timers'[j].left <= timers[i].left

\* As long as a tux is dead, its respawn is not put off: nothing that meets the corpse,
\* no other timer and no departure loses the spawn timer or sets it anew.  The same of
\* the reload and the change of guns a tux waits for, and of the end of the match
\* (base/tux.c, base/myTimer.c, screen/world.c).  Only the loading of a saved game drops
\* every task (saveLoad.c:98-261); it leaves nobody waiting for a reload or for a change
\* of guns.  With OneSpawn, OneReload and EndIsPending, which say that there is exactly
\* one such timer, this is what Respawns takes from the steps; that time passes and
\* timer_event is called is left to fairness.
THEOREM NothingIsPutOff ==
    Spec => [][/\ ~LoadArena =>
                     /\ \A t \in Tuxes : Dead(t) /\ Dead(t)' => Nearer("spawn", t)
                     /\ ~ended' => Nearer("end", NoTux)
               /\ \A t \in Tuxes : Present(t) /\ ~tux'[t].canShot => Nearer("canShot", t)
               /\ \A t \in Tuxes : Present(t) /\ ~tux'[t].canSwitch => Nearer("canSwitch", t)]_vars
<1> DEFINE Step == /\ ~LoadArena =>
                         /\ \A t \in Tuxes : Dead(t) /\ Dead(t)' => Nearer("spawn", t)
                         /\ ~ended' => Nearer("end", NoTux)
                   /\ \A t \in Tuxes : Present(t) /\ ~tux'[t].canShot => Nearer("canShot", t)
                   /\ \A t \in Tuxes : Present(t) /\ ~tux'[t].canSwitch => Nearer("canSwitch", t)
<1>1. ASSUME IInv, [Next]_vars, ~LoadArena PROVE Step
  <2>1. ASSUME NEW task, NEW t, NEW i \in Pending(task, t), Kept(i)
        PROVE  \E j \in Pending(task, t)' : timers'[j].left <= timers[i].left
    BY <2>1 DEF Kept, Pending
  <2>2. ASSUME NEW task, NEW t, NEW i \in Pending(task, t), ~Kept(i)
        PROVE  timers[i].task = task /\ timers[i].tux = t /\ Done(i)
    BY <1>1, <2>2, NoTaskIsLost DEF Pending
  <2>3. ASSUME NEW t \in Tuxes, Dead(t), Dead(t)' PROVE Nearer("spawn", t)
    BY <2>1, <2>2, <2>3 DEF Nearer, Done, Present, Dead
  <2>4. ASSUME NEW t \in Tuxes, Present(t), ~tux'[t].canShot PROVE Nearer("canShot", t)
    BY <2>1, <2>2, <2>4 DEF Nearer, Done
  <2>5. ASSUME NEW t \in Tuxes, Present(t), ~tux'[t].canSwitch PROVE Nearer("canSwitch", t)
    BY <2>1, <2>2, <2>5 DEF Nearer, Done
  <2>6. ASSUME ~ended' PROVE Nearer("end", NoTux)
    BY <2>1, <2>2, <2>6 DEF Nearer, Done, TuxTasks
  <2> QED
    BY <2>3, <2>4, <2>5, <2>6
<1>2. ASSUME IInv, LoadArena PROVE Step
  <2>1. ASSUME NEW t \in Tuxes PROVE tux'[t].canShot /\ tux'[t].canSwitch
    <3>1. tux[t] \in TuxRecord
      BY <1>2 DEF IInv, TypeOK
    <3>2. tux'[t] = [tux[t] EXCEPT !.canShot = TRUE, !.canSwitch = TRUE]
      BY <1>2 DEF LoadArena
    <3> QED
      BY <3>1, <3>2 DEF TuxRecord
  <2> QED
    BY <1>2, <2>1
<1> HIDE DEF Step
<1>3. IInv /\ [Next]_vars => Step
  BY <1>1, <1>2
<1>4. Spec => [][Step]_vars
  BY <1>3, IInvHolds, PTL DEF Spec
<1> QED
  BY <1>4 DEF Step

\* timer_event has the program to itself while it walks: nobody is touching items.
Alone == walk # 0 => touched = {}

\* What is left of the list for the walk to look at.
Ahead == Len(timers) + 1 - walk

\* timer_event walks through the list of timers without looking at one twice or passing
\* one over, although the tasks it does remove themselves under it: with every step it
\* has one task less ahead of it, until there is none (base/myTimer.c).
THEOREM TimerWalkEnds ==
    Spec => [][walk # 0 =>
                \/ UNCHANGED <<walk, timers>>
                \/ Ahead = 0 /\ walk' = 0
                \/ Ahead > 0 /\ Ahead' = Ahead - 1]_vars
<1> DEFINE Step == walk # 0 => \/ UNCHANGED <<walk, timers>>
                               \/ Ahead = 0 /\ walk' = 0
                               \/ Ahead > 0 /\ Ahead' = Ahead - 1
<1>1. Init => Alone
  BY DEF Init, Alone
<1>2. ASSUME TypeOK, Touching, Alone, [Next]_vars PROVE Alone'
  <2>1. CASE UNCHANGED <<walk, touched>>
    BY <1>2, <2>1 DEF Alone
  <2>2. walk' = 0 => Alone'
    BY DEF Alone
  <2>3. CASE StartTimers
    BY <1>2, <2>3, TuxAssumption DEF StartTimers, Idle, Touching, Alone
  <2>4. CASE Keep \/ FinishTimers
    BY <1>2, <2>2, <2>4, TimersFacts DEF Keep, FinishTimers, Alone
  <2>5. (\E t \in Tuxes : TuxStep(t)) => walk' = 0
    BY DEF TuxStep, Join, Leave, Move, SwitchTuxGun, ShotTux, PutMine, PutNoMine, TuxEvent,
           CanShoot, Idle
  <2>6. (\E i \in Items : Touch(i)) => walk' = 0
    BY <1>2 DEF Touch, GiveGun, GiveBonus, StepOnMine, StepInExplosion, NextTouch, Alone
  <2>7. (\E i \in Items : ExplosionEnds(i)) \/ (\E s \in flying : ShotStep(s)) \/ Tick
            \/ LoadArena \/ Rest
            => UNCHANGED <<walk, touched>>
    BY DEF ExplosionEnds, ShotStep, ShotMissesTeleport, BombBallExplosion, ShotKills,
           ShotHitsMine, ShotEnds, ShotTurns, Tick, LoadArena, Rest, vars
  <2>8. FiresForNobody \/ SpawnTux \/ TuxCanShot \/ TuxCanSwitchGun \/ AddShot \/ EndArena
            => UNCHANGED <<walk, touched>>
    BY DEF Fires, FiresForNobody, SpawnTux, TuxCanShot, TuxCanSwitchGun, AddShot, EndArena
  <2> QED
    BY <1>2, <2>1, <2>2, <2>3, <2>4, <2>5, <2>6, <2>7, <2>8 DEF Next, TimerEvent, vars
<1>3. ASSUME TypeOK, Alone, [Next]_vars, walk # 0 PROVE Step
  <2>1. Len(timers) \in Nat /\ DOMAIN timers = 1 .. Len(timers) /\ walk \in 0 .. Len(timers) + 1
    BY <1>3, TimersFacts DEF TypeOK
  <2>2. CASE Keep
    <3>1. walk' = walk + 1 /\ timers' = timers /\ walk \in DOMAIN timers
      BY <2>2 DEF Keep
    <3> QED
      BY <2>1, <3>1 DEF Ahead
  <2>3. CASE FinishTimers
    BY <2>1, <2>3 DEF FinishTimers, Ahead
  <2>4. ASSUME NEW kinds, Fires(kinds) PROVE Step
    <3>1. walk \in DOMAIN timers /\ timers' = Without(walk) /\ walk' = walk
      BY <2>4 DEF Fires
    <3>2. Len(timers') = Len(timers) - 1
      BY <1>3, <3>1, Removing DEF TypeOK
    <3> QED
      BY <2>1, <3>1, <3>2 DEF Ahead
  <2>5. ~\E t \in Tuxes : TuxStep(t)
    BY <1>3 DEF TuxStep, Join, Leave, Move, SwitchTuxGun, ShotTux, PutMine, PutNoMine, TuxEvent,
                CanShoot, Idle
  <2>6. ~\E i \in Items : Touch(i) \/ ExplosionEnds(i)
    BY <1>3 DEF Touch, GiveGun, GiveBonus, StepOnMine, StepInExplosion, NextTouch, Alone,
                ExplosionEnds, Idle
  <2>7. ~\E s \in flying : ShotStep(s)
    BY <1>3 DEF ShotStep, ShotMissesTeleport, BombBallExplosion, ShotKills, Hits, ShotHitsMine,
                ShotEnds, ShotTurns, Idle
  <2>8. ~(Tick \/ LoadArena \/ Rest \/ StartTimers)
    BY <1>3 DEF Tick, LoadArena, Rest, StartTimers, Idle
  <2>9. CASE TimerEvent
    BY <2>2, <2>3, <2>4, <2>8, <2>9 DEF TimerEvent, FiresForNobody, SpawnTux, TuxCanShot,
                                         TuxCanSwitchGun, AddShot, EndArena
  <2> QED
    BY <1>3, <2>5, <2>6, <2>7, <2>8, <2>9 DEF Next, vars
<1>4. IInv => TypeOK /\ Touching
  BY DEF IInv
<1>5. IInv /\ Alone /\ [Next]_vars => Alone' /\ Step
  BY <1>2, <1>3, <1>4
<1> HIDE DEF Step
<1>6. Spec => [][Step]_vars
  BY <1>1, <1>5, IInvHolds, PTL DEF Spec
<1> QED
  BY <1>6 DEF Step

=============================================================================
