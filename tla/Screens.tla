------------------------------ MODULE Screens -------------------------------
(***************************************************************************)
(* What all screens of the client program share (client/screen.c,          *)
(* client/hotKey.c, eventAction of client/interface.c): one current screen *)
(* and one to come, the list of hot keys, and the order within a tick: the *)
(* event of the screen, one hot key, the switch of screens.                *)
(***************************************************************************)
EXTENDS Integers, Sequences, FiniteSets, SequencesExt

CONSTANT
    Rest            \* ticks within HOTKEY_ACTIVE_INTERVAL

ASSUME ScreensAssumption == Rest \in Nat

VARIABLES
    phase,          \* "run", "off", or what stopped the program
    screen,         \* currentScreen
    future,         \* futureScreen, "none" for NULL
    at,             \* "event", "recv", "finish", "keys", "stop" or "start": next in the tick
    hot,            \* [keys |-> listHotKey, failed |-> fatal was called]
    rest            \* ticks until a hot key may fire again

\* The screens but world and downArena: what ESCAPE shows next.
EscapeTo == [gameType |-> "mainMenu", chiceArena |-> "gameType", browser |-> "gameType",
             setting |-> "mainMenu", settingKeys |-> "setting", table |-> "mainMenu",
             credits |-> "mainMenu", analyze |-> "mainMenu"]

Menus == DOMAIN EscapeTo \cup {"mainMenu"}

-----------------------------------------------------------------------------
(* Hot keys.  "of" names the handler; the first entry of a key is the one   *)
(* that is found.                                                           *)

Entry(key, of) == [key |-> key, of |-> of, on |-> TRUE]

First(h, key) == SelectInSeq(h.keys, LAMBDA e : e.key = key)

Register(h, key, of) == [h EXCEPT !.keys = <<Entry(key, of)>> \o @]

\* The numbers in S, the least first.
InOrder(S) == [i \in 1 .. Cardinality(S) |-> CHOOSE k \in S : Cardinality({j \in S : j <= k}) = i]

\* hot_key_unregister for each of a set of keys.
Unregister(h, keys) ==
    LET found == {First(h, key) : key \in keys}
        left == InOrder(DOMAIN h.keys \ found) IN
      [keys |-> [i \in DOMAIN left |-> h.keys[left[i]]], failed |-> h.failed \/ 0 \in found]

\* hot_key_enable and hot_key_disable for each of a set of keys.
SetActive(h, keys, on) ==
    LET found == {First(h, key) : key \in keys} IN
      [keys |-> [i \in DOMAIN h.keys |->
                   IF i \in found THEN [h.keys[i] EXCEPT !.on = on] ELSE h.keys[i]],
       failed |-> h.failed \/ 0 \in found]

\* The first active entry of a key fires, and then none for a while.
Pressed == {e \in ToSet(hot.keys) : e.on /\
    LET i == SelectInSeq(hot.keys, LAMBDA f : f.key = e.key /\ f.on) IN hot.keys[i] = e}

Rests == rest > 0

-----------------------------------------------------------------------------
(* The tick.                                                                *)

Runs(step) == phase = "run" /\ at = step

\* screen_set; the last call of a tick is the one that counts.
ScreenSet(name) == future' = name

\* hot_key_event of a tick in which no key is pressed, or too early.
NoHotKey ==
    /\ Runs("keys")
    /\ rest' = IF Rests THEN rest - 1 ELSE 0
    /\ at' = "stop"
    /\ UNCHANGED <<phase, screen, future, hot>>

\* screen_switch without a screen to switch to.
NoSwitch ==
    /\ Runs("stop") /\ future = "none"
    /\ at' = "event"
    /\ UNCHANGED <<phase, screen, future, hot, rest>>

\* fce_stop of the current screen, with what it does to the list of hot keys.
Stops(name, h) ==
    /\ Runs("stop") /\ future # "none" /\ screen = name
    /\ hot' = h /\ phase' = IF h.failed THEN "no key" ELSE phase
    /\ at' = "start"
    /\ UNCHANGED <<screen, future, rest>>

\* fce_start of the screen to come.
Starts(name, h) ==
    /\ Runs("start") /\ future = name
    /\ screen' = name /\ future' = "none"
    /\ hot' = h
    /\ at' = "event"
    /\ UNCHANGED rest
=============================================================================
