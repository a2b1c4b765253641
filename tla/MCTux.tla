-------------------------------- MODULE MCTux --------------------------------
(* Small instances of Tux for TLC. *)
EXTENDS Tux

CONSTANTS t1, t2, i1

Two == {t1, t2}
OnlyOne == {t1}
Nets == {t2}
None == {}

OneItem == {i1}

SimpleOnly == {GUN_SIMPLE}
Tommy == {GUN_SIMPLE, GUN_TOMMY}
Balls == {GUN_SIMPLE, GUN_MINE, GUN_BOMBBALL}

TeleportAndGhost == {BONUS_TELEPORT, BONUS_GHOST}

\* The first shot of a volley is due at once, the last one before the respawn.
TwoShots == <<0, 2>>
OneShot == <<1>>
=============================================================================
