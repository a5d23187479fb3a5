------------------------------ MODULE MCWeapon ------------------------------
(* Two callers, the command processing thread and the console thread, and the *)
(* periodic thread around one weapon.                                         *)
EXTENDS Weapon

CONSTANTS console, processing

MCCallers == {console, processing}
=============================================================================
