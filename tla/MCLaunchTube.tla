---------------------------- MODULE MCLaunchTube ----------------------------
(***************************************************************************)
(* The processing thread and the console thread around one tube, with the  *)
(* DDS and the periodic thread.  Safety: two callers, an own ship and a    *)
(* target.  Liveness: one caller, a target and two routes.                 *)
(***************************************************************************)
EXTENDS LaunchTube

CONSTANTS processing, console, s1, t1, r1, r2

MCCallers == {processing, console}
MCOneCaller == {processing}
MCShips == {s1}
MCNoShips == {}
MCTargets == {t1}
MCRoutes == {r1, r2}
MCNoRoutes == {}
=============================================================================
