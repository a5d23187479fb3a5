---------------------------- MODULE MCController ----------------------------
(***************************************************************************)
(* One tube, two messages out of a command of each kind and one notice for *)
(* each way through the handlers, and one signal: enough for a message     *)
(* before and one during the shutdown, for a handler at every step of the  *)
(* main thread and for the Stop of the main thread that follows it.        *)
(***************************************************************************)
EXTENDS Controller, TLC

CONSTANT t1

MCTubes == {t1}
MCCommands == {[kind |-> "assign", tube |-> t1], [kind |-> "control", tube |-> t1]}
MCNotices == {"ship", "request", "edited"}
=============================================================================
