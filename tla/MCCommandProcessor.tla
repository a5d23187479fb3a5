------------------------- MODULE MCCommandProcessor -------------------------
(* Two submitters, a few commands and stacks that overflow. *)
EXTENDS CommandProcessor

CONSTANTS c1, c2, dds, console

MCCommands == {c1, c2}
MCSubmitters == {dds, console}
MCOneSubmitter == {dds}
=============================================================================
