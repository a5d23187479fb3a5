----------------------------- MODULE MCCommands -----------------------------
(***************************************************************************)
(* One call at a time over two tubes, the second under direct control: one *)
(* of two requests can fail, or the tubes be in different states.  Calls   *)
(* that overlap on one tube.  One entry in each stack: LIFO is the matter  *)
(* of CommandProcessor.                                                    *)
(***************************************************************************)
EXTENDS Commands

CONSTANTS p1

MCTubes == 1..2
MCPoints == {p1}
Valid == [pos |-> p1, bValid |-> TRUE]
Invalid == [pos |-> p1, bValid |-> FALSE]
\* A message with an invalid waypoint, and one more than counts.
Longer == [stGeoPos |-> <<Valid, Invalid, Valid>>, unCntWaypoints |-> 2]
MCMessages == {Longer}
On(t) == [kind |-> "control", tube |-> t, target |-> "ON"]
Off(t) == [kind |-> "control", tube |-> t, target |-> "OFF"]
Launch(t) == [kind |-> "control", tube |-> t, target |-> "LAUNCH"]
Assign(t, w) == [kind |-> "assign", tube |-> t, weapon |-> w]
Unassign(t) == [kind |-> "unassign", tube |-> t]
Waypoints(t, m) == [kind |-> "waypoints", tube |-> t, message |-> m]
Stop == [kind |-> "stop"]
All(state) == [kind |-> "all", target |-> state]

MCIssued == {Assign(1, "ALM"), Unassign(1), Waypoints(1, Longer), Launch(1), All("ON"), Stop}
MCDirect == {Assign(2, "M_MINE")}
\* With overlapping calls one tube is enough to find an undo that launches.
MCOneTube == {1}
MCIssuedToOne == {On(1), Off(1)}
MCDirectToOne == {Assign(1, "ALM"), On(1), Launch(1), Waypoints(1, Longer)}
=============================================================================
