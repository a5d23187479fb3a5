--------------------------- MODULE MCMineDropPlan ---------------------------
(***************************************************************************)
(* Two lists of at most two plans: two valid plans share their planNumber  *)
(* and two their sListID, one plan has no sListID and one has a waypoint   *)
(* out of range.  The lists that are sent can be too long, hold a plan     *)
(* that is not valid, or a planNumber twice.                               *)
(***************************************************************************)
EXTENDS MineDropPlan, TLC

CONSTANTS l1, l2, near, far, direct, detour, astray

MCLists == {l1, l2}
MCOutlines == {near, far}
MCDetails == {direct, detour, astray}
First == [planNumber |-> 1, sListID |-> 1, outline |-> near, detail |-> direct]
Same == [planNumber |-> 1, sListID |-> 2, outline |-> far, detail |-> direct]
Second == [planNumber |-> 2, sListID |-> 1, outline |-> near, detail |-> detour]
Unlisted == [planNumber |-> 2, sListID |-> 0, outline |-> near, detail |-> direct]
Astray == [planNumber |-> 3, sListID |-> 3, outline |-> far, detail |-> astray]
MCPlans == {First, Same, Second, Unlisted, Astray}
MCEditedLists ==
    {<<Second, First>>, <<Same, First>>, <<First, Second, Same>>, <<Unlisted>>, <<Astray>>}
MCSymmetry == Permutations(MCLists)
=============================================================================
