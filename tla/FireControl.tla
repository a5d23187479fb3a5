----------------------------- MODULE FireControl -----------------------------
(***************************************************************************)
(* What a weapon promises to whoever watches only whether it has been      *)
(* fired: nothing is fired without a fire solution, a launch that has      *)
(* begun ends in a fired weapon, and a fired weapon stays fired until its  *)
(* tube drops it and takes a new one.  It promises nothing of a weapon     *)
(* that is used before it is initialised.  Module Weapon implements it.    *)
(***************************************************************************)
VARIABLES
    phase,      \* "safe", "launching", "fired", "dropped" or "disputed"
    solution    \* there is a fire solution

Init == phase = "dropped" /\ solution = FALSE

\* The engagement is planned; the plan of a dropped or disputed weapon may be lost.
Solve ==
    /\ solution' \in BOOLEAN
    /\ solution' \/ phase \in {"dropped", "disputed"}
    /\ UNCHANGED phase

Begin == phase = "safe" /\ solution /\ phase' = "launching" /\ UNCHANGED solution

Fire == phase = "launching" /\ phase' = "fired" /\ UNCHANGED solution

\* The tube drops the weapon, but never in the middle of a launch.
Drop ==
    /\ phase \in {"safe", "fired", "disputed"}
    /\ phase' = "dropped" /\ solution' \in {solution, FALSE}

Renew == phase = "dropped" /\ phase' = "safe" /\ solution' = FALSE

\* Somebody uses the weapon before it is initialised, or another takes its place.
Dispute ==
    /\ phase # "disputed" /\ phase' = "disputed"
    /\ solution' \in {solution, FALSE}

Next == Solve \/ Begin \/ Fire \/ Drop \/ Renew \/ Dispute

Spec == Init /\ [][Next]_<<phase, solution>>
FairSpec == Spec /\ WF_<<phase, solution>>(Fire)
=============================================================================
