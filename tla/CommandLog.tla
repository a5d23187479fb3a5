----------------------------- MODULE CommandLog -----------------------------
(***************************************************************************)
(* What the command processor promises about the commands given to it: a   *)
(* command runs at most once on its own account, only what took effect is  *)
(* ever undone, only what was undone is ever redone, and what starts to    *)
(* run comes to an end.  Module CommandProcessor implements it.            *)
(***************************************************************************)
CONSTANT Commands

VARIABLE status    \* per command

Statuses == {"new", "pending", "running", "applied", "undone", "dead"}

Init == status = [c \in Commands |-> "new"]

Becomes(c, from, to) ==
    /\ status[c] \in from
    /\ status' = [status EXCEPT ![c] = to]

Submit(c) == Becomes(c, {"new"}, "pending")

\* Off the queue, or at once in the caller's thread.
Begin(c) == Becomes(c, {"new", "pending"}, "running")

End(c) == Becomes(c, {"running"}, "applied") \/ Becomes(c, {"running"}, "dead")

Undo(c) == Becomes(c, {"applied"}, "undone")

Redo(c) == Becomes(c, {"undone"}, "applied")

\* Commands found invalid, left in the queue when the processor stops, or no
\* longer redoable.
Discard == \E S \in SUBSET Commands :
    /\ \A c \in S : status[c] \in {"new", "pending", "undone"}
    /\ status' = [c \in Commands |-> IF c \in S THEN "dead" ELSE status[c]]

Next ==
    \/ \E c \in Commands : Submit(c) \/ Begin(c) \/ End(c) \/ Undo(c) \/ Redo(c)
    \/ Discard

Spec == Init /\ [][Next]_status
FairSpec == Spec /\ \A c \in Commands : WF_status(End(c))
=============================================================================
