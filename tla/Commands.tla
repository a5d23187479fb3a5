------------------------------ MODULE Commands ------------------------------
(***************************************************************************)
(* Commands/AssignCommand.cpp and ControlCommand.cpp: what the commands    *)
(* record, do and undo, on the launch tubes.  The processing thread runs   *)
(* Execute, a caller of the CommandProcessor runs Undo and Execute again   *)
(* (redo), the console controls the tubes directly.  A job goes from tube  *)
(* to tube; a request holds the mutex of a weapon while it is switched on  *)
(* or launched, and the periodic thread stores over it without.  Queue and *)
(* undo stacks are reduced to what they offer: see CommandProcessor; the   *)
(* weapon to its states: see Weapon.                                       *)
(***************************************************************************)
EXTENDS Naturals, Sequences, SequencesExt

CONSTANTS
    Tubes,         \* tube numbers, in the order of m_launchTubes
    Points,        \* positions
    Messages,      \* what waypoint messages carry
    Issued,        \* bound: the commands enqueued ...
    Direct,        \* ... and the calls made directly
    MaxUndo,       \* m_maxUndoStackSize
    Overlapping    \* several threads may be in calls at the same time

ASSUME TubesAssumption == Tubes \subseteq Nat
ASSUME MaxUndoAssumption == MaxUndo \in Nat \ {0}

States == {"NONE", "OFF", "POC", "ON", "RTL", "LAUNCH", "ABORT", "POST"}
Targets == {"ON", "OFF", "LAUNCH"}

Kinds == {"ALM", "ASM", "AAM", "WGT", "M_MINE"}

Waypoint == [pos : Points, bValid : BOOLEAN]

\* A waypoint message: the array stGeoPos and how many of it count.
ASSUME MessagesAssumption ==
    \A m \in Messages : m.stGeoPos \in Seq(Waypoint) /\ m.unCntWaypoints \in Nat

Command ==
    [kind : {"assign"}, tube : Tubes, weapon : Kinds]
    \cup [kind : {"unassign"}, tube : Tubes]
    \cup [kind : {"waypoints"}, tube : Tubes, message : Messages]
    \cup [kind : {"control"}, tube : Tubes, target : Targets]
    \cup [kind : {"all"}, target : Targets]
    \cup [kind : {"stop"}]

ASSUME IssuedAssumption ==
    /\ Issued \subseteq Command /\ Direct \subseteq Command
    /\ \A c \in Direct : c.kind \in {"assign", "unassign", "waypoints", "control", "stop"}

VARIABLES
    weapon,        \* state of the weapon in each tube, "NONE": not assigned
    route,         \* m_waypoints of its engagement manager, those of the plan too
    launched,      \* tubes whose weapon is launched
    holder,        \* who holds the mutex of the weapon
    update,        \* the periodic thread: the weapon it is in, and what it has read
    queued,        \* the command enqueued last, if it is not yet taken
    job,           \* what each thread does
    touched,       \* history: per thread, tubes that others changed during its job
    undoStack,
    redoStack

tubes == <<weapon, route, launched, holder>>
stacks == <<undoStack, redoStack>>
vars == <<tubes, update, queued, job, touched, stacks>>

Workers == {"processor", "api", "console"}
NoCommand == [kind |-> "none"]
Nobody == "nobody"
\* mode: "idle", "execute", "undo", "redo" or "direct"; previous: what the command
\* object has recorded; want: the requests still to make; ok: none has failed
Idle == [mode |-> "idle", cmd |-> NoCommand, previous |-> <<>>, want |-> <<>>,
         ok |-> TRUE]
Recorded(e) == IF e.cmd.kind = "waypoints" THEN Seq(Waypoint) ELSE States
Entry(e) == /\ e.cmd \in Command /\ DOMAIN e.previous \subseteq Tubes
            /\ \A t \in DOMAIN e.previous : e.previous[t] \in Recorded(e)
Asking == {"state", "stop", "assign", "initialize", "unassign", "route"}
NoUpdate == [tube |-> 0, seen |-> "NONE"]

TypeOK ==
    /\ weapon \in [Tubes -> States] /\ \A t \in Tubes : route[t] \in Seq(Waypoint)
    /\ launched \subseteq Tubes /\ holder \in [Tubes -> Workers \cup {Nobody}]
    /\ \A t \in Tubes : weapon[t] \in {"POC", "LAUNCH"} => holder[t] # Nobody
    /\ \A t \in Tubes : weapon[t] = "NONE" => route[t] = <<>> /\ t \notin launched
    /\ update \in [tube : Tubes, seen : {"ON", "RTL"}] \cup {NoUpdate}
    /\ queued \in Command \cup {NoCommand} /\ touched \in [Workers -> SUBSET Tubes]
    /\ \A w \in Workers : job[w].mode \in {"idle", "execute", "undo", "redo", "direct"}
                          /\ \A t \in DOMAIN job[w].want : job[w].want[t].ask \in Asking
    /\ Len(undoStack) <= MaxUndo /\ \A i \in DOMAIN undoStack : Entry(undoStack[i])
    /\ Len(redoStack) <= MaxUndo /\ \A i \in DOMAIN redoStack : Entry(redoStack[i])

Init ==
    /\ weapon = [t \in Tubes |-> "NONE"] /\ route = [t \in Tubes |-> <<>>]
    /\ launched = {} /\ holder = [t \in Tubes |-> Nobody]
    /\ update = NoUpdate /\ queued = NoCommand
    /\ job = [w \in Workers |-> Idle] /\ touched = [w \in Workers |-> {}]
    /\ undoStack = <<>> /\ redoStack = <<>>
----------------------------------------------------------------------------
(* What the tube manager and the factory answer *)

\* RegisterDefaultCreators: the kinds of weapon the factory can make.
IsWeaponSupported(weaponKind) == weaponKind \in {"ALM", "ASM", "M_MINE"}

Assigned == {t \in Tubes : weapon[t] # "NONE"}

CanAssignWeapon(t, weaponKind) == t \notin Assigned /\ IsWeaponSupported(weaponKind)

\* The default transition map.
IsValidTransition(from, to) ==
    to \in CASE from = "OFF" -> {"ON"}
             [] from = "ON" -> {"OFF"}
             [] from = "RTL" -> {"LAUNCH", "OFF"}
             [] from = "LAUNCH" -> {"ABORT"}
             [] from \in {"ABORT", "POST"} -> {"OFF"}
             [] OTHER -> {}

CanChangeState(t, to) == t \in Assigned /\ IsValidTransition(weapon[t], to)

IsValidWaypoint(p) == p.bValid

\* The waypoints of a message as the command takes them: the valid ones of those
\* that count ...
ExtractWaypointsFromMessage(m) ==
    SelectSeq(SubSeq(m.stGeoPos, 1, Min({m.unCntWaypoints, Len(m.stGeoPos)})),
              IsValidWaypoint)

\* ... and as the tube manager takes them: all valid ones.
MessageWaypoints(m) == SelectSeq(m.stGeoPos, IsValidWaypoint)

State(to) == [ask |-> "state", to |-> to]

\* What concerns a single tube.
Only(t, value) == [u \in {t} |-> value]

\* What every assigned tube is asked by the commands for all tubes.
OfAll(request) == [t \in Assigned |-> request]
----------------------------------------------------------------------------
(* The classes of commands.  Execute records the present state, without a  *)
(* lock (a member that is not recorded keeps its old value), and makes     *)
(* requests; Undo makes requests from what is recorded.                    *)

\* m_wasPreviouslyAssigned is recorded; Undo only warns if it is set.
AssignExecute(c, old) ==
    [previous |-> Only(c.tube, weapon[c.tube]),
     want |-> Only(c.tube, [ask |-> "assign", weapon |-> c.weapon])]
AssignUndo(e) == Only(e.cmd.tube, [ask |-> "unassign"])
AssignIsValid(c) == CanAssignWeapon(c.tube, c.weapon)

UnassignExecute(c, old) ==
    [previous |-> Only(c.tube, weapon[c.tube]),
     want |-> Only(c.tube, [ask |-> "unassign"])]
\* A warning, and success.
UnassignUndo(e) == <<>>
UnassignIsValid(c) == c.tube \in Assigned

WaypointsExecute(c, old) ==
    [previous |-> IF c.tube \in Assigned THEN Only(c.tube, route[c.tube]) ELSE old,
     want |-> Only(c.tube, [ask |-> "route",
                            route |-> ExtractWaypointsFromMessage(c.message)])]
WaypointsUndo(e) ==
    Only(e.cmd.tube, [ask |-> "route", route |-> e.previous[e.cmd.tube]])
WaypointsIsValid(c) ==
    c.tube \in Assigned \ launched /\ ExtractWaypointsFromMessage(c.message) # <<>>

ControlExecute(c, old) ==
    [previous |-> IF c.tube \in Assigned THEN Only(c.tube, weapon[c.tube]) ELSE old,
     want |-> Only(c.tube, State(c.target))]

\* Faulty variant of ControlUndo: m_targetState for m_previousState.
ControlUndoToTarget(e) == Only(e.cmd.tube, State(e.cmd.target))

ControlUndo(e) == Only(e.cmd.tube, State(e.previous[e.cmd.tube]))
ControlIsValid(c) == CanChangeState(c.tube, c.target)

AllExecute(c, old) ==
    [previous |-> [t \in Assigned |-> weapon[t]], want |-> OfAll(State(c.target))]
AllUndo(e) == [t \in DOMAIN e.previous |-> State(e.previous[t])]
AllIsValid(c) == Assigned # {} /\ \A t \in Assigned : CanChangeState(t, c.target)

StopExecute(c, old) ==
    [previous |-> [t \in Assigned |-> weapon[t]], want |-> OfAll([ask |-> "stop"])]
StopUndo(e) == [t \in DOMAIN e.previous |-> State(e.previous[t])]

IsValid(c) ==
    CASE c.kind = "assign" -> AssignIsValid(c)
      [] c.kind = "unassign" -> UnassignIsValid(c)
      [] c.kind = "waypoints" -> WaypointsIsValid(c)
      [] c.kind = "control" -> ControlIsValid(c)
      [] c.kind = "all" -> AllIsValid(c)
      [] c.kind = "stop" -> TRUE

Execute(c, old) ==
    CASE c.kind = "assign" -> AssignExecute(c, old)
      [] c.kind = "unassign" -> UnassignExecute(c, old)
      [] c.kind = "waypoints" -> WaypointsExecute(c, old)
      [] c.kind = "control" -> ControlExecute(c, old)
      [] c.kind = "all" -> AllExecute(c, old)
      [] c.kind = "stop" -> StopExecute(c, old)

Undo(e) ==
    CASE e.cmd.kind = "assign" -> AssignUndo(e)
      [] e.cmd.kind = "unassign" -> UnassignUndo(e)
      [] e.cmd.kind = "waypoints" -> WaypointsUndo(e)
      [] e.cmd.kind = "control" -> ControlUndo(e)
      [] e.cmd.kind = "all" -> AllUndo(e)
      [] e.cmd.kind = "stop" -> StopUndo(e)

\* The constructors: no waypoints, previous state OFF, no tubes.
FreshlyMade(c) ==
    CASE c.kind = "waypoints" -> Only(c.tube, <<>>)
      [] c.kind = "control" -> Only(c.tube, "OFF")
      [] OTHER -> <<>>

ExecuteJob(mode, c, old) ==
    LET execution == Execute(c, old)
    IN [mode |-> mode, cmd |-> c, previous |-> execution.previous,
        want |-> execution.want, ok |-> TRUE]

UndoJob(e) ==
    [mode |-> "undo", cmd |-> e.cmd, previous |-> e.previous, want |-> Undo(e),
     ok |-> TRUE]
----------------------------------------------------------------------------
(* Starting a job *)

MayStart(w) ==
    job[w].mode = "idle" /\ (Overlapping \/ \A v \in Workers : job[v].mode = "idle")

\* A job begins, or ends: nobody has changed anything since.
Starts(w, newJob) ==
    /\ job' = [job EXCEPT ![w] = newJob]
    /\ touched' = [touched EXCEPT ![w] = {}]

\* EnqueueCommand: the command is checked now, and executed later.
EnqueueCommand ==
    /\ queued = NoCommand
    /\ \E c \in Issued : IsValid(c) /\ queued' = c
    /\ UNCHANGED <<tubes, update, job, touched, stacks>>

ExecuteCommand ==
    /\ MayStart("processor") /\ queued # NoCommand
    /\ Starts("processor", ExecuteJob("execute", queued, FreshlyMade(queued)))
    /\ queued' = NoCommand
    /\ UNCHANGED <<tubes, update, stacks>>

UndoLastCommand ==
    /\ MayStart("api") /\ undoStack # <<>>
    /\ Starts("api", UndoJob(Last(undoStack)))
    /\ undoStack' = Front(undoStack)
    /\ UNCHANGED <<tubes, update, queued, redoStack>>

RedoCommand ==
    /\ MayStart("api") /\ redoStack # <<>>
    /\ Starts("api", ExecuteJob("redo", Last(redoStack).cmd, Last(redoStack).previous))
    /\ redoStack' = Front(redoStack)
    /\ UNCHANGED <<tubes, update, queued, undoStack>>

\* DirectAssignWeapon, DirectUnassignWeapon, DirectControlWeapon and
\* DirectEmergencyStop by the console, ProcessWaypointUpdate by the DDS thread: the
\* same requests, not checked by IsValid, with nothing to undo.
DirectRequests(c) ==
    IF c.kind = "waypoints"
    THEN Only(c.tube, [ask |-> "route", route |-> MessageWaypoints(c.message)])
    ELSE Execute(c, <<>>).want

DirectCall ==
    /\ MayStart("console")
    /\ \E c \in Direct :
          Starts("console", [mode |-> "direct", cmd |-> c, previous |-> <<>>,
                             want |-> DirectRequests(c), ok |-> TRUE])
    /\ UNCHANGED <<tubes, update, queued, stacks>>
----------------------------------------------------------------------------
(* From tube to tube *)

\* The tubes are asked in the order of their numbers.
NextTube(w, t) ==
    t \in DOMAIN job[w].want /\ \A u \in DOMAIN job[w].want : t <= u

\* Faulty variant of Answered: only the last tube counts.
LastAnswered(w, t, success) ==
    job' = [job EXCEPT ![w].want = [u \in DOMAIN job[w].want \ {t} |-> job[w].want[u]],
                       ![w].ok = success]

\* Tube t has answered, the next one is asked.
Answered(w, t, success) ==
    job' = [job EXCEPT ![w].want = [u \in DOMAIN job[w].want \ {t} |-> job[w].want[u]],
                       ![w].ok = @ /\ success]

\* A thread changes tube t: the jobs of the others are no longer alone with it.
Touch(w, t) ==
    touched' = [v \in Workers |->
        touched[v] \cup IF v # w /\ job[v].mode # "idle" THEN {t} ELSE {}]

\* Faulty variant of EmergencyStop: weapons that could not be launched are skipped.
EmergencyStopSkips(w, t) ==
    /\ NextTube(w, t) /\ job[w].want[t].ask = "stop"
    /\ CASE weapon[t] = "LAUNCH" -> job' = [job EXCEPT ![w].want[t] = State("ABORT")]
         [] weapon[t] = "RTL" -> job' = [job EXCEPT ![w].want[t] = State("OFF")]
         [] OTHER -> Answered(w, t, TRUE)
    /\ UNCHANGED <<tubes, update, queued, touched, stacks>>

\* EmergencyStop decides on a tube before it waits for the mutex of its weapon.
EmergencyStop(w, t) ==
    /\ NextTube(w, t) /\ job[w].want[t].ask = "stop"
    /\ job' = [job EXCEPT ![w].want[t] =
                   State(IF weapon[t] = "LAUNCH" THEN "ABORT" ELSE "OFF")]
    /\ UNCHANGED <<tubes, update, queued, touched, stacks>>

\* LaunchTubeManager::AssignWeapon: the factory makes the weapon and its manager,
\* the tube publishes them ...
AssignWeapon(w, t) ==
    /\ NextTube(w, t) /\ job[w].want[t].ask = "assign"
    /\ IF CanAssignWeapon(t, job[w].want[t].weapon)
       THEN /\ weapon' = [weapon EXCEPT ![t] = "OFF"]
            /\ job' = [job EXCEPT ![w].want[t] = [ask |-> "initialize"]]
            /\ Touch(w, t)
       ELSE Answered(w, t, FALSE) /\ UNCHANGED <<weapon, touched>>
    /\ UNCHANGED <<route, launched, holder, update, queued, stacks>>

\* ... and then initialises them, under the mutex.  If the tube has been cleared
\* meanwhile the program ends: see LaunchTube.
InitializeWeapon(w, t) ==
    /\ NextTube(w, t) /\ job[w].want[t].ask = "initialize"
    /\ t \in Assigned /\ holder[t] = Nobody
    /\ weapon' = [weapon EXCEPT ![t] = "OFF"]
    /\ launched' = launched \ {t}
    /\ Answered(w, t, TRUE) /\ Touch(w, t)
    /\ UNCHANGED <<route, holder, update, queued, stacks>>

\* What the periodic thread still stores into a weapon is lost with it.
Forget(t) == update' = IF update.tube = t THEN NoUpdate ELSE update

\* Faulty variant of UnassignWeapon: the engagement manager is kept.
UnassignKeepsRoute(w, t) ==
    /\ NextTube(w, t) /\ job[w].want[t].ask = "unassign" /\ holder[t] = Nobody
    /\ weapon' = [weapon EXCEPT ![t] = "NONE"]
    /\ launched' = launched \ {t}
    /\ Answered(w, t, t \in Assigned) /\ Touch(w, t) /\ Forget(t)
    /\ UNCHANGED <<route, holder, queued, stacks>>

\* ClearAssignment resets the weapon, under its mutex.
UnassignWeapon(w, t) ==
    /\ NextTube(w, t) /\ job[w].want[t].ask = "unassign" /\ holder[t] = Nobody
    /\ weapon' = [weapon EXCEPT ![t] = "NONE"]
    /\ route' = [route EXCEPT ![t] = <<>>]
    /\ launched' = launched \ {t}
    /\ Answered(w, t, t \in Assigned) /\ Touch(w, t) /\ Forget(t)
    /\ UNCHANGED <<holder, queued, stacks>>

UpdateWaypoints(w, t) ==
    /\ NextTube(w, t) /\ job[w].want[t].ask = "route"
    /\ route' = [route EXCEPT ![t] = IF t \in Assigned THEN job[w].want[t].route ELSE @]
    /\ Answered(w, t, t \in Assigned) /\ Touch(w, t)
    /\ UNCHANGED <<weapon, launched, holder, update, queued, stacks>>

\* RequestStateChange(to) gets the mutex of the weapon.
Asks(w, t, to) == NextTube(w, t) /\ job[w].want[t] = State(to) /\ holder[t] = Nobody

RequestRefused(w, t) ==
    /\ \E to \in States : Asks(w, t, to) /\ ~CanChangeState(t, to)
    /\ Answered(w, t, FALSE)
    /\ UNCHANGED <<tubes, update, queued, touched, stacks>>

TurnOff(w, t) ==
    /\ Asks(w, t, "OFF") /\ CanChangeState(t, "OFF")
    /\ weapon' = [weapon EXCEPT ![t] = "OFF"]
    /\ Answered(w, t, TRUE) /\ Touch(w, t)
    /\ UNCHANGED <<route, launched, holder, update, queued, stacks>>

\* Power-on check and launch take seconds, under the mutex.
BeginRequest(w, t) ==
    /\ \E to \in {"ON", "LAUNCH"} :
          /\ Asks(w, t, to) /\ CanChangeState(t, to)
          /\ weapon' = [weapon EXCEPT ![t] = IF to = "ON" THEN "POC" ELSE "LAUNCH"]
    /\ holder' = [holder EXCEPT ![t] = w]
    /\ Touch(w, t)
    /\ UNCHANGED <<route, launched, update, queued, job, stacks>>

\* Whatever the periodic thread has stored meanwhile, the request ends as it would.
FinishRequest(w, t) ==
    /\ holder[t] = w
    /\ LET launch == job[w].want[t] = State("LAUNCH")
       IN /\ weapon' = [weapon EXCEPT ![t] = IF launch THEN "POST" ELSE "ON"]
          /\ launched' = IF launch THEN launched \cup {t} ELSE launched
    /\ holder' = [holder EXCEPT ![t] = Nobody]
    /\ Answered(w, t, TRUE) /\ Touch(w, t)
    /\ UNCHANGED <<route, update, queued, stacks>>

\* The periodic thread reads the state of a weapon without its mutex ...
UpdateRead(t) ==
    /\ update = NoUpdate /\ weapon[t] \in {"ON", "RTL"}
    /\ update' = [tube |-> t, seen |-> weapon[t]]
    /\ UNCHANGED <<tubes, queued, job, touched, stacks>>

\* ... and stores the other of ON and RTL over whatever it has become, or leaves it:
\* when its interlock conditions hold is the matter of Weapon.
UpdateStore ==
    /\ update # NoUpdate
    /\ \/ /\ weapon' = [weapon EXCEPT ![update.tube] =
                            IF update.seen = "ON" THEN "RTL" ELSE "ON"]
          /\ IF weapon[update.tube] = update.seen THEN UNCHANGED touched
             ELSE Touch("periodic", update.tube)
       \/ UNCHANGED <<weapon, touched>>
    /\ update' = NoUpdate
    /\ UNCHANGED <<route, launched, holder, queued, job, stacks>>
----------------------------------------------------------------------------
(* The end of a job *)

Done(w) == job[w].mode # "idle" /\ job[w].want = <<>>

EntryOf(w) == [cmd |-> job[w].cmd, previous |-> job[w].previous]

\* The oldest entry is dropped when the stack is full.
Pushed(stack, w) ==
    LET longer == Append(stack, EntryOf(w))
    IN IF Len(longer) > MaxUndo THEN Tail(longer) ELSE longer

\* m_undoRedoMutex: ExecuteCommand waits until undo or redo is over.
ReturnFromExecute ==
    /\ Done("processor")
    /\ IF job["processor"].ok
       THEN /\ job["api"].mode = "idle"
            /\ undoStack' = Pushed(undoStack, "processor") /\ redoStack' = <<>>
       ELSE UNCHANGED stacks
    /\ Starts("processor", Idle)
    /\ UNCHANGED <<tubes, update, queued>>

\* Whether it failed or not, the command goes on one of the stacks.
ReturnFromUndo ==
    /\ Done("api") /\ job["api"].mode = "undo"
    /\ IF job["api"].ok
       THEN redoStack' = Pushed(redoStack, "api") /\ UNCHANGED undoStack
       ELSE undoStack' = Append(undoStack, EntryOf("api")) /\ UNCHANGED redoStack
    /\ Starts("api", Idle)
    /\ UNCHANGED <<tubes, update, queued>>

ReturnFromRedo ==
    /\ Done("api") /\ job["api"].mode = "redo"
    /\ IF job["api"].ok
       THEN undoStack' = Pushed(undoStack, "api") /\ UNCHANGED redoStack
       ELSE redoStack' = Append(redoStack, EntryOf("api")) /\ UNCHANGED undoStack
    /\ Starts("api", Idle)
    /\ UNCHANGED <<tubes, update, queued>>

ReturnFromDirect ==
    /\ Done("console")
    /\ Starts("console", Idle)
    /\ UNCHANGED <<tubes, update, queued, stacks>>

Return == ReturnFromExecute \/ ReturnFromUndo \/ ReturnFromRedo \/ ReturnFromDirect

Next ==
    \/ EnqueueCommand \/ ExecuteCommand \/ UndoLastCommand \/ RedoCommand \/ DirectCall
    \/ \E w \in Workers, t \in Tubes :
         \/ EmergencyStop(w, t) \/ AssignWeapon(w, t) \/ InitializeWeapon(w, t)
         \/ UnassignWeapon(w, t)
         \/ UpdateWaypoints(w, t) \/ RequestRefused(w, t) \/ TurnOff(w, t)
         \/ BeginRequest(w, t) \/ FinishRequest(w, t)
    \/ UpdateStore \/ \E t \in Tubes : UpdateRead(t)
    \/ Return

Spec == Init /\ [][Next]_vars
----------------------------------------------------------------------------
(* Properties *)

\* What the periodic update makes of a state.
Up(state) == IF state = "RTL" THEN "ON" ELSE state

\* An undo that reports success has brought every tube of the command, unless some
\* other thread has changed it under way, back to what the command found when it was
\* executed, up to ON becoming RTL: whatever other commands, direct calls, failed
\* undos and redos came in between or at the same time.  The tube of an assignment is
\* empty again; the commands that recorded a launch are the matter of
\* UndoNeverLaunches; undoing an UnassignCommand reports success and restores nothing.
UndoRestores ==
    [][\A w \in Workers :
         Done(w) /\ job[w].mode = "undo" /\ job[w].ok /\ job'[w].mode = "idle"
             /\ job[w].cmd.kind # "unassign" =>
         \A t \in DOMAIN job[w].previous \ touched[w] :
             CASE job[w].cmd.kind = "waypoints" -> route[t] = job[w].previous[t]
               [] job[w].cmd.kind = "assign" -> weapon[t] = "NONE"
               [] OTHER -> job[w].previous[t] # "LAUNCH" =>
                              Up(weapon[t]) = Up(job[w].previous[t])]_vars

\* When an emergency stop reports success, every weapon that no other thread has
\* changed since it began is OFF, whichever tubes were assigned, in whatever state, and
\* whatever runs beside it; what the periodic thread stores after that is OffOnlyTurnsOn.
EmergencyStopIsComplete ==
    \A w \in Workers : Done(w) /\ job[w].cmd.kind = "stop" /\ job[w].ok
                           /\ job[w].mode # "undo" =>
        \A t \in Assigned \ touched[w] : weapon[t] = "OFF"

\* "Restores the previous state": an undo never starts a launch.  One call at a time
\* makes this so.
UndoNeverLaunches ==
    [][\A t \in Tubes : weapon[t] # "LAUNCH" /\ weapon'[t] = "LAUNCH" =>
           job[holder'[t]].mode # "undo"]_vars
=============================================================================
