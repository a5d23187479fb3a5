----------------------------- MODULE LaunchTube -----------------------------
(***************************************************************************)
(* One tube (LaunchTube/LaunchTube.cpp) and the part of LaunchTubeManager  *)
(* that assigns, clears and informs it.  No mutex protects the tube: the   *)
(* command processing thread and the console thread (Callers), the DDS     *)
(* thread and the periodic thread meet in it freely.                       *)
(* A step is one access to a member of the tube.  An access through a null *)
(* pointer ends the process: crashed.  The weapon is reduced to what the   *)
(* tube looks at (ready to launch, launched, or neither: "other"), the     *)
(* engagement manager to the information the tube hands to it and the      *)
(* engagement plan it makes of it.                                         *)
(***************************************************************************)
EXTENDS Naturals

CONSTANTS
    Callers,    \* threads that assign, unassign and control weapons
    Ships,      \* own ship navigation messages
    Targets,    \* targets, one message each
    Routes,     \* the waypoints of the waypoint messages
    NoInfo,     \* a message structure nobody has filled in
    NoRoute,    \* no waypoints
    NoPlan,     \* an engagement plan that is not valid
    None        \* the null pointer

ASSUME NoInfoAssumption == NoInfo \notin Ships \cup Targets \cup Routes
ASSUME TopicsAssumption == Ships \cap Targets = {}
ASSUME NoRouteAssumption == NoRoute \notin Routes /\ NoPlan \notin Routes \cup {NoRoute}
ASSUME ThreadsAssumption == {"dds", "periodic"} \cap Callers = {}

Weapons == {"other", "ready", "launched"}
\* plan: the waypoints of m_engagementResult; the rest of a plan is constant.
Managers == [ship : Ships \cup {NoInfo}, target : Targets \cup {NoInfo},
             track : Targets, waypoints : Routes \cup {NoRoute},
             plan : Routes \cup {NoRoute, NoPlan}]

ASSUME NoneAssumption == None \notin Weapons \cup Managers

VARIABLES
    weapon,        \* m_weapon: what the tube sees of the weapon, or None
    manager,       \* m_engagementMgr: its m_ownShipInfo, m_targetInfo, m_waypoints,
                   \* m_engagementResult and the track it was assigned, or None
    tubeState,     \* m_tubeState
    observed,      \* the tube is in the weapon's list of observers
    ship,          \* LaunchTubeManager::m_ownShipInfo
    known,         \* LaunchTubeManager::m_targetInfoMap
    pc,            \* per thread: where it is
    ret,           \* per thread: where UpdateTubeState returns to
    next,          \* per thread: newState, the local of UpdateTubeState
    copied,        \* the periodic thread: the waypoints of the plan it makes
    news,          \* the DDS thread: the message it delivers
    crashed        \* a null pointer was followed

tube == <<weapon, manager, tubeState, observed>>
environment == <<ship, known>>
tasks == <<copied, news>>
vars == <<tube, environment, pc, ret, next, tasks, crashed>>

Threads == Callers \cup {"dds", "periodic"}
TubeStates == {"EMPTY", "ASSIGNED", "READY", "LAUNCHED"}
Steps == {"idle", "check", "weapon", "manager", "initialize", "info", "environment",
          "kind", "clear", "reset", "resetManager", "forget", "forgetManager", "empty", "compute", "store",
          "status", "deliver", "route", "update", "engagement", "plan", "follow",
          "calculate", "ready", "result"}

TypeOK ==
    /\ weapon \in Weapons \cup {None}
    /\ manager \in Managers \cup {None}
    /\ tubeState \in TubeStates
    /\ observed \in BOOLEAN
    /\ ship \in Ships \cup {NoInfo} /\ known \in SUBSET Targets
    /\ pc \in [Threads -> Steps] /\ ret \in [Threads -> Steps]
    /\ next \in [Threads -> TubeStates]
    /\ copied \in Routes \cup {NoRoute}
    /\ news \in Ships \cup Targets \cup Routes \cup {NoInfo}
    /\ crashed \in BOOLEAN

Init ==
    /\ weapon = None /\ manager = None /\ tubeState = "EMPTY" /\ observed = FALSE
    /\ ship = NoInfo /\ known = {}
    /\ pc = [t \in Threads |-> "idle"] /\ ret = [t \in Threads |-> "idle"]
    /\ next = [t \in Threads |-> "EMPTY"]
    /\ copied = NoRoute /\ news = NoInfo
    /\ crashed = FALSE

IsAssigned == weapon # None

Goto(t, label) == pc' = [pc EXCEPT ![t] = label]

\* A thread is at a step, and the process is alive.
At(t, label) == ~crashed /\ pc[t] = label

\* The step follows pointer p: it goes on to label, or crashes.
Follow(t, p, label) ==
    IF p = None THEN crashed' = TRUE /\ UNCHANGED pc
                ELSE Goto(t, label) /\ UNCHANGED crashed
----------------------------------------------------------------------------
(* LaunchTube::UpdateTubeState, by any thread *)

\* Faulty variant of ComputeTubeState: the state of the weapon is taken for that
\* of the tube.
ComputeByCast(t) ==
    /\ At(t, "compute")
    /\ next' = [next EXCEPT ![t] = IF weapon = None THEN "EMPTY" ELSE weapon]
    /\ Goto(t, "store")
    /\ UNCHANGED <<tube, environment, ret, tasks, crashed>>

\* The state to store is computed from the weapon ...
ComputeTubeState(t) ==
    /\ At(t, "compute")
    /\ next' = [next EXCEPT ![t] =
          CASE weapon = None -> "EMPTY"
            [] weapon = "launched" -> "LAUNCHED"
            [] weapon = "ready" -> "READY"
            [] weapon = "other" -> "ASSIGNED"]
    /\ Goto(t, "store")
    /\ UNCHANGED <<tube, environment, ret, tasks, crashed>>

\* UpdateTubeState returns; its locals are gone.
Return(t) ==
    /\ Goto(t, ret[t])
    /\ ret' = [ret EXCEPT ![t] = "idle"]
    /\ next' = [next EXCEPT ![t] = "EMPTY"]

\* Faulty variant of StoreTubeState: READY is final.
StoreUnlessReady(t) ==
    /\ At(t, "store")
    /\ tubeState' = IF tubeState = "READY" THEN tubeState ELSE next[t]
    /\ Return(t)
    /\ UNCHANGED <<weapon, manager, observed, environment, tasks, crashed>>

\* ... and stored, whatever has happened to the tube meanwhile.
StoreTubeState(t) ==
    /\ At(t, "store")
    /\ tubeState' = next[t]
    /\ Return(t)
    /\ UNCHANGED <<weapon, manager, observed, environment, tasks, crashed>>

\* UpdateTubeState is called and will return to label.
CallUpdateTubeState(t, label) ==
    Goto(t, "compute") /\ ret' = [ret EXCEPT ![t] = label]

\* Some thread notifies the tube of a state change: it holds m_observerMutex of
\* the weapon, and but for the periodic thread its m_stateMutex, until
\* UpdateTubeState is over.
Notifying == \E t \in Threads :
    pc[t] \in {"compute", "store"} /\ ret[t] \in {"idle", "engagement"}
Requesting == \E t \in Callers : pc[t] \in {"compute", "store"} /\ ret[t] = "idle"
----------------------------------------------------------------------------
(* Callers: LaunchTubeManager::AssignWeapon *)

\* The manager finds the tube not assigned and creates the two objects.
AssignWeapon(c) ==
    /\ At(c, "idle") /\ ~IsAssigned
    /\ Goto(c, "check")
    /\ UNCHANGED <<tube, environment, ret, next, tasks, crashed>>

\* LaunchTube::AssignWeapon tests again ...
CheckAssigned(c) ==
    /\ At(c, "check")
    /\ Goto(c, IF IsAssigned THEN "idle" ELSE "weapon")
    /\ UNCHANGED <<tube, environment, ret, next, tasks, crashed>>

\* ... and stores the two pointers, one after the other.
StoreWeapon(c) ==
    /\ At(c, "weapon")
    /\ weapon' = "other" /\ observed' = FALSE
    /\ Goto(c, "manager")
    /\ UNCHANGED <<manager, tubeState, environment, ret, next, tasks, crashed>>

StoreManager(c) ==
    /\ At(c, "manager")
    /\ \E t \in Targets :
          manager' = [ship |-> NoInfo, target |-> NoInfo, track |-> t,
                      waypoints |-> NoRoute, plan |-> NoPlan]
    /\ Goto(c, "initialize")
    /\ UNCHANGED <<weapon, tubeState, observed, environment, ret, next, tasks, crashed>>

\* Initialize both, observe the weapon, UpdateTubeState.
InitializeBoth(c) ==
    /\ At(c, "initialize")
    /\ IF weapon = None \/ manager = None
       THEN crashed' = TRUE /\ UNCHANGED <<weapon, manager, observed, pc, ret>>
       ELSE /\ weapon' = "other" /\ observed' = TRUE
            /\ manager' = [manager EXCEPT !.plan = NoPlan]
            /\ CallUpdateTubeState(c, "info")
            /\ UNCHANGED crashed
    /\ UNCHANGED <<tubeState, environment, next, tasks>>

\* LaunchTube::AssignWeapon ends with m_weapon->GetWeaponKind().  Then
\* SetAssignmentInfo succeeds and updates the tube state again, unless somebody
\* has cleared the tube in between: the assignment is given up.
SetAssignmentInfo(c) ==
    /\ At(c, "info")
    /\ IF ~IsAssigned
       THEN /\ \/ Goto(c, "clear") /\ UNCHANGED crashed
               \/ crashed' = TRUE /\ UNCHANGED pc
            /\ UNCHANGED ret
       ELSE IF manager = None THEN crashed' = TRUE /\ UNCHANGED <<pc, ret>>
       ELSE CallUpdateTubeState(c, "environment") /\ UNCHANGED crashed
    /\ UNCHANGED <<tube, environment, next, tasks>>

\* The engagement manager, if the tube is assigned, takes over the information
\* info, and the thread goes on to idle.
Inform(t, info) ==
    /\ IF IsAssigned
       THEN /\ Follow(t, manager, "idle")
            /\ manager' = IF manager = None THEN None ELSE info
       ELSE Goto(t, "idle") /\ UNCHANGED <<manager, crashed>>
    /\ UNCHANGED <<weapon, tubeState, observed, environment, ret, next, copied>>

\* The assigned target, if the tube manager knows it.
TargetToCopy == IF manager.track \in known THEN manager.track ELSE manager.target

\* Faulty variant of CopyEnvironment: the own ship is left out.
CopyTargetOnly(c) ==
    /\ At(c, "environment")
    /\ Inform(c, [manager EXCEPT !.target = TargetToCopy])
    /\ UNCHANGED news

\* Faulty variant of CopyEnvironment: the target is left out.
CopyShipOnly(c) ==
    /\ At(c, "environment")
    /\ Inform(c, [manager EXCEPT !.ship = ship])
    /\ UNCHANGED news

\* Under the shared m_environmentMutex the own ship, and the assigned target if
\* it is known, are handed to the tube.
CopyEnvironment(c) ==
    /\ At(c, "environment")
    /\ Inform(c, [manager EXCEPT !.ship = ship, !.target = TargetToCopy])
    /\ UNCHANGED news
----------------------------------------------------------------------------
(* Callers: UnassignWeapon, control and status *)

\* Faulty variant of UnassignWeapon: the tube is not asked whether it is assigned.
UnassignAnyway(c) ==
    /\ At(c, "idle")
    /\ Goto(c, "kind")
    /\ UNCHANGED <<tube, environment, ret, next, tasks, crashed>>

UnassignWeapon(c) ==
    /\ At(c, "idle") /\ IsAssigned
    /\ Goto(c, "kind")
    /\ UNCHANGED <<tube, environment, ret, next, tasks, crashed>>

\* GetWeapon()->GetWeaponKind().
AskKind(c) ==
    /\ At(c, "kind")
    /\ Follow(c, weapon, "clear")
    /\ UNCHANGED <<tube, environment, ret, next, tasks>>

\* ClearAssignment: if there is a weapon the observer is removed, which waits for a
\* notification in progress ...
RemoveStateObserver(c) ==
    /\ At(c, "clear") /\ (IsAssigned => ~Notifying)
    /\ observed' = FALSE
    /\ Goto(c, IF IsAssigned THEN "reset" ELSE "resetManager")
    /\ UNCHANGED <<weapon, manager, tubeState, environment, ret, next, tasks, crashed>>

\* ... and the weapon is reset, once no request holds its m_stateMutex ...
ResetWeapon(c) ==
    /\ At(c, "reset") /\ ~Requesting
    /\ Follow(c, weapon, "resetManager")
    /\ weapon' = IF IsAssigned THEN "other" ELSE None
    /\ UNCHANGED <<manager, tubeState, observed, environment, ret, next, tasks>>

\* ... the engagement manager, if there is one, is reset ...
ResetManager(c) ==
    /\ At(c, "resetManager")
    /\ manager' = IF manager = None THEN None
                  ELSE [manager EXCEPT !.waypoints = NoRoute, !.plan = NoPlan]
    /\ Goto(c, "forget")
    /\ UNCHANGED <<weapon, tubeState, observed, environment, ret, next, tasks, crashed>>

\* ... then the members are cleared one by one.
ForgetWeapon(c) ==
    /\ At(c, "forget")
    /\ weapon' = None /\ observed' = FALSE
    /\ Goto(c, "forgetManager")
    /\ UNCHANGED <<manager, tubeState, environment, ret, next, tasks, crashed>>

ForgetManager(c) ==
    /\ At(c, "forgetManager")
    /\ manager' = None
    /\ Goto(c, "empty")
    /\ UNCHANGED <<weapon, tubeState, observed, environment, ret, next, tasks, crashed>>

StoreEmpty(c) ==
    /\ At(c, "empty")
    /\ tubeState' = "EMPTY"
    /\ Goto(c, "idle")
    /\ UNCHANGED <<weapon, manager, observed, environment, ret, next, tasks, crashed>>

\* Thread t changes the weapon to one of views, and the tube is notified if it
\* observes it; a launched weapon stays launched.
ChangeWeapon(t, views, label) ==
    /\ weapon' \in IF weapon = "launched" THEN {"launched"} ELSE views
    /\ IF observed THEN CallUpdateTubeState(t, label)
                   ELSE Goto(t, label) /\ UNCHANGED ret

\* LaunchTube::RequestWeaponStateChange on an assigned weapon.
RequestWeaponStateChange(c) ==
    /\ At(c, "idle") /\ IsAssigned /\ ~Notifying
    /\ ChangeWeapon(c, Weapons, "idle")
    /\ UNCHANGED <<manager, tubeState, observed, environment, next, tasks, crashed>>

\* LaunchTube::GetStatus asks the weapon and the engagement manager.
GetStatus(c) ==
    /\ At(c, "idle") /\ IsAssigned
    /\ Goto(c, "status")
    /\ UNCHANGED <<tube, environment, ret, next, tasks, crashed>>

AskStatus(c) ==
    /\ At(c, "status")
    /\ Follow(c, IF weapon = None THEN None ELSE manager, "idle")
    /\ UNCHANGED <<tube, environment, ret, next, tasks>>
----------------------------------------------------------------------------
(* The DDS thread: own ship, target and waypoint messages *)

\* The manager keeps the message under m_environmentMutex ...
UpdateOwnShipInfo(s) ==
    /\ At("dds", "idle")
    /\ ship' = s
    /\ news' = s
    /\ Goto("dds", "deliver")
    /\ UNCHANGED <<tube, known, ret, next, copied, crashed>>

UpdateTargetInfo(t) ==
    /\ At("dds", "idle")
    /\ known' = known \cup {t}
    /\ news' = t
    /\ Goto("dds", "deliver")
    /\ UNCHANGED <<tube, ship, ret, next, copied, crashed>>

\* ... and then passes it on to the tube if it is assigned.
Deliver ==
    /\ At("dds", "deliver")
    /\ Inform("dds", IF news \in Ships THEN [manager EXCEPT !.ship = news]
                                       ELSE [manager EXCEPT !.target = news])
    /\ news' = NoInfo

\* LaunchTube::UpdateWaypoints on an assigned tube ...
UpdateWaypoints(r) ==
    /\ At("dds", "idle") /\ IsAssigned
    /\ news' = r
    /\ Goto("dds", "route")
    /\ UNCHANGED <<tube, environment, ret, next, copied, crashed>>

\* ... stores them and makes the plan.  If the periodic thread is copying the same
\* vectors, the process dies or the plan is anything.
StoreWaypoints ==
    /\ At("dds", "route")
    /\ \/ /\ Follow("dds", manager, "idle")
          /\ IF manager = None THEN UNCHANGED manager
             ELSE \E plan \in IF pc["periodic"] = "calculate" THEN Routes \cup {NoRoute}
                             ELSE {news} :
                     manager' = [manager EXCEPT !.waypoints = news, !.plan = plan]
       \/ /\ pc["periodic"] = "calculate"
          /\ crashed' = TRUE /\ UNCHANGED <<manager, pc>>
    /\ news' = NoInfo
    /\ UNCHANGED <<weapon, tubeState, observed, environment, ret, next, copied>>
----------------------------------------------------------------------------
(* The periodic thread: LaunchTube::Update and the plans of all tubes *)

UpdateBegin ==
    /\ At("periodic", "idle") /\ IsAssigned
    /\ Goto("periodic", "update")
    /\ UNCHANGED <<tube, environment, ret, next, tasks, crashed>>

\* m_weapon->Update() may move the weapon to RTL or back.
UpdateWeapon ==
    /\ At("periodic", "update") /\ ~Notifying
    /\ IF IsAssigned
       THEN /\ ChangeWeapon("periodic", {"other", "ready"}, "engagement")
            /\ UNCHANGED crashed
       ELSE crashed' = TRUE /\ UNCHANGED <<weapon, pc, ret>>
    /\ UNCHANGED <<manager, tubeState, observed, environment, next, tasks>>

\* m_engagementMgr->Update(), then UpdateTubeState.
UpdateEngagement ==
    /\ At("periodic", "engagement")
    /\ IF manager = None
       THEN crashed' = TRUE /\ UNCHANGED <<pc, ret>>
       ELSE CallUpdateTubeState("periodic", "plan") /\ UNCHANGED crashed
    /\ UNCHANGED <<tube, environment, next, tasks>>

\* The plan is made again unless the weapon is launched.
UpdatePlan ==
    /\ At("periodic", "plan")
    /\ Follow("periodic", weapon, IF weapon = "launched" THEN "idle" ELSE "follow")
    /\ UNCHANGED <<tube, environment, ret, next, tasks>>

\* Faulty variant of CalculateAllEngagementPlans: as in Update, only weapons that are
\* not launched.
CalculateUnlaunchedPlans ==
    /\ At("periodic", "idle") /\ weapon \in {"other", "ready"}
    /\ Goto("periodic", "follow")
    /\ UNCHANGED <<tube, environment, ret, next, tasks, crashed>>

\* Every second, for every assigned tube.
CalculateAllEngagementPlans ==
    /\ At("periodic", "idle") /\ IsAssigned
    /\ Goto("periodic", "follow")
    /\ UNCHANGED <<tube, environment, ret, next, tasks, crashed>>

\* LaunchTube::CalculateEngagementPlan: nothing, if the tube is no longer assigned, or
\* CalculateTrajectory copies the waypoints ...
BeginPlan ==
    /\ At("periodic", "follow")
    /\ IF ~IsAssigned
       THEN Goto("periodic", "idle") /\ UNCHANGED <<copied, crashed>>
       ELSE /\ Follow("periodic", manager, "calculate")
            /\ copied' = IF manager = None THEN copied ELSE manager.waypoints
    /\ UNCHANGED <<tube, environment, ret, next, news>>

\* ... into the plan.  Waypoints that were changed meanwhile make it anything; a
\* manager that is gone was written after its end.
EndPlan ==
    /\ At("periodic", "calculate")
    /\ IF manager = None
       THEN UNCHANGED manager
       ELSE \E plan \in IF manager.waypoints = copied THEN {copied}
                        ELSE Routes \cup {NoRoute} :
               manager' = [manager EXCEPT !.plan = plan]
    /\ \/ Goto("periodic", "ready") /\ UNCHANGED crashed
       \/ /\ ~(manager # None /\ manager.waypoints = copied)
          /\ crashed' = TRUE /\ UNCHANGED pc
    /\ copied' = NoRoute
    /\ UNCHANGED <<weapon, tubeState, observed, environment, ret, next, news>>

\* m_weapon->SetFireSolutionReady, and the callback with the result.
FinishPlan ==
    /\ At("periodic", "ready")
    /\ Follow("periodic", IF weapon = None THEN None ELSE manager, "idle")
    /\ UNCHANGED <<tube, environment, ret, next, tasks>>

\* LaunchTube::GetEngagementResult, for SendEngagementResults.
GetEngagementResult ==
    /\ At("periodic", "idle") /\ IsAssigned
    /\ Goto("periodic", "result")
    /\ UNCHANGED <<tube, environment, ret, next, tasks, crashed>>

AskResult ==
    /\ At("periodic", "result")
    /\ Follow("periodic", manager, "idle")
    /\ UNCHANGED <<tube, environment, ret, next, tasks>>
----------------------------------------------------------------------------
\* What a caller does once it is inside the tube manager.
Proceed(c) ==
    \/ CheckAssigned(c) \/ StoreWeapon(c) \/ StoreManager(c) \/ InitializeBoth(c)
    \/ SetAssignmentInfo(c) \/ CopyEnvironment(c)
    \/ AskKind(c) \/ RemoveStateObserver(c) \/ ResetWeapon(c) \/ ResetManager(c)
    \/ ForgetWeapon(c) \/ ForgetManager(c) \/ StoreEmpty(c) \/ AskStatus(c)

UpdateTubeState(t) == ComputeTubeState(t) \/ StoreTubeState(t)

Update == UpdateBegin \/ UpdateWeapon \/ UpdateEngagement \/ UpdatePlan

MakePlan == BeginPlan \/ EndPlan \/ FinishPlan

PeriodicTasks ==
    \/ Update \/ CalculateAllEngagementPlans \/ MakePlan
    \/ GetEngagementResult \/ AskResult

Next ==
    \/ \E c \in Callers : \/ AssignWeapon(c) \/ UnassignWeapon(c)
                          \/ RequestWeaponStateChange(c) \/ GetStatus(c)
                          \/ Proceed(c)
    \/ \E t \in Threads : UpdateTubeState(t)
    \/ \E s \in Ships : UpdateOwnShipInfo(s)
    \/ \E t \in Targets : UpdateTargetInfo(t)
    \/ \E r \in Routes : UpdateWaypoints(r)
    \/ Deliver \/ StoreWaypoints
    \/ PeriodicTasks

\* The periodic thread runs until shutdown: each round begins with Update, and once a
\* second the plans are made; it gets the observer mutex in the end, however often
\* requests take it.  A thread finishes what it has begun.  Nobody is obliged to assign,
\* control or send anything.
Fairness ==
    /\ WF_vars(PeriodicTasks)
    /\ SF_vars(UpdateBegin) /\ SF_vars(UpdateWeapon)
    /\ SF_vars(CalculateAllEngagementPlans)
    /\ \A t \in Threads : WF_vars(UpdateTubeState(t))
    /\ \A c \in Callers : WF_vars(Proceed(c))
    /\ WF_vars(Deliver \/ StoreWaypoints)

Spec == Init /\ [][Next]_vars
FairSpec == Spec /\ Fairness
----------------------------------------------------------------------------
\* Nobody is inside the tube: every call has returned.
AtRest == ~crashed /\ \A t \in Threads : pc[t] = "idle"

\* However an assignment and a navigation message overlap, once both are over
\* the assigned weapon has the latest own ship information: the assignment
\* stores its pointers before it copies, the message is kept before it is
\* passed on.
OwnShipReachesTube ==
    AtRest /\ weapon # None /\ manager # None => manager.ship = ship

\* Target messages go to every tube: whether the message of the assigned track comes
\* before, during or after the assignment, once both are over the weapon has a target.
TargetReachesTube ==
    AtRest /\ weapon # None /\ manager # None /\ manager.track \in known
        => manager.target # NoInfo

\* As long as one thread does all assignments, no test of that thread is stale: where
\* AssignWeapon, UnassignWeapon and GetStatus follow the pointers, they are there.
CallersFindTube ==
    \A c \in Callers :
        pc[c] \in {"initialize", "info", "environment", "kind", "status"}
            => weapon # None /\ manager # None

\* Once no more waypoints arrive, the plan becomes that of the waypoints stored, of a
\* launched weapon too and whatever the two threads that make plans have mixed up.
PlanFollowsWaypoints ==
    <>[](pc["dds"] # "route") =>
        (manager # None /\ manager.plan # manager.waypoints)
            ~> (manager = None \/ manager.plan = manager.waypoints \/ crashed)

\* A launch shows in the tube state: the next Update corrects whatever a stale
\* UpdateTubeState of another thread has stored.
LaunchShows ==
    weapon = "launched" ~> tubeState = "LAUNCHED" \/ weapon # "launched" \/ crashed

\* EN_TUBE_STATE: EMPTY means empty.  A tube without a weapon, at rest, is EMPTY.
UnassignedIsEmpty == AtRest /\ weapon = None => tubeState = "EMPTY"
=============================================================================
