------------------------------- MODULE Weapon -------------------------------
(***************************************************************************)
(* One weapon object (Common/WeaponBase.cpp) and the threads that use it:  *)
(* callers of RequestStateChange, EmergencyStop and ClearAssignment (the   *)
(* command processing thread, the console thread) and the periodic thread, *)
(* whose LaunchTube::Update runs WeaponBase::Update WITHOUT m_stateMutex.  *)
(* A step is one access to shared state.  Steps a thread takes on its own  *)
(* data, or that nobody can tell apart under m_stateMutex, are merged.     *)
(***************************************************************************)
EXTENDS Naturals

CONSTANTS
    Callers,       \* threads that request state changes
    NoCaller,      \* "nobody holds m_stateMutex"
    LaunchSteps    \* m_launchSteps.size(): 3 in the code

ASSUME CallersAssumption == NoCaller \notin Callers
ASSUME LaunchStepsAssumption == LaunchSteps \in Nat

VARIABLES
    state,         \* m_currentState
    launched,      \* m_launched
    fireReady,     \* m_fireSolutionReady
    abortFlag,     \* m_abortFlag
    stateMutex,    \* the caller that holds m_stateMutex, or NoCaller
    attached,      \* the tube points to this weapon (LaunchTube::IsAssigned)
    planValid,     \* m_engagementResult.isValid of its engagement manager
    pc,            \* per caller: where it is in the functions of weapon and tube
    want,          \* per caller: the state it requests
    step,          \* per caller: launch steps left in ProcessLaunch
    upc,           \* the periodic thread: where it is in LaunchTube::Update
    seen,          \* the periodic thread: currentState, the local of Update
    early          \* history: this weapon was used before it was initialised

weapon == <<state, launched, fireReady, abortFlag>>
tube == <<attached, planValid, early>>
updater == <<upc, seen>>
vars == <<weapon, stateMutex, tube, pc, want, step, updater>>

States == {"OFF", "POC", "ON", "RTL", "LAUNCH", "POST_LAUNCH", "ABORT"}

\* s_defaultTransitionMap; POC has no entry.
TransitionMap == [s \in States |->
    CASE s = "OFF" -> {"ON"}
      [] s = "ON" -> {"OFF"}
      [] s = "RTL" -> {"LAUNCH", "OFF"}
      [] s = "LAUNCH" -> {"ABORT"}
      [] s \in {"ABORT", "POST_LAUNCH"} -> {"OFF"}
      [] s = "POC" -> {}]

IsValidTransition(from, to) == to \in TransitionMap[from]

\* Where a caller can be, inside the weapon:
\*   lock       in RequestStateChange, before lock_guard(m_stateMutex)
\*   stop       the same, called by EmergencyStop
\*   enter      holds the mutex, transition found valid, state not yet stored
\*   poc        in the power-on check of ProcessTurnOn
\*   launching  in the loop over m_launchSteps of ProcessLaunch
\*   post       SetLaunched(true) done, POST_LAUNCH not yet stored
\* ... and in the tube, whose pointers it follows:
\*   publish    in AssignWeapon, has found the tube empty
\*   initialize m_weapon is stored, WeaponBase::Initialize not done
\*   manager    the same for the Initialize of the engagement manager
\*   clear      in ClearAssignment, before WeaponBase::Reset
\*   resetPlan  that done, the Reset of the engagement manager not
\*   detach     that done, m_weapon.reset() not
Inside == {"lock", "stop", "enter", "poc", "launching", "post"}
CallerSteps == {"idle", "publish", "initialize", "manager", "clear", "resetPlan",
                "detach"} \cup Inside

\* Where the periodic thread can be: in WeaponBase::Update (check, write), before
\* the plan, in CalculateEngagementPlan before IsEngagementPlanValid (valid), and
\* before SetFireSolutionReady(true) or (false) (ready, unready).
UpdaterSteps == {"idle", "check", "write", "plan", "valid", "ready", "unready"}

TypeOK ==
    /\ state \in States
    /\ launched \in BOOLEAN
    /\ fireReady \in BOOLEAN
    /\ abortFlag \in BOOLEAN
    /\ stateMutex \in Callers \cup {NoCaller}
    /\ attached \in BOOLEAN
    /\ planValid \in BOOLEAN
    /\ pc \in [Callers -> CallerSteps]
    /\ want \in [Callers -> States]
    /\ step \in [Callers -> 0..LaunchSteps]
    /\ upc \in UpdaterSteps
    /\ seen \in States
    /\ early \in BOOLEAN

\* The weapon was Reset by a ClearAssignment: its tube is dropping it.
Cleared == ~attached \/ \E c \in Callers : pc[c] \in {"resetPlan", "detach"}

\* The weapon is in the tube for all threads, but not initialised.
Initializing == \E c \in Callers : pc[c] \in {"initialize", "manager"}

\* A tube without a weapon.
Init ==
    /\ state = "OFF" /\ launched = FALSE /\ fireReady = FALSE
    /\ abortFlag = FALSE
    /\ attached = FALSE /\ planValid = FALSE /\ early = FALSE
    /\ stateMutex = NoCaller
    /\ pc = [c \in Callers |-> "idle"]
    /\ want = [c \in Callers |-> "OFF"]
    /\ step = [c \in Callers |-> 0]
    /\ upc = "idle"
    /\ seen = "OFF"
----------------------------------------------------------------------------
(* Callers *)

Goto(c, label) == pc' = [pc EXCEPT ![c] = label]

\* The function returns: its argument is gone.
Leave(c) == Goto(c, "idle") /\ want' = [want EXCEPT ![c] = "OFF"]

\* ... and unlocks m_stateMutex.
Return(c) == Leave(c) /\ stateMutex' = NoCaller

\* Another thread goes to the weapon; it may be too early.
Enter == early' = (early \/ Initializing) /\ UNCHANGED <<attached, planValid>>

\* LaunchTube::RequestWeaponStateChange finds the weapon assigned and calls
\* RequestStateChange(s).
CallRequest(c, s, label) ==
    /\ pc[c] = "idle" /\ attached
    /\ want' = [want EXCEPT ![c] = s]
    /\ Goto(c, label)
    /\ Enter
    /\ UNCHANGED <<weapon, stateMutex, step, updater>>

\* A DDS message or the console asks for any state.
Request(c, s) == CallRequest(c, s, "lock")

\* LaunchTubeManager::EmergencyStop chooses the target from the state it reads
\* WITHOUT the mutex.
EmergencyStop(c) ==
    CallRequest(c, IF state = "LAUNCH" THEN "ABORT" ELSE "OFF", "stop")

Waiting(c) == pc[c] \in {"lock", "stop"}

\* Faulty variant of Accept: m_stateMutex is released once the transition is
\* validated.
AcceptAndRelease(c) ==
    /\ Waiting(c) /\ stateMutex = NoCaller
    /\ IsValidTransition(state, want[c])
    /\ abortFlag' = (want[c] \in {"OFF", "ABORT"})
    /\ Goto(c, "enter")
    /\ UNCHANGED <<state, launched, fireReady, stateMutex, tube, want, step,
                   updater>>

\* lock_guard, IsValidTransition, and the abortFlag store with which every
\* Process function starts; an invalid transition returns at once.
Accept(c) ==
    /\ Waiting(c) /\ stateMutex = NoCaller
    /\ IsValidTransition(state, want[c])
    /\ stateMutex' = c
    /\ abortFlag' = (want[c] \in {"OFF", "ABORT"})
    /\ Goto(c, "enter")
    /\ UNCHANGED <<state, launched, fireReady, tube, want, step, updater>>

Reject(c) ==
    /\ Waiting(c) /\ stateMutex = NoCaller
    /\ ~IsValidTransition(state, want[c])
    /\ Leave(c)
    /\ UNCHANGED <<weapon, stateMutex, tube, step, updater>>

\* Faulty variant of EnterAndReturn: turning off also forgets the launch.
EnterForgetsLaunch(c) ==
    /\ pc[c] = "enter" /\ want[c] \in {"OFF", "ABORT"}
    /\ state' = want[c] /\ launched' = FALSE
    /\ Return(c)
    /\ UNCHANGED <<fireReady, abortFlag, tube, step, updater>>

\* ProcessTurnOff and ProcessAbort: SetState and return.
EnterAndReturn(c) ==
    /\ pc[c] = "enter" /\ want[c] \in {"OFF", "ABORT"}
    /\ state' = want[c]
    /\ Return(c)
    /\ UNCHANGED <<launched, fireReady, abortFlag, tube, step, updater>>

\* ProcessTurnOn: SetState(POC), then the power-on check.
EnterPowerOnCheck(c) ==
    /\ pc[c] = "enter" /\ want[c] = "ON"
    /\ state' = "POC"
    /\ Goto(c, "poc")
    /\ UNCHANGED <<launched, fireReady, abortFlag, stateMutex, tube, want,
                   step, updater>>

\* SleepWithAbortCheck(m_onDelay) is over: OFF if aborted, ON otherwise.
FinishPowerOnCheck(c) ==
    /\ pc[c] = "poc"
    /\ state' = IF abortFlag THEN "OFF" ELSE "ON"
    /\ Return(c)
    /\ UNCHANGED <<launched, fireReady, abortFlag, tube, step, updater>>

\* ProcessLaunch: SetState(LAUNCH).
EnterLaunch(c) ==
    /\ pc[c] = "enter" /\ want[c] = "LAUNCH"
    /\ state' = "LAUNCH"
    /\ step' = [step EXCEPT ![c] = LaunchSteps]
    /\ Goto(c, "launching")
    /\ UNCHANGED <<launched, fireReady, abortFlag, stateMutex, tube, want,
                   updater>>

\* Faulty variants of LaunchStep: the loop runs once too often, and the loop
\* does not advance.
LaunchStepTooMany(c) ==
    /\ pc[c] = "launching" /\ step' = [step EXCEPT ![c] = @ - 1]
    /\ state' = IF abortFlag THEN "ABORT" ELSE state
    /\ IF abortFlag THEN Return(c) ELSE UNCHANGED <<pc, stateMutex, want>>
    /\ UNCHANGED <<launched, fireReady, abortFlag, tube, updater>>

LaunchStepStuck(c) ==
    /\ pc[c] = "launching" /\ step[c] > 0 /\ abortFlag
    /\ state' = "ABORT"
    /\ Return(c)
    /\ UNCHANGED <<launched, fireReady, abortFlag, tube, step, updater>>

\* One round of the loop over m_launchSteps: the abort check, then the sleep.
LaunchStep(c) ==
    /\ pc[c] = "launching" /\ step[c] > 0
    /\ step' = [step EXCEPT ![c] = @ - 1]
    /\ state' = IF abortFlag THEN "ABORT" ELSE state
    /\ IF abortFlag THEN Return(c) ELSE UNCHANGED <<pc, stateMutex, want>>
    /\ UNCHANGED <<launched, fireReady, abortFlag, tube, updater>>

\* SetLaunched(true) ...
MarkLaunched(c) ==
    /\ pc[c] = "launching" /\ step[c] = 0
    /\ launched' = TRUE
    /\ Goto(c, "post")
    /\ UNCHANGED <<state, fireReady, abortFlag, stateMutex, tube, want,
                   step, updater>>

\* ... and then SetState(POST_LAUNCH), two stores others can see apart.
FinishLaunch(c) ==
    /\ pc[c] = "post"
    /\ state' = "POST_LAUNCH"
    /\ Return(c)
    /\ UNCHANGED <<launched, fireReady, abortFlag, tube, step, updater>>

\* WeaponBase::Reset takes m_stateMutex for its four stores.
Reset ==
    /\ stateMutex = NoCaller
    /\ state' = "OFF" /\ launched' = FALSE /\ fireReady' = FALSE
    /\ abortFlag' = FALSE

\* LaunchTube::ClearAssignment, from UnassignWeapon, a failed assignment or
\* Shutdown.  A caller that finds a null pointer where it goes on ends the program,
\* which is the matter of module LaunchTube: here it stays where it is.
Unassign(c) ==
    /\ pc[c] = "idle" /\ attached
    /\ Goto(c, "clear")
    /\ UNCHANGED <<weapon, stateMutex, tube, want, step, updater>>

\* Faulty variant of ResetWeapon: it does not wait for m_stateMutex.
ResetUnlocked(c) ==
    /\ pc[c] = "clear" /\ attached
    /\ state' = "OFF" /\ launched' = FALSE /\ fireReady' = FALSE
    /\ abortFlag' = FALSE
    /\ Goto(c, "resetPlan")
    /\ UNCHANGED <<stateMutex, tube, want, step, updater>>

ResetWeapon(c) ==
    /\ pc[c] = "clear" /\ attached
    /\ Reset
    /\ Goto(c, "resetPlan")
    /\ UNCHANGED <<stateMutex, tube, want, step, updater>>

\* m_engagementMgr->Reset().
ResetPlan(c) ==
    /\ pc[c] = "resetPlan"
    /\ planValid' = FALSE
    /\ Goto(c, "detach")
    /\ UNCHANGED <<weapon, stateMutex, attached, early, want, step, updater>>

\* m_weapon.reset(): no thread can enter this weapon any more.
Detach(c) ==
    /\ pc[c] = "detach"
    /\ attached' = FALSE
    /\ Goto(c, "idle")
    /\ UNCHANGED <<weapon, stateMutex, planValid, early, want, step, updater>>

\* AssignWeapon of the tube manager and of the tube: the tube is empty.
AssignWeapon(c) ==
    /\ pc[c] = "idle" /\ ~attached
    /\ Goto(c, "publish")
    /\ UNCHANGED <<weapon, stateMutex, tube, want, step, updater>>

\* Threads that are inside the weapon when its memory is freed do what they still
\* do to it there, if the program survives that, and nothing to its successor; a
\* thread about to follow a pointer of the tube finds the new weapon, or has found
\* the old.
Outlives(label) ==
    CASE label \in Inside -> {"idle"}
      [] label = "initialize" -> {"initialize", "manager"}
      [] label = "clear" -> {"clear", "resetPlan"}
      [] OTHER -> {label}

UpdaterOutlives(label) ==
    CASE label \in {"check", "write"} -> {"plan"}
      [] label \in {"ready", "unready"} -> {label, "idle"}
      [] OTHER -> {label}

\* m_weapon and m_engagementMgr are stored, and every thread can use them: a fresh
\* weapon, in place of the one another assignment may have stored since the test.
Publish(c) ==
    /\ pc[c] = "publish"
    /\ state' = "OFF" /\ launched' = FALSE /\ fireReady' = FALSE
    /\ abortFlag' = FALSE /\ stateMutex' = NoCaller
    /\ attached' = TRUE /\ planValid' = FALSE
    /\ pc' \in [Callers -> CallerSteps]
    /\ \A d \in Callers :
          pc'[d] \in IF d = c THEN {"initialize"} ELSE Outlives(pc[d])
    /\ upc' \in UpdaterOutlives(upc)
    /\ early' = (attached \/ upc' # "idle")
    /\ want' = [d \in Callers |-> "OFF"] /\ step' = [d \in Callers |-> 0]
    /\ seen' = "OFF"

\* WeaponBase::Initialize, on a weapon that others may be using.
InitializeWeapon(c) ==
    /\ pc[c] = "initialize" /\ attached
    /\ Reset
    /\ Goto(c, "manager")
    /\ UNCHANGED <<stateMutex, tube, want, step, updater>>

\* EngagementManagerBase::Initialize: isValid is false again.
InitializeManager(c) ==
    /\ pc[c] = "manager"
    /\ planValid' = FALSE
    /\ Goto(c, "idle")
    /\ UNCHANGED <<weapon, stateMutex, attached, early, want, step, updater>>

\* LaunchTube::UpdateWaypoints, on the DDS thread: the engagement manager makes its
\* plan, and the weapon is not told.
UpdateWaypoints ==
    /\ attached
    /\ planValid' = TRUE
    /\ UNCHANGED <<weapon, stateMutex, attached, early, pc, want, step, updater>>
----------------------------------------------------------------------------
(* The periodic thread: LaunchTube::Update every 100 ms *)

\* WeaponBase::Update loads m_currentState; only ON and RTL are acted on.
UpdateRead ==
    /\ upc = "idle" /\ attached
    /\ IF state \in {"ON", "RTL"} THEN seen' = state /\ upc' = "check"
       ELSE seen' = "OFF" /\ upc' = "plan"
    /\ Enter
    /\ UNCHANGED <<weapon, stateMutex, pc, want, step>>

\* Faulty variant of UpdateCheck: ON moves on without the interlock.
UpdateCheckNoInterlock ==
    /\ upc = "check"
    /\ upc' = IF seen = "ON" \/ ~fireReady THEN "write" ELSE "plan"
    /\ seen' = IF upc' = "write" THEN seen ELSE "OFF"
    /\ UNCHANGED <<weapon, stateMutex, tube, pc, want, step>>

\* CheckInterlockConditions: ON moves on when it holds, RTL back when it fails.
UpdateCheck ==
    /\ upc = "check"
    /\ upc' = IF fireReady = (seen = "ON") THEN "write" ELSE "plan"
    /\ seen' = IF upc' = "write" THEN seen ELSE "OFF"
    /\ UNCHANGED <<weapon, stateMutex, tube, pc, want, step>>

\* SetState(RTL) or SetState(ON), whatever the state has become meanwhile.
UpdateWrite ==
    /\ upc = "write"
    /\ state' = IF seen = "ON" THEN "RTL" ELSE "ON"
    /\ upc' = "plan" /\ seen' = "OFF"
    /\ UNCHANGED <<launched, fireReady, abortFlag, stateMutex, tube, pc, want,
                   step>>

\* LaunchTube::CalculateEngagementPlan: CalculateTrajectory always finds a plan ...
Calculate == planValid' = TRUE /\ upc' = "valid" /\ UNCHANGED attached

\* The end of LaunchTube::Update: plan again unless launched.
UpdatePlan ==
    /\ upc = "plan"
    /\ IF ~launched /\ attached THEN Calculate
       ELSE upc' = "idle" /\ UNCHANGED <<attached, planValid>>
    /\ UNCHANGED <<weapon, stateMutex, early, pc, want, step, seen>>

\* UpdateEngagementPlans, once a second on the same thread: launched or not.
CalculateAllEngagementPlans ==
    /\ upc = "idle" /\ attached
    /\ Calculate
    /\ early' = (early \/ Initializing)
    /\ UNCHANGED <<weapon, stateMutex, pc, want, step, seen>>

\* Faulty variant of TestPlan: the test is inverted.
TestPlanInverted ==
    /\ upc = "valid"
    /\ upc' = IF planValid THEN "unready" ELSE "ready"
    /\ UNCHANGED <<weapon, stateMutex, tube, pc, want, step, seen>>

\* ... but the engagement manager may be initialised or reset before
\* IsEngagementPlanValid is asked ...
TestPlan ==
    /\ upc = "valid"
    /\ upc' = IF planValid THEN "ready" ELSE "unready"
    /\ UNCHANGED <<weapon, stateMutex, tube, pc, want, step, seen>>

\* ... and the weapon before it is told.
SetFireSolutionReady ==
    /\ upc \in {"ready", "unready"}
    /\ fireReady' = (upc = "ready")
    /\ upc' = "idle"
    /\ UNCHANGED <<state, launched, abortFlag, stateMutex, tube, pc, want, step,
                   seen>>
----------------------------------------------------------------------------
\* What a thread does once it is inside a function of the weapon or of the tube.
Proceed(c) ==
    \/ Accept(c) \/ Reject(c)
    \/ EnterAndReturn(c) \/ EnterPowerOnCheck(c) \/ FinishPowerOnCheck(c)
    \/ EnterLaunch(c) \/ LaunchStep(c) \/ MarkLaunched(c) \/ FinishLaunch(c)
    \/ ResetWeapon(c) \/ ResetPlan(c) \/ Detach(c)
    \/ Publish(c) \/ InitializeWeapon(c) \/ InitializeManager(c)

Update ==
    \/ UpdateRead \/ UpdateCheck \/ UpdateWrite
    \/ UpdatePlan \/ TestPlan \/ SetFireSolutionReady

Next ==
    \/ \E c \in Callers :
          \/ \E s \in States : Request(c, s)
          \/ EmergencyStop(c)
          \/ AssignWeapon(c)
          \/ Unassign(c)
          \/ Proceed(c)
    \/ Update
    \/ CalculateAllEngagementPlans
    \/ UpdateWaypoints

\* A thread inside a function is never suspended for ever, and the periodic thread
\* runs until shutdown: Update every 100 ms, UpdateEngagementPlans between two
\* Updates every second.  Nobody is obliged to request anything.
Fairness ==
    /\ \A c \in Callers : WF_vars(Proceed(c))
    /\ WF_vars(Update)
    /\ SF_vars(UpdateRead)
    /\ SF_vars(CalculateAllEngagementPlans)

Spec == Init /\ [][Next]_vars
FairSpec == Spec /\ Fairness
----------------------------------------------------------------------------
InLaunch(c) == pc[c] \in {"launching", "post"}

\* While a thread is in ProcessLaunch it alone holds m_stateMutex and nothing has set
\* the abort flag it polls, even when the weapon is initialised under it; nobody sees
\* LAUNCH unless such a thread is at work; and, unless the weapon was used before it
\* was initialised or is being dropped, the unlocked Update of the periodic thread
\* does not overwrite LAUNCH.
LaunchSerialised ==
    /\ \A c \in Callers : InLaunch(c) =>
          /\ stateMutex = c /\ ~abortFlag
          /\ ~Cleared /\ ~early => state = "LAUNCH"
    /\ state = "LAUNCH" => \E c \in Callers : InLaunch(c)

\* A weapon nobody used before it was initialised is ready to launch or launching
\* only with a fire solution, although Update checks the interlock and stores RTL in
\* two steps and the solution is set by another call.
LaunchNeedsFireSolution ==
    ~Cleared /\ ~early /\ state \in {"RTL", "LAUNCH"} => fireReady

\* The launch of a weapon nobody used before it was initialised starts from the state
\* it was validated in: no step of Update comes between IsValidTransition and
\* SetState(LAUNCH) and is lost under it.
LaunchStartsFromRTL ==
    [][state # "LAUNCH" /\ state' = "LAUNCH" =>
         state = "RTL" \/ Cleared \/ early]_vars

\* Once fired, a weapon stays fired for the rest of its assignment, whatever is
\* requested of it, unless it was used before it was initialised.
LaunchedIsPermanent ==
    [][launched /\ ~launched' => Cleared \/ Cleared' \/ early']_vars

\* Whoever takes m_stateMutex gives it back: no path of RequestStateChange
\* hangs inside the critical section.
MutexReleased == stateMutex # NoCaller ~> stateMutex = NoCaller

\* A weapon that is powered on does not linger in ON, whatever initialises or resets
\* its engagement manager meanwhile: the periodic thread plans its engagement and
\* makes it ready, or somebody turns it off or clears it.
PowerOnBecomesReady == state = "ON" ~> (state # "ON" \/ Cleared)

\* What FireControl sees of this weapon.
Phase ==
    CASE ~attached \/ (Cleared /\ ~early) -> "dropped"
      [] attached /\ early -> "disputed"
      [] ~Cleared /\ ~early /\ launched -> "fired"
      [] ~Cleared /\ ~early /\ ~launched ->
            IF state = "LAUNCH" THEN "launching" ELSE "safe"

Control == INSTANCE FireControl WITH phase <- Phase, solution <- fireReady

\* A weapon that is initialised before anyone uses it does what FireControl promises:
\* no launch begins without a fire solution, the tube cannot drop a weapon that is
\* launching, a launch that has begun is completed, and what is fired stays fired.
ImplementsFireControl == Control!FairSpec

\* README: emergency stop "stops every weapon at once", and EmergencyStop's
\* comment: a launching weapon is aborted.  So no launch completes while an
\* emergency stop that found the weapon launching is waiting.
EmergencyStopInterruptsLaunch ==
    [][state = "LAUNCH" /\ state' = "POST_LAUNCH" =>
         ~ \E c \in Callers : pc[c] = "stop" /\ want[c] = "ABORT"]_vars

\* The ABORT state, the abort branch of ProcessLaunch and ProcessAbort are
\* never reached: an abort is valid only in LAUNCH, and LAUNCH is over before
\* the abort gets m_stateMutex.
AbortNeverTaken ==
    /\ state # "ABORT"
    /\ \A c \in Callers :
          /\ pc[c] = "enter" => want[c] # "ABORT"
          /\ pc[c] = "launching" => ~abortFlag

\* The transition map: while it is assigned, an OFF weapon can only be turned on
\* (through POC).
OffOnlyTurnsOn ==
    [][state = "OFF" /\ ~Cleared => state' \in {"OFF", "POC"}]_vars
=============================================================================
