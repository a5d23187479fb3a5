---------------------------- MODULE Weapon_proofs ----------------------------
(***************************************************************************)
(* Proofs about module Weapon, for any set of callers and any number of    *)
(* launch steps.                                                           *)
(***************************************************************************)
EXTENDS Weapon, TLAPS

Holding(c) == pc[c] \in {"enter", "poc", "launching", "post"}

\* The tube is dropping the weapon, or somebody used it too early.
Disturbed == Cleared \/ early

\* m_stateMutex is held by exactly the thread inside RequestStateChange.
MutexInv == \A c \in Callers : Holding(c) <=> stateMutex = c

\* A weapon that is not initialised and not disturbed is untouched.
FreshInv ==
    Initializing /\ ~Disturbed =>
        /\ state = "OFF" /\ ~launched /\ ~fireReady
        /\ upc = "idle" /\ \A c \in Callers : pc[c] \notin Inside

\* A thread about to launch, or launching, has a clear abort flag; unless the
\* weapon is disturbed, it launches from RTL, finds LAUNCH undisturbed and leaves
\* it only once launched is set.
LaunchInv ==
    \A c \in Callers :
        /\ pc[c] = "enter" /\ want[c] = "LAUNCH" =>
              ~abortFlag /\ (~Disturbed => state = "RTL")
        /\ InLaunch(c) => ~abortFlag /\ (~Disturbed => state = "LAUNCH")
        /\ pc[c] = "post" /\ ~Disturbed => launched

\* LAUNCH is seen only while a thread launches.
LaunchSeen == state = "LAUNCH" => \E c \in Callers : InLaunch(c)

\* What the periodic thread may rely on between its read and its store.  The
\* store of a stale ON decision cannot hit a launch: only the periodic thread
\* itself stores RTL, so no launch can begin while it sits on that decision.
UpdaterInv ==
    /\ upc \in {"check", "write"} => seen \in {"ON", "RTL"}
    /\ ~Disturbed =>
         /\ upc \in {"check", "write"} =>
              /\ seen = "ON" => state \notin {"RTL", "LAUNCH"}
              /\ seen = "RTL" => upc = "check" /\ fireReady
              /\ upc = "write" => fireReady
         /\ upc = "valid" => planValid
         /\ upc # "unready"

IInv ==
    /\ TypeOK
    /\ MutexInv
    /\ FreshInv
    /\ LaunchInv
    /\ LaunchSeen
    /\ LaunchNeedsFireSolution
    /\ UpdaterInv

\* A step of a caller, whatever the function.
CallerStep(c) ==
    \/ \E s \in States : Request(c, s)
    \/ EmergencyStop(c) \/ AssignWeapon(c) \/ Unassign(c) \/ Proceed(c)

USE DEF weapon, tube, updater
----------------------------------------------------------------------------
(* Type correctness *)

LEMMA InitType == Init => TypeOK
<1>1. Init => step \in [Callers -> 0..LaunchSteps]
  BY LaunchStepsAssumption DEF Init
<1>2. Init => /\ launched \in BOOLEAN /\ fireReady \in BOOLEAN
              /\ abortFlag \in BOOLEAN /\ attached \in BOOLEAN
              /\ planValid \in BOOLEAN /\ early \in BOOLEAN
  BY DEF Init
<1>3. Init => /\ state \in States /\ stateMutex \in Callers \cup {NoCaller}
              /\ pc \in [Callers -> CallerSteps] /\ want \in [Callers -> States]
              /\ upc \in UpdaterSteps /\ seen \in States
  BY DEF Init, States, CallerSteps, UpdaterSteps
<1> QED BY <1>1, <1>2, <1>3 DEF TypeOK

\* A fresh weapon is published: nobody is inside it, and Update is past it.
LEMMA PublishFacts ==
    ASSUME TypeOK, NEW c \in Callers, Publish(c)
    PROVE  /\ pc' \in [Callers -> CallerSteps] /\ pc'[c] = "initialize"
           /\ \A d \in Callers : pc'[d] \notin Inside
           /\ \A d \in Callers : pc'[d] \in {"resetPlan", "detach"} =>
                 pc[d] \in {"clear", "resetPlan", "detach"}
           /\ upc' \in {"idle", "plan", "valid", "ready", "unready"}
<1>1. \A d \in Callers : pc'[d] \notin Inside
  BY DEF Publish, Outlives, TypeOK, CallerSteps, Inside
<1>2. \A d \in Callers : pc'[d] \in {"resetPlan", "detach"} =>
         pc[d] \in {"clear", "resetPlan", "detach"}
  BY DEF Publish, Outlives, TypeOK, CallerSteps, Inside
<1>3. upc' \in {"idle", "plan", "valid", "ready", "unready"}
  BY DEF Publish, UpdaterOutlives, TypeOK, UpdaterSteps
<1> QED BY <1>1, <1>2, <1>3 DEF Publish

\* Every action of a caller keeps the types.
LEMMA CallerType ==
    ASSUME TypeOK, NEW c \in Callers, CallerStep(c)
    PROVE  TypeOK'
<1> USE LaunchStepsAssumption
    DEF TypeOK, States, CallerSteps, Inside, Goto, Leave, Return, Reset
<1>1. ASSUME NEW s \in States, NEW label \in {"lock", "stop"}, CallRequest(c, s, label)
      PROVE  TypeOK'
  <2>1. early' \in BOOLEAN
    BY <1>1 DEF CallRequest, Enter
  <2> QED BY <1>1, <2>1 DEF CallRequest, Enter
<1>2. CASE EmergencyStop(c) \/ \E s \in States : Request(c, s)
  BY <1>1, <1>2 DEF EmergencyStop, Request
<1>3. CASE AssignWeapon(c) \/ Unassign(c)
  BY <1>3 DEF AssignWeapon, Unassign
<1>4. CASE Accept(c)
  <2>1. abortFlag' \in BOOLEAN
    BY <1>4 DEF Accept
  <2> QED BY <1>4, <2>1 DEF Accept
<1>5. ASSUME Leave(c)
       PROVE  pc' \in [Callers -> CallerSteps] /\ want' \in [Callers -> States]
  BY <1>5
<1>6. CASE Reject(c)
  BY <1>6, <1>5 DEF Reject
<1>7. CASE EnterAndReturn(c)
  BY <1>7, <1>5 DEF EnterAndReturn
<1>8. CASE EnterPowerOnCheck(c)
  BY <1>8 DEF EnterPowerOnCheck
<1>9. CASE FinishPowerOnCheck(c)
  <2>1. state' \in {"OFF", "ON"} /\ Leave(c) /\ stateMutex' = NoCaller
        /\ UNCHANGED <<launched, fireReady, abortFlag, tube, step, updater>>
    BY <1>9 DEF FinishPowerOnCheck
  <2> QED BY <2>1, <1>5
<1>10. CASE EnterLaunch(c)
  BY <1>10 DEF EnterLaunch
<1>11. CASE LaunchStep(c)
  <2>1. step' \in [Callers -> 0..LaunchSteps]
    BY <1>11 DEF LaunchStep
  <2>2. CASE abortFlag
    <3>1. state' = "ABORT" /\ Leave(c) /\ stateMutex' = NoCaller
          /\ UNCHANGED <<launched, fireReady, abortFlag, tube, updater>>
      BY <1>11, <2>2 DEF LaunchStep
    <3> QED BY <2>1, <3>1, <1>5
  <2>3. CASE ~abortFlag
    <3>1. UNCHANGED <<weapon, pc, stateMutex, want, tube, updater>>
      BY <1>11, <2>3 DEF LaunchStep
    <3> QED BY <2>1, <3>1
  <2> QED BY <2>2, <2>3
<1>12. CASE MarkLaunched(c)
  BY <1>12 DEF MarkLaunched
<1>13. CASE FinishLaunch(c)
  <2>1. state' = "POST_LAUNCH" /\ Leave(c) /\ stateMutex' = NoCaller
        /\ UNCHANGED <<launched, fireReady, abortFlag, tube, step, updater>>
    BY <1>13 DEF FinishLaunch
  <2> QED BY <2>1, <1>5
<1>14. CASE ResetWeapon(c) \/ ResetPlan(c) \/ Detach(c)
  <2>1. CASE ResetWeapon(c)
    BY <2>1 DEF ResetWeapon
  <2>2. CASE ResetPlan(c)
    BY <2>2 DEF ResetPlan
  <2>3. CASE Detach(c)
    BY <2>3 DEF Detach
  <2> QED BY <1>14, <2>1, <2>2, <2>3
<1>15. CASE InitializeWeapon(c) \/ InitializeManager(c)
  <2>1. CASE InitializeWeapon(c)
    BY <2>1 DEF InitializeWeapon
  <2>2. CASE InitializeManager(c)
    BY <2>2 DEF InitializeManager
  <2> QED BY <1>15, <2>1, <2>2
<1>16. CASE Publish(c)
  <2>1. upc' \in UpdaterSteps
    BY <1>16, PublishFacts DEF UpdaterSteps
  <2>2. want' \in [Callers -> States] /\ step' \in [Callers -> 0..LaunchSteps]
    BY <1>16 DEF Publish
  <2>3. early' \in BOOLEAN
    BY <1>16 DEF Publish
  <2> QED BY <1>16, <2>1, <2>2, <2>3 DEF Publish
<1> QED BY <1>2, <1>3, <1>4, <1>6, <1>7, <1>8, <1>10, <1>11, <1>12, <1>14, <1>15,
          <1>16, <1>9, <1>13 DEF CallerStep, Proceed

\* So does every step of the specification.
LEMMA NextType == TypeOK /\ [Next]_vars => TypeOK'
<1> SUFFICES ASSUME TypeOK, [Next]_vars PROVE TypeOK'
  OBVIOUS
<1> USE DEF TypeOK, States, UpdaterSteps
<1>1. ASSUME NEW c \in Callers, CallerStep(c) PROVE TypeOK'
  BY <1>1, CallerType
<1>2. CASE UpdateRead
  <2>1. early' \in BOOLEAN
    BY <1>2 DEF UpdateRead, Enter
  <2> QED BY <1>2, <2>1 DEF UpdateRead, Enter
<1>3. CASE UpdateCheck \/ UpdateWrite
  BY <1>3 DEF UpdateCheck, UpdateWrite
<1>4. CASE UpdatePlan
  <2>1. planValid' \in BOOLEAN /\ upc' \in {"idle", "valid"}
    BY <1>4 DEF UpdatePlan, Calculate
  <2> QED BY <1>4, <2>1 DEF UpdatePlan, Calculate
<1>5. CASE TestPlan
  BY <1>5 DEF TestPlan
<1>6. CASE SetFireSolutionReady
  <2>1. fireReady' \in BOOLEAN
    BY <1>6 DEF SetFireSolutionReady
  <2> QED BY <1>6, <2>1 DEF SetFireSolutionReady
<1>7. CASE CalculateAllEngagementPlans
  <2>1. early' \in BOOLEAN
    BY <1>7 DEF CalculateAllEngagementPlans
  <2> QED BY <1>7, <2>1 DEF CalculateAllEngagementPlans, Calculate
<1>8. CASE UpdateWaypoints
  BY <1>8 DEF UpdateWaypoints
<1>9. CASE UNCHANGED vars
  BY <1>9 DEF vars
<1> QED BY <1>1, <1>2, <1>3, <1>4, <1>5, <1>6, <1>7, <1>8, <1>9
       DEF Next, Update, CallerStep

\* The variables of a weapon always have their types.
THEOREM TypeCorrect == Spec => []TypeOK
BY InitType, NextType, PTL DEF Spec
----------------------------------------------------------------------------
(* The inductive invariant *)

\* Only the functions of the tube change whether the weapon is being dropped or
\* initialised.
LEMMA TubeUnchanged ==
    ASSUME TypeOK, NEW c \in Callers, NEW label \in CallerSteps,
           pc[c] \notin {"initialize", "manager", "resetPlan", "detach"},
           label \notin {"initialize", "manager", "resetPlan", "detach"},
           Goto(c, label), attached' = attached
    PROVE  Cleared' = Cleared /\ Initializing' = Initializing
BY DEF TypeOK, Goto, Cleared, Initializing

LEMMA InitInv == Init => IInv
<1> SUFFICES ASSUME Init PROVE IInv
  OBVIOUS
<1>1. TypeOK
  BY InitType
<1>2. MutexInv /\ LaunchInv
  BY CallersAssumption DEF Init, MutexInv, LaunchInv, Holding, InLaunch
<1>3. Disturbed
  BY DEF Init, Disturbed, Cleared
<1> QED BY <1>1, <1>2, <1>3 DEF IInv, Init, Disturbed, FreshInv, LaunchSeen,
          LaunchNeedsFireSolution, UpdaterInv

\* A caller enters the weapon, leaves it empty-handed, or enters the tube.
LEMMA OutsideStep ==
    ASSUME IInv, TypeOK', NEW c \in Callers, NEW label \in CallerSteps,
           pc[c] \in {"idle", "lock", "stop"},
           label \in {"idle", "lock", "stop", "clear", "publish"}, Goto(c, label),
           \A d \in Callers : d # c => want'[d] = want[d],
           UNCHANGED <<weapon, stateMutex, attached, planValid, step, updater>>,
           early => early',
           label \in {"lock", "stop"} => early' = (early \/ Initializing)
    PROVE  IInv'
<1>1. Cleared' = Cleared /\ Initializing' = Initializing
  BY TubeUnchanged DEF IInv
<1>2. Disturbed => Disturbed'
  BY <1>1 DEF Disturbed
<1>3. MutexInv'
  BY DEF IInv, TypeOK, MutexInv, Holding, Goto
<1>4. FreshInv'
  <2>1. Initializing' /\ ~Disturbed' => label \notin {"lock", "stop"}
    BY <1>1 DEF Disturbed
  <2>2. \A d \in Callers : pc'[d] = IF d = c THEN label ELSE pc[d]
    BY DEF Goto, IInv, TypeOK
  <2> QED BY <1>1, <1>2, <2>1, <2>2 DEF IInv, FreshInv, Inside
<1>5. LaunchInv'
  BY <1>2 DEF IInv, TypeOK, LaunchInv, InLaunch, Goto
<1>6. LaunchSeen'
  BY DEF IInv, TypeOK, LaunchSeen, InLaunch, Goto
<1>7. LaunchNeedsFireSolution' /\ UpdaterInv'
  BY <1>1, <1>2 DEF IInv, LaunchNeedsFireSolution, UpdaterInv, Disturbed
<1> QED BY <1>3, <1>4, <1>5, <1>6, <1>7 DEF IInv

LEMMA CallStep ==
    ASSUME IInv, TypeOK', NEW c \in Callers,
           \/ \E s \in States : Request(c, s)
           \/ EmergencyStop(c) \/ AssignWeapon(c) \/ Unassign(c) \/ Reject(c)
    PROVE  IInv'
<1> USE DEF CallerSteps, Inside
<1>1. ASSUME NEW s \in States, NEW label \in {"lock", "stop"}, CallRequest(c, s, label)
      PROVE  IInv'
  <2>1. \A d \in Callers : d # c => want'[d] = want[d]
    BY <1>1 DEF CallRequest, IInv, TypeOK
  <2>2. early' = (early \/ Initializing)
    BY <1>1 DEF CallRequest, Enter
  <2> QED BY <1>1, <2>1, <2>2, OutsideStep DEF CallRequest, Enter
<1>2. CASE \E s \in States : Request(c, s)
  BY <1>1, <1>2 DEF Request
<1>3. CASE EmergencyStop(c)
  BY <1>1, <1>3 DEF EmergencyStop, States
<1>4. CASE AssignWeapon(c) \/ Unassign(c) \/ Reject(c)
  <2>1. /\ pc[c] \in {"idle", "lock", "stop"}
        /\ UNCHANGED <<weapon, stateMutex, tube, step, updater>>
        /\ \A d \in Callers : d # c => want'[d] = want[d]
    BY <1>4 DEF AssignWeapon, Unassign, Reject, Waiting, Leave, IInv, TypeOK
  <2>2. PICK label \in {"idle", "clear", "publish"} : Goto(c, label)
    BY <1>4 DEF AssignWeapon, Unassign, Reject, Leave
  <2> QED BY <2>1, <2>2, OutsideStep
<1> QED BY <1>2, <1>3, <1>4

\* A validated transition: launches are validated from RTL, and nobody else is
\* inside.
LEMMA AcceptStep ==
    ASSUME IInv, TypeOK', NEW c \in Callers, Accept(c)
    PROVE  IInv'
<1> USE DEF Accept, Waiting
<1>1. Cleared' = Cleared /\ Initializing' = Initializing
  BY TubeUnchanged DEF IInv, CallerSteps, Inside
<1>2. \A d \in Callers : ~Holding(d)
  BY CallersAssumption DEF IInv, MutexInv
<1>3. \A d \in Callers : pc'[d] = IF d = c THEN "enter" ELSE pc[d]
  BY DEF Goto, IInv, TypeOK
<1>4. MutexInv'
  BY <1>2, <1>3, CallersAssumption DEF IInv, MutexInv, Holding
<1>5. FreshInv'
  BY <1>1 DEF IInv, FreshInv, Disturbed, Inside
<1>6. want[c] = "LAUNCH" => state = "RTL"
  BY DEF IInv, TypeOK, States, IsValidTransition, TransitionMap
<1>7. LaunchInv'
  <2>1. want[c] = "LAUNCH" => ~abortFlag'
    OBVIOUS
  <2>2. want' = want /\ state' = state
    OBVIOUS
  <2> QED BY <1>2, <1>3, <1>6, <2>1, <2>2 DEF LaunchInv, InLaunch, Holding
<1>8. LaunchSeen'
  BY <1>2 DEF IInv, LaunchSeen, InLaunch, Holding
<1>9. LaunchNeedsFireSolution' /\ UpdaterInv'
  BY <1>1 DEF IInv, LaunchNeedsFireSolution, UpdaterInv, Disturbed
<1> QED BY <1>4, <1>5, <1>7, <1>8, <1>9 DEF IInv

\* The holder of m_stateMutex stores a state other than RTL and LAUNCH and
\* returns, or goes on with the power-on check.
LEMMA HolderStep ==
    ASSUME IInv, TypeOK', NEW c \in Callers,
           \/ EnterAndReturn(c) \/ EnterPowerOnCheck(c)
           \/ FinishPowerOnCheck(c) \/ FinishLaunch(c)
    PROVE  IInv'
<1> USE DEF EnterAndReturn, EnterPowerOnCheck, FinishPowerOnCheck, FinishLaunch
<1>1. PICK label \in {"idle", "poc"} :
        Goto(c, label) /\ stateMutex' = IF label = "idle" THEN NoCaller ELSE c
  BY DEF Return, Leave, IInv, MutexInv, Holding
<1>2. Cleared' = Cleared /\ Initializing' = Initializing
  BY <1>1, TubeUnchanged DEF IInv, CallerSteps, Inside
<1>3. Holding(c) /\ stateMutex = c /\ \A d \in Callers : d # c => ~Holding(d)
  BY DEF IInv, MutexInv, Holding
<1>4. state' \notin {"RTL", "LAUNCH"} /\ tube' = tube
  OBVIOUS
<1>5. \A d \in Callers : pc'[d] = IF d = c THEN label ELSE pc[d]
  BY <1>1 DEF Goto, IInv, TypeOK
<1>6. MutexInv'
  BY <1>1, <1>3, <1>5, CallersAssumption DEF MutexInv, Holding
<1>7. FreshInv'
  BY <1>2, <1>3, <1>4 DEF IInv, FreshInv, Disturbed, Inside, Holding
<1>8. LaunchInv'
  BY <1>3, <1>5 DEF LaunchInv, InLaunch, Holding
<1>9. LaunchSeen' /\ LaunchNeedsFireSolution'
  BY <1>4 DEF LaunchSeen, LaunchNeedsFireSolution
<1>10. UpdaterInv'
  BY <1>2, <1>4 DEF IInv, UpdaterInv, Disturbed
<1> QED BY <1>6, <1>7, <1>8, <1>9, <1>10 DEF IInv

\* The launch itself: it starts from RTL, with a fire solution, and goes on.
LEMMA LaunchingStep ==
    ASSUME IInv, TypeOK', NEW c \in Callers,
           EnterLaunch(c) \/ LaunchStep(c) \/ MarkLaunched(c)
    PROVE  IInv'
<1> USE DEF EnterLaunch, LaunchStep, MarkLaunched
<1>1. ~abortFlag /\ Holding(c) /\ stateMutex = c
  BY DEF IInv, LaunchInv, MutexInv, InLaunch, Holding
<1>2. PICK label \in {"launching", "post"} :
        \A d \in Callers : pc'[d] = IF d = c THEN label ELSE pc[d]
  BY <1>1 DEF Goto, IInv, TypeOK
<1>3. UNCHANGED <<fireReady, abortFlag, stateMutex, tube, want, updater>>
  BY <1>1
<1>4. Cleared' = Cleared /\ Initializing' = Initializing
  BY <1>1, <1>2, <1>3 DEF Cleared, Initializing, Holding
<1>5. state' = IF pc[c] = "enter" THEN "LAUNCH" ELSE state
  BY <1>1
<1>6. \A d \in Callers : d # c => ~Holding(d)
  BY <1>1 DEF IInv, MutexInv
<1>7. MutexInv'
  BY <1>1, <1>2, <1>3 DEF IInv, MutexInv, Holding
<1>8. pc[c] = "enter" => want[c] = "LAUNCH"
  BY <1>1
<1>9. pc'[c] = "post" => launched'
  BY <1>1, <1>2 DEF Goto, IInv, TypeOK
<1>10. Disturbed' = Disturbed
  BY <1>3, <1>4 DEF Disturbed
<1>11. FreshInv'
  BY <1>1, <1>4, <1>10 DEF IInv, FreshInv, Inside, Holding
<1>12. LaunchInv'
  <2>1. ~Disturbed => state' = "LAUNCH"
    BY <1>1, <1>5 DEF IInv, LaunchInv, InLaunch
  <2> QED BY <1>1, <1>2, <1>3, <1>6, <1>9, <1>10, <2>1 DEF LaunchInv, InLaunch, Holding
<1>13. LaunchSeen'
  BY <1>2 DEF LaunchSeen, InLaunch
<1>14. LaunchNeedsFireSolution'
  BY <1>1, <1>3, <1>4, <1>5, <1>8
     DEF IInv, LaunchInv, LaunchNeedsFireSolution, Disturbed
<1>15. UpdaterInv'
  BY <1>3, <1>10, <1>5, <1>8 DEF IInv, LaunchInv, UpdaterInv
<1> QED BY <1>7, <1>11, <1>12, <1>13, <1>14, <1>15 DEF IInv

\* The tube drops the weapon: Reset waits for a launch to end.
LEMMA DropStep ==
    ASSUME IInv, TypeOK', NEW c \in Callers,
           ResetWeapon(c) \/ ResetPlan(c) \/ Detach(c)
    PROVE  IInv'
<1> USE DEF ResetWeapon, ResetPlan, Detach, Reset
<1>1. PICK label \in {"idle", "resetPlan", "detach"} :
        \A d \in Callers : pc'[d] = IF d = c THEN label ELSE pc[d]
  BY DEF Goto, IInv, TypeOK
<1>2. Cleared'
  BY <1>1 DEF Cleared, Goto, IInv, TypeOK
<1>3. ~Holding(c)
  BY DEF Holding
<1>4. MutexInv'
  BY <1>1, <1>3 DEF IInv, MutexInv, Holding
<1>5. (abortFlag' => abortFlag) /\ upc' = upc /\ seen' = seen
  OBVIOUS
<1>6. LaunchInv'
  BY <1>1, <1>2, <1>5 DEF IInv, LaunchInv, InLaunch, Disturbed
<1>7. LaunchSeen'
  BY <1>1, <1>3 DEF IInv, LaunchSeen, InLaunch, Holding
<1>8. FreshInv' /\ LaunchNeedsFireSolution' /\ UpdaterInv'
  BY <1>2, <1>5 DEF IInv, FreshInv, LaunchNeedsFireSolution, UpdaterInv, Disturbed
<1> QED BY <1>4, <1>6, <1>7, <1>8 DEF IInv

\* A new weapon is in the tube for all to use: nobody is inside yet.
LEMMA PublishStep ==
    ASSUME IInv, TypeOK', NEW c \in Callers, Publish(c)
    PROVE  IInv'
<1>1. \A d \in Callers : pc'[d] \notin Inside
  BY PublishFacts DEF IInv
<1>2. /\ state' = "OFF" /\ ~launched' /\ ~fireReady'
      /\ stateMutex' = NoCaller /\ upc' \notin {"check", "write"}
      /\ ~early' => upc' = "idle"
  BY PublishFacts DEF IInv, Publish
<1>3. MutexInv' /\ LaunchInv'
  BY <1>1, <1>2, CallersAssumption DEF MutexInv, LaunchInv, Holding, InLaunch, Inside
<1>4. FreshInv'
  BY <1>1, <1>2 DEF FreshInv, Disturbed
<1>5. LaunchSeen' /\ LaunchNeedsFireSolution' /\ UpdaterInv'
  BY <1>2 DEF LaunchSeen, LaunchNeedsFireSolution, UpdaterInv, Disturbed
<1> QED BY <1>3, <1>4, <1>5 DEF IInv

\* It is initialised: nothing is lost unless somebody has used it already.
LEMMA InitializeStep ==
    ASSUME IInv, TypeOK', NEW c \in Callers,
           InitializeWeapon(c) \/ InitializeManager(c)
    PROVE  IInv'
<1> USE DEF InitializeWeapon, InitializeManager, Reset
<1>1. PICK label \in {"manager", "idle"} :
        \A d \in Callers : pc'[d] = IF d = c THEN label ELSE pc[d]
  BY DEF Goto, IInv, TypeOK
<1>2. Cleared' = Cleared /\ early' = early
  BY <1>1 DEF Cleared
<1>3. Initializing /\ Disturbed' = Disturbed
  BY <1>2 DEF Initializing, Disturbed
<1>4. /\ state' # "OFF" => UNCHANGED weapon
      /\ stateMutex' = stateMutex /\ upc' = upc /\ seen' = seen
      /\ (abortFlag' => abortFlag) /\ (launched' => launched)
      /\ (fireReady' => fireReady)
  OBVIOUS
<1>5. ~Disturbed => state' = "OFF"
  BY <1>3 DEF IInv, FreshInv
<1>6. MutexInv'
  BY <1>1, <1>4 DEF IInv, MutexInv, Holding
<1>7. FreshInv'
  BY <1>1, <1>3, <1>4, <1>5 DEF IInv, FreshInv, Inside
<1>8. LaunchInv'
  <2>1. ~Disturbed => \A d \in Callers : pc[d] \notin Inside
    BY <1>3 DEF IInv, FreshInv
  <2>2. \A d \in Callers : (pc[d] \in Inside <=> pc'[d] \in Inside) /\ want'[d] = want[d]
    BY <1>1 DEF Inside
  <2>3. ASSUME NEW d \in Callers, pc'[d] \in {"enter", "launching", "post"}
        PROVE  Disturbed /\ pc[d] = pc'[d]
    BY <1>1, <2>1, <2>2, <2>3 DEF Inside
  <2> QED BY <1>3, <1>4, <2>2, <2>3 DEF IInv, LaunchInv, InLaunch
<1>9. LaunchSeen'
  BY <1>1, <1>4 DEF IInv, LaunchSeen, InLaunch
<1>10. LaunchNeedsFireSolution' /\ UpdaterInv'
  BY <1>2, <1>3, <1>4, <1>5
     DEF IInv, FreshInv, LaunchNeedsFireSolution, UpdaterInv, Disturbed
<1> QED BY <1>6, <1>7, <1>8, <1>9, <1>10 DEF IInv

\* The periodic thread: it makes the weapon ready only with a fire solution,
\* and its unlocked store never meets a launch.
LEMMA UpdaterStep ==
    ASSUME IInv, TypeOK', Update \/ CalculateAllEngagementPlans \/ UpdateWaypoints
    PROVE  IInv'
<1> USE DEF Update, UpdateRead, UpdateCheck, UpdateWrite, UpdatePlan, TestPlan,
            SetFireSolutionReady, Calculate, CalculateAllEngagementPlans,
            UpdateWaypoints, Enter
<1>1. /\ UNCHANGED <<abortFlag, stateMutex, attached, pc, want, launched>>
      /\ Cleared' = Cleared /\ Initializing' = Initializing
  BY DEF Cleared, Initializing
<1>2. early => early'
  OBVIOUS
<1>3. Disturbed => Disturbed'
  BY <1>1, <1>2 DEF Disturbed
<1>4. ~Disturbed /\ fireReady => fireReady'
  BY DEF IInv, UpdaterInv
<1>5. MutexInv'
  BY <1>1 DEF IInv, MutexInv, Holding
<1>6. FreshInv'
  <2> SUFFICES ASSUME Initializing', ~Disturbed' PROVE FreshInv'
    BY DEF FreshInv
  <2>1. Initializing /\ ~Disturbed /\ upc = "idle"
    BY <1>1, <1>3 DEF IInv, FreshInv
  <2>2. UpdateWaypoints
    BY <2>1 DEF Disturbed
  <2> QED BY <1>1, <2>1, <2>2 DEF IInv, FreshInv
<1>7. CASE ~UpdateWrite
  <2>1. state' = state
    BY <1>7
  <2>2. LaunchInv' /\ LaunchSeen'
    BY <1>1, <1>3, <2>1 DEF IInv, LaunchInv, LaunchSeen, InLaunch
  <2>3. LaunchNeedsFireSolution'
    BY <1>1, <1>2, <1>4, <2>1 DEF IInv, LaunchNeedsFireSolution, Disturbed
  <2>4. UpdaterInv'
    <3>1. CASE UpdateRead
      BY <1>1, <1>2, <1>3, <2>1, <3>1
         DEF IInv, UpdaterInv, LaunchNeedsFireSolution, Disturbed
    <3>2. CASE UpdateCheck
      <4>1. fireReady' = fireReady /\ upc = "check" /\ Disturbed' = Disturbed
        BY <1>1, <3>2 DEF Disturbed
      <4>2. upc' = "write" => fireReady = (seen = "ON") /\ seen' = seen
        BY <3>2
      <4>3. upc' \in {"write", "plan"}
        BY <3>2
      <4> QED BY <2>1, <4>1, <4>2, <4>3 DEF IInv, UpdaterInv
    <3>3. CASE UpdatePlan \/ CalculateAllEngagementPlans
      BY <3>3 DEF UpdaterInv
    <3>4. CASE TestPlan
      BY <1>1, <1>3, <3>4 DEF IInv, UpdaterInv
    <3>5. CASE SetFireSolutionReady
      BY <3>5 DEF UpdaterInv
    <3>6. CASE UpdateWaypoints
      BY <1>1, <1>3, <2>1, <3>6 DEF IInv, UpdaterInv
    <3> QED BY <1>7, <3>1, <3>2, <3>3, <3>4, <3>5, <3>6
  <2> QED BY <1>5, <1>6, <2>2, <2>3, <2>4 DEF IInv
<1>8. CASE UpdateWrite
  <2>1. state' = (IF seen = "ON" THEN "RTL" ELSE "ON") /\ upc' = "plan"
    BY <1>8
  <2>2. ~Disturbed => seen = "ON" /\ fireReady /\ state \notin {"RTL", "LAUNCH"}
    BY <1>8 DEF IInv, UpdaterInv
  <2>3. LaunchInv'
    BY <1>1, <1>3, <2>2 DEF IInv, LaunchInv, InLaunch
  <2>4. LaunchSeen' /\ UpdaterInv'
    BY <2>1 DEF LaunchSeen, UpdaterInv
  <2>5. LaunchNeedsFireSolution'
    BY <1>1, <1>2, <1>4, <2>2 DEF LaunchNeedsFireSolution, Disturbed
  <2> QED BY <1>5, <1>6, <2>3, <2>4, <2>5 DEF IInv
<1> QED BY <1>7, <1>8

\* Every step keeps the invariant.
LEMMA NextInv == IInv /\ [Next]_vars => IInv'
<1> SUFFICES ASSUME IInv, [Next]_vars PROVE IInv'
  OBVIOUS
<1> TypeOK'
  BY NextType DEF IInv
<1>1. ASSUME NEW c \in Callers, CallerStep(c) PROVE IInv'
  BY <1>1, CallStep, AcceptStep, HolderStep, LaunchingStep, DropStep, PublishStep,
     InitializeStep DEF CallerStep, Proceed
<1>2. CASE Update \/ CalculateAllEngagementPlans \/ UpdateWaypoints
  BY <1>2, UpdaterStep
<1>3. CASE UNCHANGED vars
  BY <1>3 DEF vars, IInv, MutexInv, FreshInv, LaunchInv, LaunchSeen,
     LaunchNeedsFireSolution, UpdaterInv, Holding, InLaunch, Cleared, Disturbed,
     Initializing
<1> QED BY <1>1, <1>2, <1>3 DEF Next, CallerStep

LEMMA Invariance == Spec => []IInv
BY InitInv, NextInv, PTL DEF Spec
----------------------------------------------------------------------------
(* What the invariant is for *)

\* A launch is serialised by m_stateMutex, whatever initialises the weapon under it;
\* the unlocked periodic thread does not disturb it either, unless the weapon was
\* used before it was initialised or is being dropped.
THEOREM LaunchIsSerialised == Spec => []LaunchSerialised
<1>1. IInv => LaunchSerialised
  BY DEF IInv, LaunchSerialised, LaunchInv, LaunchSeen, MutexInv, InLaunch, Holding,
     Disturbed
<1> QED BY <1>1, Invariance, PTL

\* No weapon that was initialised before its first use is ready to launch, or
\* launches, without a fire solution.
THEOREM FireSolutionFirst == Spec => []LaunchNeedsFireSolution
<1>1. IInv => LaunchNeedsFireSolution
  BY DEF IInv
<1> QED BY <1>1, Invariance, PTL

\* The periodic thread and the DDS thread store neither LAUNCH nor m_launched.
LEMMA NoLaunchByUpdate ==
    ASSUME Update \/ CalculateAllEngagementPlans \/ UpdateWaypoints
    PROVE  launched' = launched /\ (state' = "LAUNCH" => state = "LAUNCH")
BY DEF Update, UpdateRead, UpdateCheck, UpdateWrite, UpdatePlan, TestPlan,
   SetFireSolutionReady, Calculate, CalculateAllEngagementPlans, UpdateWaypoints

\* A launch starts from the RTL state it was validated in.
THEOREM StartsFromRTL == Spec => LaunchStartsFromRTL
<1>1. ASSUME IInv, [Next]_vars
      PROVE  [state # "LAUNCH" /\ state' = "LAUNCH" =>
                state = "RTL" \/ Cleared \/ early]_vars
  <2> SUFFICES ASSUME Next, state # "LAUNCH", state' = "LAUNCH"
               PROVE  state = "RTL" \/ Disturbed
    BY <1>1 DEF Disturbed
  <2>1. ASSUME NEW c \in Callers, EnterLaunch(c) PROVE state = "RTL" \/ Disturbed
    BY <1>1, <2>1 DEF EnterLaunch, IInv, LaunchInv
  <2>2. ASSUME NEW c \in Callers, CallerStep(c) PROVE EnterLaunch(c)
    BY <2>2 DEF CallerStep, Request, EmergencyStop, CallRequest, AssignWeapon,
       Unassign, Proceed, Accept, Reject, EnterAndReturn, EnterPowerOnCheck,
       FinishPowerOnCheck, LaunchStep, MarkLaunched, FinishLaunch, ResetWeapon,
       ResetPlan, Detach, Publish, InitializeWeapon, InitializeManager, Reset
  <2>3. ~(Update \/ CalculateAllEngagementPlans \/ UpdateWaypoints)
    BY NoLaunchByUpdate
  <2> QED BY <2>1, <2>2, <2>3 DEF Next, CallerStep
<1> QED BY <1>1, Invariance, PTL DEF Spec, LaunchStartsFromRTL

\* A fired weapon that was initialised before its first use stays fired for the rest
\* of its assignment.
THEOREM StaysFired == Spec => LaunchedIsPermanent
<1>1. ASSUME IInv, [Next]_vars
      PROVE  [launched /\ ~launched' => Cleared \/ Cleared' \/ early']_vars
  <2> SUFFICES ASSUME Next, launched, ~launched' PROVE Cleared \/ Cleared' \/ early'
    BY <1>1
  <2>1. ASSUME NEW c \in Callers, CallerStep(c)
        PROVE  ResetWeapon(c) \/ InitializeWeapon(c) \/ Publish(c)
    BY <2>1 DEF CallerStep, Request, EmergencyStop, CallRequest, AssignWeapon,
       Unassign, Proceed, Accept, Reject, EnterAndReturn, EnterPowerOnCheck,
       FinishPowerOnCheck, EnterLaunch, LaunchStep, MarkLaunched, FinishLaunch,
       ResetPlan, Detach, InitializeManager
  <2>2. ASSUME NEW c \in Callers, ResetWeapon(c) PROVE Cleared'
    BY <1>1, <2>2 DEF ResetWeapon, Goto, Cleared, IInv, TypeOK
  <2>3. ASSUME NEW c \in Callers, InitializeWeapon(c) PROVE Cleared \/ early'
    BY <1>1, <2>3 DEF InitializeWeapon, Initializing, IInv, FreshInv, Disturbed
  <2>4. ASSUME NEW c \in Callers, Publish(c) PROVE Cleared \/ early'
    BY <2>4 DEF Publish, Cleared
  <2>5. ~(Update \/ CalculateAllEngagementPlans \/ UpdateWaypoints)
    BY NoLaunchByUpdate
  <2> QED BY <2>1, <2>2, <2>3, <2>4, <2>5 DEF Next, CallerStep
<1> QED BY <1>1, Invariance, PTL DEF Spec, LaunchedIsPermanent

\* No abort is stored or about to be stored.
NoAbort ==
    /\ state # "ABORT"
    /\ \A c \in Callers : pc[c] = "enter" => want[c] # "ABORT"

\* The abort path of the weapon is dead code: no request and no interleaving
\* reaches it.
THEOREM AbortIsDeadCode == Spec => []AbortNeverTaken
<1>1. IInv => \A c \in Callers : pc[c] = "launching" => ~abortFlag
  BY DEF IInv, LaunchInv, InLaunch
<1>2. Init => NoAbort
  BY DEF Init, NoAbort
<1>3. ASSUME IInv, IInv', NoAbort, [Next]_vars PROVE NoAbort'
  <2>1. ASSUME NEW c \in Callers, Accept(c) PROVE want[c] # "ABORT"
    <3>1. state # "LAUNCH"
      BY <1>3, <2>1, CallersAssumption
         DEF Accept, IInv, LaunchSeen, MutexInv, InLaunch, Holding
    <3> QED BY <1>3, <2>1, <3>1
            DEF Accept, IsValidTransition, TransitionMap, IInv, TypeOK, States
  <2>2. ASSUME NEW c \in Callers, Accept(c) PROVE NoAbort'
    BY <1>3, <2>1, <2>2 DEF Accept, Goto, NoAbort, IInv, TypeOK
  <2>3. ASSUME NEW c \in Callers, Publish(c) PROVE NoAbort'
    <3>1. \A d \in Callers : pc'[d] # "enter"
      BY <1>3, <2>3, PublishFacts DEF IInv, Inside
    <3> QED BY <2>3, <3>1 DEF Publish, NoAbort
  <2>4. ASSUME NEW c \in Callers, LaunchStep(c) PROVE NoAbort'
    BY <1>1, <1>3, <2>4 DEF LaunchStep, NoAbort
  <2>5. ASSUME NEW c \in Callers, NEW s \in States, NEW label \in {"lock", "stop"},
               CallRequest(c, s, label)
        PROVE  NoAbort'
    BY <1>3, <2>5 DEF CallRequest, Goto, NoAbort, IInv, TypeOK
  <2>6. ASSUME NEW c \in Callers,
               \/ AssignWeapon(c) \/ Unassign(c) \/ Reject(c) \/ EnterAndReturn(c)
               \/ EnterPowerOnCheck(c) \/ FinishPowerOnCheck(c) \/ EnterLaunch(c)
               \/ MarkLaunched(c) \/ FinishLaunch(c) \/ ResetWeapon(c) \/ ResetPlan(c)
               \/ Detach(c) \/ InitializeWeapon(c) \/ InitializeManager(c)
        PROVE  NoAbort'
    <3> USE <2>6 DEF AssignWeapon, Unassign, Reject, EnterAndReturn, EnterPowerOnCheck,
                     FinishPowerOnCheck, EnterLaunch, MarkLaunched, FinishLaunch,
                     ResetWeapon, ResetPlan, Detach, InitializeWeapon,
                     InitializeManager, Reset
    <3>1. state' # "ABORT"
      BY <1>3 DEF NoAbort
    <3>2. \E label \in CallerSteps \ {"enter"} : Goto(c, label)
      BY DEF Return, Leave, CallerSteps, Inside
    <3>3. \A d \in Callers : pc'[d] = "enter" => pc[d] = "enter" /\ d # c
      BY <1>3, <3>2 DEF Goto, IInv, TypeOK
    <3>4. \A d \in Callers \ {c} : want'[d] = want[d]
      BY <1>3 DEF Return, Leave, IInv, TypeOK
    <3> QED BY <1>3, <3>1, <3>3, <3>4 DEF NoAbort
  <2>7. CASE \/ Update \/ CalculateAllEngagementPlans \/ UpdateWaypoints
             \/ UNCHANGED vars
    BY <1>3, <2>7 DEF Update, UpdateRead, UpdateCheck, UpdateWrite, UpdatePlan,
       TestPlan, SetFireSolutionReady, CalculateAllEngagementPlans, UpdateWaypoints,
       vars, NoAbort
  <2>8. ASSUME NEW c \in Callers, CallerStep(c)
        PROVE  NoAbort'
    <3>1. CASE EmergencyStop(c)
      BY <2>5, <3>1 DEF EmergencyStop, States
    <3>2. CASE \E s \in States : Request(c, s)
      BY <2>5, <3>2 DEF Request
    <3>3. CASE Accept(c) \/ LaunchStep(c) \/ Publish(c)
      BY <2>2, <2>3, <2>4, <3>3
    <3> QED BY <2>6, <2>8, <3>1, <3>2, <3>3 DEF CallerStep, Proceed
  <2>9. CASE Next
    BY <2>7, <2>8, <2>9 DEF Next, CallerStep
  <2> QED BY <1>3, <2>7, <2>9
<1>4. IInv /\ NoAbort => AbortNeverTaken
  BY <1>1 DEF NoAbort, AbortNeverTaken
<1> QED BY <1>2, <1>3, <1>4, Invariance, PTL DEF Spec

\* Nobody but a launching thread is inside while the state is LAUNCH.
LEMMA NotLaunching ==
    ASSUME IInv, NEW c \in Callers,
           stateMutex = NoCaller \/ (stateMutex = c /\ ~InLaunch(c))
    PROVE  state # "LAUNCH"
BY CallersAssumption DEF IInv, MutexInv, LaunchSeen, InLaunch, Holding

\* Steps FireControl does not see.
LEMMA PhaseUnchanged ==
    ASSUME attached' = attached, Cleared' = Cleared, early' = early,
           launched' = launched,
           ~Disturbed => (state' = "LAUNCH" <=> state = "LAUNCH")
    PROVE  Phase' = Phase
<1>1. CASE Disturbed
  BY <1>1 DEF Phase, Disturbed, Cleared
<1>2. CASE ~Disturbed
  BY <1>2 DEF Phase, Disturbed, Cleared
<1> QED BY <1>1, <1>2

\* What FireControl sees of a weapon, case by case.
LEMMA Phases ==
    /\ ~attached \/ (Cleared /\ ~early) <=> Phase = "dropped"
    /\ attached /\ early <=> Phase = "disputed"
    /\ ~Disturbed /\ launched <=> Phase = "fired"
    /\ ~Disturbed /\ ~launched /\ state = "LAUNCH" <=> Phase = "launching"
    /\ ~Disturbed /\ ~launched /\ state # "LAUNCH" <=> Phase = "safe"
BY DEF Phase, Disturbed, Cleared

\* The step is one of FireControl.
Simulated == [Control!Next]_<<Phase, fireReady>>

\* An early use of the weapon is a Dispute.
LEMMA EarlyUse ==
    ASSUME TypeOK, TypeOK', attached' = attached, Cleared' = Cleared,
           launched' = launched, state' = state, fireReady' = fireReady,
           early => early'
    PROVE  Simulated
<1> USE DEF Simulated, Control!Next, Control!Dispute
<1>1. CASE attached /\ ~early /\ early'
  <2>1. Phase' = "disputed"
    BY <1>1 DEF Phase, Cleared
  <2>2. Phase # "disputed"
    BY <1>1, Phases
  <2> QED BY <2>1, <2>2
<1>2. CASE ~attached
  BY <1>2 DEF Phase, Cleared
<1>3. CASE early = early'
  BY <1>3 DEF Phase, Cleared
<1> QED BY <1>1, <1>2, <1>3 DEF TypeOK

\* The weapon implements the safety part of FireControl.
THEOREM RefinesFireControl == Spec => Control!Spec
<1> USE DEF Control!Next, Control!Solve, Control!Begin, Control!Fire,
            Control!Drop, Control!Renew, Control!Dispute
<1>1. Init => Control!Init
  BY DEF Init, Control!Init, Phase, Cleared
<1>2. ASSUME IInv, IInv', [Next]_vars PROVE Simulated
  <2> USE DEF Simulated
  <2>0. TypeOK /\ TypeOK'
    BY <1>2 DEF IInv
  <2>1. ASSUME NEW c \in Callers,
               \/ \E s \in States : Request(c, s)
               \/ EmergencyStop(c) \/ AssignWeapon(c) \/ Unassign(c)
               \/ Accept(c) \/ Reject(c)
        PROVE  Simulated
    <3> USE <2>1 DEF Request, EmergencyStop, CallRequest, AssignWeapon, Unassign,
                     Accept, Reject, Waiting, Leave, Enter
    <3>1. UNCHANGED <<state, launched, fireReady, attached>>
      OBVIOUS
    <3>4. early => early'
      OBVIOUS
    <3>2. /\ pc[c] \notin {"initialize", "manager", "resetPlan", "detach"}
          /\ \E label \in CallerSteps \ {"initialize", "manager", "resetPlan", "detach"} :
                Goto(c, label)
      BY DEF CallerSteps, Inside
    <3>3. Cleared' = Cleared
      BY <2>0, <3>1, <3>2, TubeUnchanged
    <3> QED BY <2>0, <3>1, <3>3, <3>4, EarlyUse
  <2>2. ASSUME NEW c \in Callers,
               \/ EnterAndReturn(c) \/ EnterPowerOnCheck(c)
               \/ FinishPowerOnCheck(c) \/ FinishLaunch(c)
        PROVE  Simulated
    <3> USE <2>2 DEF EnterAndReturn, EnterPowerOnCheck, FinishPowerOnCheck, FinishLaunch
    <3>1. /\ state' # "LAUNCH" /\ launched' = launched
          /\ UNCHANGED <<fireReady, early, attached>>
      OBVIOUS
    <3>2. /\ pc[c] \notin {"initialize", "manager", "resetPlan", "detach"}
          /\ \E label \in CallerSteps \ {"initialize", "manager", "resetPlan", "detach"} :
                Goto(c, label)
      BY DEF Return, Leave, CallerSteps, Inside
    <3>3. Cleared' = Cleared
      BY <2>0, <3>1, <3>2, TubeUnchanged
    <3>4. CASE FinishLaunch(c)
      <4>1. ~Disturbed => launched
        BY <1>2, <3>4 DEF IInv, LaunchInv
      <4> QED BY <3>1, <3>3, <4>1 DEF Phase, Disturbed, Cleared
    <3>5. CASE ~FinishLaunch(c)
      <4>1. stateMutex = c /\ ~InLaunch(c)
        BY <1>2, <3>5 DEF IInv, MutexInv, Holding, InLaunch
      <4> QED BY <1>2, <3>1, <3>3, <4>1, NotLaunching, PhaseUnchanged
    <3> QED BY <3>4, <3>5
  <2>3. ASSUME NEW c \in Callers,
               EnterLaunch(c) \/ LaunchStep(c) \/ MarkLaunched(c)
        PROVE  Simulated
    <3> USE <2>3 DEF EnterLaunch, LaunchStep, MarkLaunched
    <3>1. ~abortFlag /\ UNCHANGED <<fireReady, early, attached>>
      BY <1>2 DEF IInv, LaunchInv, InLaunch
    <3>2. \A d \in Callers : (pc'[d] \in {"resetPlan", "detach"})
                               <=> (pc[d] \in {"resetPlan", "detach"})
      BY <2>0, <3>1 DEF Goto, TypeOK
    <3>3. Cleared' = Cleared
      BY <3>1, <3>2 DEF Cleared
    <3>4. CASE EnterLaunch(c)
      <4>1. CASE Disturbed
        BY <3>1, <3>3, <4>1 DEF Phase, Disturbed, Cleared
      <4>2. CASE ~Disturbed
        <5>1. state = "RTL" /\ fireReady
          BY <1>2, <3>4, <4>2
             DEF IInv, LaunchInv, LaunchNeedsFireSolution, Disturbed
        <5>2. state' = "LAUNCH" /\ launched' = launched /\ fireReady' = fireReady
          BY <3>1, <3>4
        <5> QED BY <3>1, <3>3, <4>2, <5>1, <5>2 DEF Phase, Disturbed, Cleared
      <4> QED BY <4>1, <4>2
    <3>5. CASE LaunchStep(c)
      BY <3>1, <3>3, <3>5, PhaseUnchanged
    <3>6. CASE MarkLaunched(c)
      <4>1. ~Disturbed => state = "LAUNCH"
        BY <1>2, <3>6 DEF IInv, LaunchInv, InLaunch
      <4>2. state' = state /\ launched'
        BY <3>6
      <4> QED BY <3>1, <3>3, <4>1, <4>2 DEF Phase, Disturbed, Cleared
    <3> QED BY <3>4, <3>5, <3>6
  <2>4. ASSUME NEW c \in Callers, ResetWeapon(c) PROVE Simulated
    <3>1. state # "LAUNCH"
      BY <1>2, <2>4, NotLaunching DEF ResetWeapon, Reset
    <3>2. Cleared' /\ fireReady' = FALSE /\ early' = early /\ attached' = attached
      BY <2>0, <2>4 DEF ResetWeapon, Reset, Cleared, Goto, TypeOK
    <3>3. CASE Phase \in {"dropped", "disputed"}
      <4>1. Phase' \in {Phase, "dropped"}
        BY <3>2, <3>3, Phases DEF Phase, Cleared
      <4> QED BY <3>2, <3>3, <4>1
    <3>4. CASE Phase \in {"safe", "fired"}
      <4>1. Phase' = "dropped"
        BY <3>2, <3>4, Phases DEF Phase, Disturbed, Cleared
      <4> QED BY <3>2, <3>4, <4>1
    <3>5. Phase \in {"dropped", "disputed", "fired", "safe"}
      BY <3>1 DEF Phase, Cleared
    <3> QED BY <3>3, <3>4, <3>5
  <2>5. ASSUME NEW c \in Callers, ResetPlan(c) \/ Detach(c) PROVE Simulated
    <3>1. /\ Cleared /\ Cleared' /\ fireReady' = fireReady /\ early' = early
          /\ attached' = attached \/ ~attached'
      BY <2>0, <2>5 DEF ResetPlan, Detach, Cleared, Goto, TypeOK
    <3>2. Phase \in {"dropped", "disputed"} /\ Phase' \in {Phase, "dropped"}
      BY <3>1 DEF Phase, Cleared
    <3> QED BY <3>1, <3>2
  <2>6. ASSUME NEW c \in Callers, Publish(c) PROVE Simulated
    <3>1. /\ fireReady' = FALSE /\ state' = "OFF" /\ ~launched' /\ attached'
          /\ attached => early'
      BY <2>6 DEF Publish
    <3>2. CASE early'
      <4>1. Phase' = "disputed"
        BY <3>1, <3>2 DEF Phase, Cleared
      <4> QED BY <3>1, <4>1
    <3>3. CASE ~early'
      <4>1. Phase = "dropped"
        BY <3>1, <3>3 DEF Phase, Cleared
      <4>2. Phase' \in {"dropped", "safe"}
        BY <3>1, <3>3 DEF Phase, Cleared
      <4> QED BY <3>1, <4>1, <4>2
    <3> QED BY <3>2, <3>3
  <2>7. ASSUME NEW c \in Callers, InitializeWeapon(c) \/ InitializeManager(c)
        PROVE  Simulated
    <3> USE <2>7 DEF InitializeWeapon, InitializeManager, Reset
    <3>1. Cleared' = Cleared /\ early' = early /\ attached' = attached
      BY <2>0 DEF Goto, TypeOK, Cleared
    <3>2. fireReady' = fireReady \/ fireReady' = FALSE
      OBVIOUS
    <3>3. CASE Disturbed
      <4>1. Phase' = Phase /\ Phase \in {"dropped", "disputed"}
        BY <3>1, <3>3 DEF Phase, Disturbed, Cleared
      <4> QED BY <2>0, <3>2, <4>1 DEF TypeOK
    <3>4. CASE ~Disturbed
      <4>1. state = "OFF" /\ ~launched /\ ~fireReady
        BY <1>2, <3>4 DEF IInv, FreshInv, Initializing
      <4>2. state' = "OFF" /\ launched' = launched /\ fireReady' = fireReady
        BY <2>0, <4>1 DEF TypeOK
      <4> QED BY <3>1, <4>1, <4>2, PhaseUnchanged
    <3> QED BY <3>3, <3>4
  <2>8. CASE Update \/ CalculateAllEngagementPlans \/ UpdateWaypoints
    <3> USE <2>8 DEF Update, UpdateRead, UpdateCheck, UpdateWrite, UpdatePlan,
                     TestPlan, SetFireSolutionReady, Calculate,
                     CalculateAllEngagementPlans, UpdateWaypoints, Enter
    <3>1. launched' = launched /\ Cleared' = Cleared /\ attached' = attached
      BY DEF Cleared
    <3>5. early => early'
      OBVIOUS
    <3>2. CASE UpdateWrite
      <4>1. ~Disturbed => state' # "LAUNCH" /\ state # "LAUNCH"
        BY <1>2, <3>2 DEF IInv, UpdaterInv
      <4> QED BY <3>1, <3>2, <4>1, PhaseUnchanged
    <3>3. CASE SetFireSolutionReady
      <4>1. Phase' = Phase
        BY <3>1, <3>3, PhaseUnchanged
      <4>2. fireReady' \in BOOLEAN /\ (fireReady' \/ Disturbed)
        BY <1>2, <2>0, <3>3 DEF IInv, UpdaterInv, TypeOK
      <4>3. Disturbed => Phase \in {"dropped", "disputed"}
        BY DEF Phase, Disturbed, Cleared
      <4> QED BY <4>1, <4>2, <4>3
    <3>4. CASE ~UpdateWrite /\ ~SetFireSolutionReady
      <4>1. state' = state /\ fireReady' = fireReady
        BY <3>4
      <4> QED BY <2>0, <3>1, <3>5, <4>1, EarlyUse
    <3> QED BY <3>2, <3>3, <3>4
  <2>9. CASE UNCHANGED vars
    BY <2>9 DEF vars, Phase, Cleared
  <2>10. CASE Next
    BY <2>1, <2>2, <2>3, <2>4, <2>5, <2>6, <2>7, <2>8, <2>10 DEF Next, Proceed
  <2> QED BY <1>2, <2>9, <2>10
<1> QED BY <1>1, <1>2, Invariance, PTL DEF Spec, Control!Spec, Simulated
=============================================================================
