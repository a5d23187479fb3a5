-------------------------- MODULE LaunchTube_proofs --------------------------
(***************************************************************************)
(* Proofs about module LaunchTube, for any number of threads that assign   *)
(* and control, and any messages.                                          *)
(***************************************************************************)
EXTENDS LaunchTube, TLAPS

----------------------------------------------------------------------------
(* The inductive invariant *)

\* Caller c has not finished an assignment: it will make a new manager, or copy the
\* environment into the one there is.
Renewing(c) ==
    \/ pc[c] \in {"manager", "initialize", "info", "environment"}
    \/ pc[c] \in {"compute", "store"} /\ ret[c] \in {"info", "environment"}

\* A message that the DDS thread passes on is the latest of its kind.
MessageInv ==
    /\ pc["dds"] \in {"idle", "deliver", "route"}
    /\ pc["dds"] = "deliver" => news \in {ship} \cup known /\ news # NoInfo
    /\ pc["dds"] = "route" => news \in Routes

\* While the tube lacks the own ship, somebody is about to bring it ...
ShipInv ==
    weapon # None /\ manager # None /\ manager.ship # ship =>
        \/ pc["dds"] = "deliver" /\ news \in Ships
        \/ \E c \in Callers : Renewing(c)

\* ... and likewise the target.
TargetInv ==
    weapon # None /\ manager # None /\ manager.track \in known
            /\ manager.target = NoInfo =>
        \/ pc["dds"] = "deliver" /\ news \in Targets
        \/ \E c \in Callers : Renewing(c)

IInv == TypeOK /\ (~crashed => MessageInv /\ ShipInv /\ TargetInv)

(* TypeOK in two parts, for the provers *)

TubeType ==
    /\ weapon \in Weapons \cup {None} /\ manager \in Managers \cup {None}
    /\ tubeState \in TubeStates /\ observed \in BOOLEAN
    /\ ship \in Ships \cup {NoInfo} /\ known \in SUBSET Targets
    /\ copied \in Routes \cup {NoRoute}
    /\ news \in Ships \cup Targets \cup Routes \cup {NoInfo}
    /\ crashed \in BOOLEAN

ThreadType ==
    /\ pc \in [Threads -> Steps] /\ ret \in [Threads -> Steps]
    /\ next \in [Threads -> TubeStates]

LEMMA TypeParts == TypeOK <=> TubeType /\ ThreadType
BY DEF TypeOK, TubeType, ThreadType

LEMMA TypePartsNext == TypeOK' <=> TubeType' /\ ThreadType'
BY TypeParts, PTL

LEMMA InitInv == Init => IInv
<1> SUFFICES ASSUME Init PROVE IInv
  OBVIOUS
<1>1. TypeOK
  BY DEF Init, TypeOK, TubeStates, Steps
<1>2. MessageInv /\ ShipInv /\ TargetInv
  BY DEF Init, MessageInv, ShipInv, TargetInv, Threads
<1> QED BY <1>1, <1>2 DEF IInv
----------------------------------------------------------------------------
(* Kinds of steps *)

\* Where a thread goes, the others stay.
LEMMA Moved ==
    ASSUME TypeOK, NEW t \in Threads, NEW label \in Steps, Goto(t, label)
    PROVE  /\ pc' \in [Threads -> Steps] /\ pc'[t] = label
           /\ \A u \in Threads : u # t => pc'[u] = pc[u]
BY DEF TypeOK, Goto

LEMMA Threading ==
    /\ "dds" \in Threads /\ "periodic" \in Threads /\ Callers \subseteq Threads
    /\ "dds" \notin Callers /\ "periodic" \notin Callers /\ "dds" # "periodic"
BY ThreadsAssumption DEF Threads

\* The tube loses nothing that it has.
LEMMA Kept ==
    ASSUME IInv, ~crashed, UNCHANGED <<ship, known, news>>, pc'["dds"] = pc["dds"],
           weapon' # None /\ manager' # None =>
               /\ weapon # None /\ manager # None
               /\ manager'.ship = manager.ship /\ manager'.target = manager.target
               /\ manager'.track = manager.track
               /\ \A c \in Callers : Renewing(c) => Renewing(c)'
    PROVE  MessageInv' /\ ShipInv' /\ TargetInv'
<1>1. MessageInv'
  BY DEF IInv, MessageInv
<1>2. ShipInv' /\ TargetInv'
  BY DEF IInv, ShipInv, TargetInv
<1> QED BY <1>1, <1>2

\* Somebody will renew it.
LEMMA Renewed ==
    ASSUME IInv, ~crashed, UNCHANGED <<ship, known, news>>, pc'["dds"] = pc["dds"],
           NEW c \in Callers, Renewing(c)'
    PROVE  MessageInv' /\ ShipInv' /\ TargetInv'
BY DEF IInv, MessageInv, ShipInv, TargetInv

\* A thread goes on and leaves the tube, the environment and its locals alone.
LEMMA QuietStep ==
    ASSUME IInv, ~crashed, NEW t \in Threads, NEW label \in Steps,
           Goto(t, label) \/ pc' = pc,
           t \in Callers => ~Renewing(t) \/ pc'[t] = pc[t],
           t = "dds" => pc' = pc,
           UNCHANGED <<tube, environment, ret, next, news>>,
           copied' \in Routes \cup {NoRoute}, crashed' \in BOOLEAN
    PROVE  IInv'
<1>1. /\ pc' \in [Threads -> Steps]
      /\ \A u \in Threads : u # t => pc'[u] = pc[u]
  BY Moved DEF IInv, TypeOK
<1>2. TypeOK'
  BY <1>1 DEF IInv, TypeOK, tube, environment
<1>3. MessageInv' /\ ShipInv' /\ TargetInv'
  <2>1. \A c \in Callers : Renewing(c) => Renewing(c)'
    BY <1>1, Threading DEF Renewing
  <2>2. pc'["dds"] = pc["dds"]
    BY <1>1, Threading
  <2> QED BY <2>1, <2>2, Kept DEF tube, environment
<1> QED BY <1>2, <1>3 DEF IInv
----------------------------------------------------------------------------
(* The steps *)

LEMMA QuietSteps ==
    ASSUME IInv,
           \/ \E c \in Callers : \/ AssignWeapon(c) \/ CheckAssigned(c) \/ UnassignWeapon(c)
                                 \/ AskKind(c) \/ GetStatus(c) \/ AskStatus(c)
           \/ UpdateBegin \/ UpdatePlan \/ CalculateAllEngagementPlans \/ BeginPlan
           \/ FinishPlan \/ GetEngagementResult \/ AskResult
    PROVE  IInv'
<1> USE DEF At, Follow, Steps, tasks
<1>1. ASSUME NEW c \in Callers,
             \/ AssignWeapon(c) \/ CheckAssigned(c) \/ UnassignWeapon(c)
             \/ AskKind(c) \/ GetStatus(c) \/ AskStatus(c)
      PROVE  IInv'
  <2>1. ~Renewing(c) /\ ~crashed /\ c \in Threads /\ c # "dds"
    BY <1>1, Threading DEF AssignWeapon, CheckAssigned, UnassignWeapon, AskKind, GetStatus,
                           AskStatus, Renewing
  <2>2. \E label \in Steps : Goto(c, label) \/ pc' = pc
    BY <1>1 DEF AssignWeapon, CheckAssigned, UnassignWeapon, AskKind, GetStatus, AskStatus
  <2>3. /\ UNCHANGED <<tube, environment, ret, next, news, copied>>
        /\ crashed' \in BOOLEAN
    BY <1>1 DEF AssignWeapon, CheckAssigned, UnassignWeapon, AskKind, GetStatus, AskStatus,
                IInv, TypeOK
  <2> QED BY <2>1, <2>2, <2>3, QuietStep DEF IInv, TypeOK
<1>2. ASSUME \/ UpdateBegin \/ UpdatePlan \/ CalculateAllEngagementPlans \/ BeginPlan
             \/ FinishPlan \/ GetEngagementResult \/ AskResult
      PROVE  IInv'
  <2> USE DEF UpdateBegin, UpdatePlan, CalculateAllEngagementPlans, BeginPlan, FinishPlan,
              GetEngagementResult, AskResult
  <2>1. ~crashed /\ \E label \in Steps : Goto("periodic", label) \/ pc' = pc
    BY <1>2
  <2>2. UNCHANGED <<tube, environment, ret, next, news>> /\ crashed' \in BOOLEAN
    BY <1>2 DEF IInv, TypeOK
  <2>3. copied' = copied \/ (manager \in Managers /\ copied' = manager.waypoints)
    BY <1>2 DEF IInv, TypeOK
  <2>4. copied' \in Routes \cup {NoRoute}
    BY <2>3 DEF IInv, TypeOK, Managers
  <2> QED BY <2>1, <2>2, <2>4, Threading, QuietStep
<1> QED BY <1>1, <1>2

\* UpdateTubeState is called, computes, stores and returns.
LEMMA UpdateTubeStateStep ==
    ASSUME IInv, NEW t \in Threads, UpdateTubeState(t)
    PROVE  IInv'
<1> USE DEF UpdateTubeState, ComputeTubeState, StoreTubeState, Return, At
<1>1. /\ ~crashed /\ pc[t] \in {"compute", "store"} /\ t # "dds"
      /\ UNCHANGED <<weapon, manager, observed, ship, known, news, copied, crashed>>
  BY DEF environment, tasks, tube, IInv, MessageInv
<1>2. TubeType'
  <2>1. tubeState' \in TubeStates
    BY DEF IInv, TypeOK, tube
  <2> QED BY <1>1, <2>1, TypeParts DEF IInv, TubeType
<1>3. CASE ComputeTubeState(t)
  <2>1. /\ pc' \in [Threads -> Steps] /\ pc'[t] = "store"
        /\ \A u \in Threads : u # t => pc'[u] = pc[u]
        /\ ret' = ret
    BY <1>3, Moved DEF IInv, Steps
  <2>2. next' \in [Threads -> TubeStates]
    BY <1>3 DEF IInv, TypeOK, TubeStates, Weapons
  <2>3. \A c \in Callers : Renewing(c) => Renewing(c)'
    BY <1>3, <2>1, Threading DEF Renewing
  <2> QED BY <1>1, <1>2, <2>1, <2>2, <2>3, Threading, Kept, TypePartsNext
             DEF IInv, TypeOK, ThreadType
<1>4. CASE StoreTubeState(t)
  <2>1. /\ pc' \in [Threads -> Steps] /\ pc'[t] = ret[t]
        /\ \A u \in Threads : u # t => pc'[u] = pc[u]
    BY <1>4, Moved DEF IInv, TypeOK
  <2>2. /\ next' \in [Threads -> TubeStates] /\ ret' \in [Threads -> Steps]
        /\ \A u \in Threads : u # t => ret'[u] = ret[u]
    BY <1>4 DEF IInv, TypeOK, TubeStates, Steps
  <2>3. \A c \in Callers : Renewing(c) => Renewing(c)'
    BY <1>1, <1>4, <2>1, <2>2, Threading DEF Renewing
  <2> QED BY <1>1, <1>2, <2>1, <2>2, <2>3, Threading, Kept, TypePartsNext
             DEF IInv, ThreadType
<1> QED BY <1>3, <1>4

\* A thread goes on, or calls UpdateTubeState to go on then, or crashes; the tube keeps
\* what it has.
LEMMA TubeKept ==
    ASSUME IInv, ~crashed, TubeType', NEW t \in Threads, t # "dds", NEW label \in Steps,
           \/ Goto(t, label) /\ ret' = ret
           \/ CallUpdateTubeState(t, label)
           \/ UNCHANGED <<pc, ret>>,
           next' = next, UNCHANGED <<ship, known, news>>,
           weapon' # None /\ manager' # None =>
               /\ weapon # None /\ manager # None
               /\ manager'.ship = manager.ship /\ manager'.target = manager.target
               /\ manager'.track = manager.track
               /\ t \in Callers /\ Renewing(t) =>
                     label \in {"info", "environment"} \/ UNCHANGED <<pc, ret>>
    PROVE  IInv'
<1>1. /\ pc' \in [Threads -> Steps] /\ ret' \in [Threads -> Steps]
      /\ \A u \in Threads : u # t => pc'[u] = pc[u] /\ ret'[u] = ret[u]
      /\ \/ pc'[t] = label
         \/ pc'[t] = "compute" /\ ret'[t] = label
         \/ pc'[t] = pc[t] /\ ret'[t] = ret[t]
  BY Moved DEF IInv, TypeOK, CallUpdateTubeState, Goto, Steps
<1>2. TypeOK'
  BY <1>1, TypePartsNext DEF IInv, TypeOK, ThreadType
<1>3. pc'["dds"] = pc["dds"]
  BY <1>1, Threading
<1>4. ASSUME weapon' # None, manager' # None, NEW c \in Callers, Renewing(c)
      PROVE  Renewing(c)'
  BY <1>1, <1>4, Threading DEF Renewing
<1> QED BY <1>2, <1>3, <1>4, Kept DEF IInv

\* Initialize, SetAssignmentInfo, state changes, the updates of the periodic thread.
LEMMA ChangeSteps ==
    ASSUME IInv,
           \/ \E c \in Callers : \/ InitializeBoth(c) \/ SetAssignmentInfo(c)
                                 \/ RequestWeaponStateChange(c)
           \/ UpdateWeapon \/ UpdateEngagement
    PROVE  IInv'
<1> USE DEF At, IsAssigned, tube, environment, tasks
<1>1. weapon \in Weapons \cup {None} /\ manager \in Managers \cup {None}
      /\ crashed \in BOOLEAN /\ None \notin Weapons
  BY NoneAssumption DEF IInv, TypeOK
<1>2. ASSUME NEW c \in Callers, InitializeBoth(c)
      PROVE  IInv'
  <2> USE DEF InitializeBoth
  <2>1. ASSUME manager \in Managers
        PROVE  LET new == [manager EXCEPT !.plan = NoPlan]
               IN /\ new \in Managers /\ new.ship = manager.ship
                  /\ new.target = manager.target /\ new.track = manager.track
    BY <2>1 DEF Managers
  <2>2. /\ manager' \in Managers \cup {None}
        /\ manager' # None => /\ manager # None /\ manager'.ship = manager.ship
                              /\ manager'.target = manager.target
                              /\ manager'.track = manager.track
    BY <1>1, <1>2, <2>1
  <2>3. TubeType'
    BY <1>1, <1>2, <2>2, TypeParts DEF IInv, TubeType, Weapons
  <2>4. weapon' # None => weapon # None
    BY <1>2
  <2> QED BY <1>2, <2>2, <2>3, <2>4, TubeKept, Threading DEF Steps
<1>3. ASSUME NEW c \in Callers, SetAssignmentInfo(c)
      PROVE  IInv'
  <2> USE DEF SetAssignmentInfo
  <2>1. TubeType'
    BY <1>1, <1>3, TypeParts DEF IInv, TubeType
  <2>2. CASE weapon # None
    BY <1>3, <2>1, <2>2, TubeKept, Threading DEF Steps
  <2>3. CASE weapon = None
    BY <1>3, <2>1, <2>3, TubeKept, Threading DEF Steps
  <2> QED BY <2>2, <2>3
<1>4. ASSUME NEW c \in Callers, RequestWeaponStateChange(c)
      PROVE  IInv'
  <2> USE DEF RequestWeaponStateChange, ChangeWeapon
  <2>1. TubeType'
    BY <1>1, <1>4, TypeParts DEF IInv, TubeType, Weapons
  <2>2. ~Renewing(c) /\ c \in Threads /\ c # "dds"
    BY <1>4, Threading DEF Renewing
  <2> QED BY <1>4, <2>1, <2>2, TubeKept DEF Steps
<1>5. ASSUME UpdateWeapon
      PROVE  IInv'
  <2> USE DEF UpdateWeapon, ChangeWeapon
  <2>1. TubeType'
    BY <1>1, <1>5, TypeParts DEF IInv, TubeType, Weapons
  <2> QED BY <1>5, <2>1, TubeKept, Threading DEF Steps
<1>6. ASSUME UpdateEngagement
      PROVE  IInv'
  <2> USE DEF UpdateEngagement
  <2>1. TubeType'
    BY <1>1, <1>6, TypeParts DEF IInv, TubeType
  <2> QED BY <1>6, <2>1, TubeKept, Threading DEF Steps
<1> QED BY <1>2, <1>3, <1>4, <1>5, <1>6

\* The tube is cleared.
LEMMA ClearSteps ==
    ASSUME IInv, NEW c \in Callers,
           \/ RemoveStateObserver(c) \/ ResetWeapon(c) \/ ResetManager(c)
           \/ ForgetWeapon(c) \/ ForgetManager(c) \/ StoreEmpty(c)
    PROVE  IInv'
<1> USE DEF At, IsAssigned, tube, environment, tasks
<1>1. weapon \in Weapons \cup {None} /\ manager \in Managers \cup {None}
      /\ crashed \in BOOLEAN
      /\ ~Renewing(c) /\ c \in Threads /\ c # "dds"
  BY Threading DEF IInv, TypeOK, RemoveStateObserver, ResetWeapon, ResetManager,
                   ForgetWeapon, ForgetManager, StoreEmpty, Renewing
<1>2. CASE ResetManager(c)
  <2> USE DEF ResetManager
  <2>1. manager # None => /\ manager' \in Managers /\ manager'.ship = manager.ship
                          /\ manager'.target = manager.target
                          /\ manager'.track = manager.track
    BY <1>1, <1>2, NoneAssumption DEF Managers
  <2>2. TubeType'
    BY <1>1, <1>2, <2>1, TypeParts DEF IInv, TubeType, Weapons
  <2> QED BY <1>1, <1>2, <2>1, <2>2, TubeKept DEF Steps
<1>3. CASE RemoveStateObserver(c) \/ ResetWeapon(c)
  <2> USE DEF RemoveStateObserver, ResetWeapon, Follow
  <2>1. TubeType'
    BY <1>1, <1>3, TypeParts DEF IInv, TubeType, Weapons
  <2>2. weapon' # None => weapon # None
    BY <1>3
  <2> QED BY <1>1, <1>3, <2>1, <2>2, TubeKept DEF Steps
<1>4. CASE ForgetWeapon(c) \/ ForgetManager(c) \/ StoreEmpty(c)
  <2> USE DEF ForgetWeapon, ForgetManager, StoreEmpty
  <2>1. TubeType'
    BY <1>1, <1>4, TypeParts DEF IInv, TubeType, TubeStates
  <2> QED BY <1>1, <1>4, <2>1, TubeKept DEF Steps
<1> QED BY <1>2, <1>3, <1>4

\* The two pointers are stored: somebody renews the tube.
LEMMA StoreSteps ==
    ASSUME IInv, NEW c \in Callers, StoreWeapon(c) \/ StoreManager(c)
    PROVE  IInv'
<1> USE DEF At, StoreWeapon, StoreManager, environment, tasks
<1>1. PICK label \in {"manager", "initialize"} : Goto(c, label)
  OBVIOUS
<1>2. /\ pc' \in [Threads -> Steps] /\ pc'[c] = label /\ pc'["dds"] = pc["dds"]
  BY <1>1, Moved, Threading DEF IInv, Steps
<1>3. TypeOK'
  <2>1. weapon' \in Weapons \cup {None} /\ manager' \in Managers \cup {None}
    BY DEF IInv, TypeOK, Weapons, Managers
  <2> QED BY <1>2, <2>1 DEF IInv, TypeOK
<1>4. Renewing(c)'
  BY <1>2 DEF Renewing
<1> QED BY <1>2, <1>3, <1>4, Renewed DEF IInv

\* Information is handed to the manager, or the tube is not assigned, or the process
\* ends.
LEMMA Informed ==
    ASSUME IInv, ~crashed, NEW t \in Threads, NEW info, manager \in Managers => info \in Managers,
           Inform(t, info)
    PROVE  /\ UNCHANGED <<weapon, tubeState, observed, ship, known, ret, next, copied>>
           /\ pc' \in [Threads -> Steps] /\ crashed' \in BOOLEAN
           /\ \A u \in Threads : u # t => pc'[u] = pc[u]
           /\ manager' \in Managers \cup {None} /\ (manager' = None <=> manager = None)
           /\ ~crashed' /\ weapon # None /\ manager # None => manager' = info
           /\ ~crashed' => pc'[t] = "idle"
<1> USE DEF Inform, Follow, IsAssigned, tube, environment
<1>1. /\ UNCHANGED <<weapon, tubeState, observed, ship, known, ret, next, copied>>
      /\ crashed' \in BOOLEAN /\ ((pc' = pc /\ crashed') \/ Goto(t, "idle"))
  BY DEF IInv, TypeOK
<1>2. /\ pc' \in [Threads -> Steps]
      /\ \A u \in Threads : u # t => pc'[u] = pc[u]
      /\ ~crashed' => pc'[t] = "idle"
  BY <1>1, Moved DEF IInv, TypeOK, Steps
<1>3. manager \in Managers \cup {None}
  BY DEF IInv, TypeOK
<1>4. /\ manager' \in Managers \cup {None} /\ (manager' = None <=> manager = None)
      /\ ~crashed' /\ weapon # None /\ manager # None => manager' = info
  BY <1>3, NoneAssumption
<1> QED BY <1>1, <1>2, <1>4

\* An assignment ends: the manager has the own ship, and the target if it is known.
LEMMA CopyStep ==
    ASSUME IInv, NEW c \in Callers, CopyEnvironment(c)
    PROVE  IInv'
<1> DEFINE info == [manager EXCEPT !.ship = ship, !.target = TargetToCopy]
<1>1. ~crashed /\ c \in Threads /\ Inform(c, info) /\ news' = news
  BY Threading DEF CopyEnvironment, At
<1>2. ASSUME manager \in Managers
      PROVE  /\ info \in Managers /\ info.ship = ship /\ info.track = manager.track
             /\ info.target = TargetToCopy
  <2>1. TargetToCopy \in Targets \cup {NoInfo} /\ ship \in Ships \cup {NoInfo}
    BY <1>2 DEF TargetToCopy, Managers, IInv, TypeOK
  <2> QED BY <1>2, <2>1 DEF Managers
<1> HIDE DEF info
<1>3. /\ UNCHANGED <<weapon, tubeState, observed, ship, known, ret, next, copied>>
      /\ pc' \in [Threads -> Steps] /\ crashed' \in BOOLEAN
      /\ \A u \in Threads : u # c => pc'[u] = pc[u]
      /\ manager' \in Managers \cup {None} /\ (manager' = None <=> manager = None)
      /\ ~crashed' /\ weapon # None /\ manager # None => manager' = info
  BY <1>1, <1>2, Informed
<1>4. TypeOK'
  BY <1>1, <1>3 DEF IInv, TypeOK
<1>5. ASSUME ~crashed'
      PROVE  MessageInv' /\ ShipInv' /\ TargetInv'
  <2>1. MessageInv'
    BY <1>1, <1>3, Threading DEF IInv, MessageInv
  <2>2. weapon' # None /\ manager' # None =>
           /\ manager'.ship = ship /\ manager'.target = TargetToCopy
           /\ manager'.track = manager.track
    BY <1>2, <1>3, <1>5 DEF IInv, TypeOK
  <2>3. manager # None /\ manager.track \in known => TargetToCopy # NoInfo
    BY NoInfoAssumption DEF IInv, TypeOK, TargetToCopy
  <2> QED BY <1>3, <2>1, <2>2, <2>3 DEF ShipInv, TargetInv
<1> QED BY <1>4, <1>5 DEF IInv

\* The DDS thread takes a message.
LEMMA MessageSteps ==
    ASSUME IInv,
           \/ \E s \in Ships : UpdateOwnShipInfo(s)
           \/ \E t \in Targets : UpdateTargetInfo(t)
           \/ \E r \in Routes : UpdateWaypoints(r)
    PROVE  IInv'
<1> USE DEF UpdateOwnShipInfo, UpdateTargetInfo, UpdateWaypoints, At, tube, environment
<1>1. PICK label \in {"deliver", "route"} : Goto("dds", label)
  OBVIOUS
<1>2. /\ ~crashed /\ pc["dds"] = "idle"
      /\ pc' \in [Threads -> Steps] /\ pc'["dds"] = label
      /\ \A u \in Threads : u # "dds" => pc'[u] = pc[u]
  BY <1>1, Moved, Threading DEF IInv, Steps
<1>3. TypeOK'
  BY <1>2 DEF IInv, TypeOK
<1>4. \A c \in Callers : Renewing(c) => Renewing(c)'
  BY <1>2, Threading DEF Renewing
<1>5. CASE \E s \in Ships : UpdateOwnShipInfo(s)
  <2>1. /\ label = "deliver" /\ news' \in Ships /\ ship' = news'
        /\ UNCHANGED <<weapon, manager, known>>
    BY <1>1, <1>2, <1>5 DEF IInv, TypeOK, Goto
  <2> QED BY <1>2, <1>3, <1>4, <2>1, NoInfoAssumption
             DEF IInv, MessageInv, ShipInv, TargetInv
<1>6. CASE \E t \in Targets : UpdateTargetInfo(t)
  <2>1. /\ label = "deliver" /\ news' \in Targets /\ news' \in known'
        /\ UNCHANGED <<weapon, manager, ship>>
    BY <1>1, <1>2, <1>6 DEF IInv, TypeOK, Goto
  <2> QED BY <1>2, <1>3, <1>4, <2>1, NoInfoAssumption
             DEF IInv, MessageInv, ShipInv, TargetInv
<1>7. CASE \E r \in Routes : UpdateWaypoints(r)
  <2>1. /\ label = "route" /\ news' \in Routes
        /\ UNCHANGED <<weapon, manager, ship, known>>
    BY <1>1, <1>2, <1>7 DEF IInv, TypeOK, Goto
  <2> QED BY <1>2, <1>3, <1>4, <2>1 DEF IInv, MessageInv, ShipInv, TargetInv
<1> QED BY <1>5, <1>6, <1>7

\* ... and passes it on to the tube.
LEMMA DeliverStep == ASSUME IInv, Deliver PROVE IInv'
<1> DEFINE info == IF news \in Ships THEN [manager EXCEPT !.ship = news]
                                     ELSE [manager EXCEPT !.target = news]
<1>1. /\ ~crashed /\ pc["dds"] = "deliver" /\ news' = NoInfo /\ "dds" \in Threads
      /\ Inform("dds", info)
  BY Threading DEF Deliver, At
<1>2. /\ news \in Ships => news = ship
      /\ news \notin Ships => news \in Targets
      /\ news # NoInfo
  BY <1>1, TopicsAssumption DEF IInv, TypeOK, MessageInv
<1>3. ASSUME manager \in Managers
      PROVE  /\ info \in Managers /\ info.track = manager.track
             /\ news \in Ships => info.ship = ship /\ info.target = manager.target
             /\ news \in Targets => info.ship = manager.ship /\ info.target = news
  BY <1>2, <1>3, TopicsAssumption DEF Managers
<1> HIDE DEF info
<1>4. /\ UNCHANGED <<weapon, tubeState, observed, ship, known, ret, next, copied>>
      /\ pc' \in [Threads -> Steps] /\ crashed' \in BOOLEAN
      /\ \A u \in Threads : u # "dds" => pc'[u] = pc[u]
      /\ manager' \in Managers \cup {None} /\ (manager' = None <=> manager = None)
      /\ ~crashed' /\ weapon # None /\ manager # None => manager' = info
      /\ ~crashed' => pc'["dds"] = "idle"
  BY <1>1, <1>3, Informed
<1>5. TypeOK'
  BY <1>1, <1>4 DEF IInv, TypeOK
<1>6. \A c \in Callers : Renewing(c) => Renewing(c)'
  BY <1>4, Threading DEF Renewing
<1>7. ASSUME ~crashed'
      PROVE  MessageInv' /\ ShipInv' /\ TargetInv'
  <2>1. MessageInv'
    BY <1>4, <1>7 DEF MessageInv
  <2>2. weapon' # None /\ manager' # None =>
           /\ weapon # None /\ manager # None /\ manager'.track = manager.track
           /\ news \in Ships => manager'.ship = ship /\ manager'.target = manager.target
           /\ news \notin Ships => manager'.ship = manager.ship /\ manager'.target = news
    BY <1>2, <1>3, <1>4, <1>7 DEF IInv, TypeOK
  <2>3. ShipInv'
    BY <1>1, <1>4, <1>6, <2>2 DEF IInv, ShipInv
  <2>4. TargetInv'
    BY <1>1, <1>2, <1>4, <1>6, <2>2, TopicsAssumption DEF IInv, TargetInv
  <2> QED BY <2>1, <2>3, <2>4
<1> QED BY <1>5, <1>7 DEF IInv

\* Waypoints and plans are stored: the rest of the manager stays as it is.
LEMMA StoreWaypointsStep == ASSUME IInv, StoreWaypoints PROVE IInv'
<1> USE DEF StoreWaypoints, At, tube, environment
<1>1. /\ ~crashed /\ pc["dds"] = "route" /\ news' = NoInfo
      /\ UNCHANGED <<weapon, tubeState, observed, ship, known, ret, next, copied>>
      /\ crashed' \in BOOLEAN /\ ((pc' = pc /\ crashed') \/ Goto("dds", "idle"))
  BY DEF Follow, IInv, TypeOK
<1>2. news \in Routes /\ manager \in Managers \cup {None}
  BY <1>1 DEF IInv, TypeOK, MessageInv
<1>3. /\ manager' \in Managers \cup {None}
      /\ manager' # None => /\ manager # None /\ manager'.ship = manager.ship
                            /\ manager'.target = manager.target
                            /\ manager'.track = manager.track
  <2>1. \/ manager' = manager
        \/ /\ manager \in Managers
           /\ \E plan \in Routes \cup {NoRoute} :
                 manager' = [manager EXCEPT !.waypoints = news, !.plan = plan]
    BY <1>2 DEF Follow
  <2> HIDE DEF StoreWaypoints
  <2> QED BY <1>2, <2>1, NoneAssumption DEF Managers
<1>4. /\ pc' \in [Threads -> Steps]
      /\ \A u \in Threads : u # "dds" => pc'[u] = pc[u]
      /\ ~crashed' => pc'["dds"] = "idle"
  BY <1>1, Moved, Threading DEF IInv, TypeOK, Steps
<1>5. TypeOK'
  BY <1>1, <1>3, <1>4 DEF IInv, TypeOK
<1>6. \A c \in Callers : Renewing(c) => Renewing(c)'
  BY <1>1, <1>4, Threading DEF Renewing
<1>7. ASSUME ~crashed'
      PROVE  MessageInv' /\ ShipInv' /\ TargetInv'
  BY <1>1, <1>3, <1>4, <1>6, <1>7 DEF IInv, MessageInv, ShipInv, TargetInv
<1> QED BY <1>5, <1>7 DEF IInv

LEMMA EndPlanStep == ASSUME IInv, EndPlan PROVE IInv'
<1> USE DEF EndPlan, At, tube, environment
<1>1. /\ ~crashed
      /\ UNCHANGED <<weapon, tubeState, observed, ship, known, ret, next, news>>
      /\ crashed' \in BOOLEAN /\ (pc' = pc \/ Goto("periodic", "ready"))
      /\ copied' = NoRoute
  BY DEF IInv, TypeOK
<1>2. copied \in Routes \cup {NoRoute} /\ manager \in Managers \cup {None}
  BY DEF IInv, TypeOK
<1>3. /\ manager' \in Managers \cup {None}
      /\ manager' # None => /\ manager # None /\ manager'.ship = manager.ship
                            /\ manager'.target = manager.target
                            /\ manager'.track = manager.track
  <2>1. \/ manager' = manager
        \/ /\ manager \in Managers
           /\ \E plan \in Routes \cup {NoRoute} : manager' = [manager EXCEPT !.plan = plan]
    BY <1>2
  <2> HIDE DEF EndPlan
  <2> QED BY <1>2, <2>1, NoneAssumption DEF Managers
<1>4. TubeType'
  BY <1>1, <1>3, TypeParts DEF IInv, TubeType
<1> QED BY <1>1, <1>3, <1>4, TubeKept, Threading DEF Steps
----------------------------------------------------------------------------
LEMMA NextInv == IInv /\ [Next]_vars => IInv'
<1> SUFFICES ASSUME IInv, [Next]_vars PROVE IInv'
  OBVIOUS
<1>1. ASSUME NEW c \in Callers,
             \/ AssignWeapon(c) \/ UnassignWeapon(c) \/ RequestWeaponStateChange(c)
             \/ GetStatus(c) \/ Proceed(c)
      PROVE  IInv'
  BY <1>1, QuietSteps, ChangeSteps, ClearSteps, StoreSteps, CopyStep DEF Proceed
<1>2. ASSUME NEW t \in Threads, UpdateTubeState(t)
      PROVE  IInv'
  BY <1>2, UpdateTubeStateStep
<1>3. CASE \/ \E s \in Ships : UpdateOwnShipInfo(s)
           \/ \E t \in Targets : UpdateTargetInfo(t)
           \/ \E r \in Routes : UpdateWaypoints(r)
           \/ Deliver \/ StoreWaypoints
  BY <1>3, MessageSteps, DeliverStep, StoreWaypointsStep
<1>4. CASE PeriodicTasks
  BY <1>4, QuietSteps, ChangeSteps, EndPlanStep DEF PeriodicTasks, Update, MakePlan
<1>5. CASE UNCHANGED vars
  <2>1. TypeOK'
    BY <1>5 DEF IInv, TypeOK, vars, tube, environment, tasks
  <2>2. ASSUME ~crashed'
        PROVE  MessageInv' /\ ShipInv' /\ TargetInv'
    BY <1>5, <2>2 DEF IInv, MessageInv, ShipInv, TargetInv, Renewing, vars, tube,
                      environment, tasks
  <2> QED BY <2>1, <2>2 DEF IInv
<1> QED BY <1>1, <1>2, <1>3, <1>4, <1>5 DEF Next

LEMMA Invariance == Spec => []IInv
BY InitInv, NextInv, PTL DEF Spec

\* Every variable keeps its type; in particular the local of a thread inside
\* UpdateTubeState is always a state of the tube, however the weapon has changed since.
THEOREM TypeCorrect == Spec => []TypeOK
<1>1. IInv => TypeOK
  BY DEF IInv
<1> QED BY <1>1, Invariance, PTL

\* However many threads assign and clear the tube while navigation messages arrive: once
\* all calls are over, the weapon that is assigned has the latest own ship information.
THEOREM OwnShipArrives == Spec => []OwnShipReachesTube
<1>1. IInv => OwnShipReachesTube
  BY Threading DEF IInv, ShipInv, OwnShipReachesTube, AtRest, Renewing
<1> QED BY <1>1, Invariance, PTL

\* Likewise it has a target, if a message of its track has ever arrived.
THEOREM TargetArrives == Spec => []TargetReachesTube
<1>1. IInv => TargetReachesTube
  BY Threading DEF IInv, TargetInv, TargetReachesTube, AtRest, Renewing
<1> QED BY <1>1, Invariance, PTL
=============================================================================
