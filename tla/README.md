# A TLA+ model of the launch tube control system

The program (C++17, `src/`) controls up to six launch tubes. A DDS message or the console assigns
a weapon to a tube, turns it on, launches it, turns it off. Several threads work on the same tubes;
the code protects some of the state with mutexes, some with atomics and some not at all. This
directory models that state, checks it with TLC on small instances and proves the safety properties
with TLAPS, for every value of the constants.

The reference is the source. Its comments and its README are quoted only where the code does
something else (section *Disagreements*).

## 1. Inventory

### Threads

| thread | code | what it does |
|---|---|---|
| main / console | `main.cpp` | initialises, starts, `Direct*` calls of `WeaponController`, `Stop` at the end |
| signal handler | `main.cpp:17` | calls `WeaponController::Stop`, on top of the main thread |
| processing thread | `CommandProcessor::ProcessingLoop` | takes commands from two queues and executes them |
| periodic thread | `WeaponController::HandlePeriodicTasks` | every 100 ms `LaunchTube::Update` and all engagement plans |
| DDS thread | `looping_thread.h`, `CAiepDdsComm.cpp` | takes messages, enqueues commands, passes on own ship and target data |

### Components

| component | state | operations | who calls it | what makes it correct |
|---|---|---|---|---|
| `WeaponBase` | `m_currentState`, `m_launched`, `m_fireSolutionReady`, `m_abortFlag`, `m_stateMutex` | `RequestStateChange` (on, off, launch, abort), `Update`, `Reset` | tube, from processing, console and periodic thread | one launch at a time, only from RTL and with a fire solution; a launch is completed and stays on record |
| `LaunchTube` | `m_weapon`, `m_engagementMgr`, `m_tubeState` | `AssignWeapon`, `ClearAssignment`, `Update`, `UpdateTubeState`, `UpdateWaypoints`, `CalculateEngagementPlan`, `GetStatus`, requests | manager, periodic thread, weapon's observer callback | the tube state shows what the tube holds; weapon and manager come and go together; the plan follows the waypoints |
| `LaunchTubeManager` | tubes, own ship and target information | assign, unassign, requests to one or all, `EmergencyStop`, distribution of information | commands, controller, DDS and periodic thread | every assigned weapon has the latest information; an emergency stop leaves none in work |
| `CommandProcessor` | normal and priority queue, history, undo and redo stack, `m_running`, `m_stopRequested`, `m_paused`, three mutexes, condition variable | enqueue, enqueue with priority, execute immediately, undo, redo, clear history, start, stop, pause, resume | controller, DDS thread, console | no command is lost, run twice, undone without effect; limits; stop ends the thread |
| commands | the previous states each object records | `IsValid`, `Execute`, `Undo` of six kinds | command processor | undo restores, a partial failure is reported |
| `WeaponController`, `main` | `m_running`, `m_stopRequested`, `m_statistics`, the threads | start, stop, direct calls, message handlers, periodic work, reports, statistics | everything | threads are joined before what they use goes away; stop ends; statistics add up; no reply is lost before the end |
| `MineDropPlanManager` | one file per list, backup directory, cache | load, save, create, delete, update, add, remove, backup, restore | controller and DDS thread at start, then DDS thread | what is served is valid and is what is stored |
| `WeaponFactory`, engagement managers | creators; own ship, target, axis, waypoints, plan | create, update, make the plan | manager, periodic and DDS thread | only supported kinds are made; information and plan are the latest |
| DDS communication | readers, writers, `_isStarted`, looping thread | start, stop, receive, send | controller | vendor part is not in the repository |
| coordinate conversion, utilities | none | | | not modelled |

### What is hard here

* **Interleaving.** `WeaponBase::Update` decides and stores without `m_stateMutex`; a tube publishes its
  weapon before it initialises it; `UpdateTubeState`
  computes and stores without any lock, in three threads; a tube is tested with `IsAssigned` and its
  pointers are used later; the commands read the previous state before they request the next one; the
  DDS and the periodic thread copy the same vectors of waypoints.
* **Ordering.** A command is pushed under `m_queueMutex` and the thread notified afterwards;
  `Stop` and `Resume` store their flags and notify without that mutex; history, undo stack and
  execution are three steps under different mutexes; `Stop` joins threads in a certain order while
  DDS messages go on arriving and while a signal handler may run `Stop` on top, of a main thread that may hold
  a mutex; a command is counted after it has been enqueued.
* **Failure.** A file is truncated before it is written; a restore removes before it copies; an undo
  or an emergency stop over several tubes may fail in the middle.
* **Limits.** History and undo stack have a size, a plan list has one, at more than one place.

`PROJECT.json` lists each hazard with its line and with the properties that cover it.

## 2. Modules

| module | models | composed with |
|---|---|---|
| `FireControl` | abstract: a weapon seen as safe, launching, fired, dropped, or disputed (used before it is initialised) | |
| `Weapon` | `WeaponBase` with its callers and the periodic thread | refines `FireControl` |
| `Weapon_proofs` | theorems of `Weapon` | |
| `LaunchTube` | one tube: assignment, clearing, status, tube state, own ship, target, waypoints and plan | tube manager, tube, engagement manager; the weapon reduced to what the tube sees |
| `LaunchTube_proofs` | theorems of `LaunchTube` | |
| `CommandLog` | abstract: the life of each command | |
| `CommandProcessor` | queues, condition variable, history, undo, redo, start, stop, pause | refines `CommandLog` |
| `CommandProcessor_proofs` | theorems of `CommandProcessor` | |
| `Commands` | what each class of commands validates, records, does and undoes, over several tubes | composes processor, commands, tube manager, factory and weapons |
| `Commands_proofs` | theorems of `Commands` | |
| `Controller` | start, work and stop of all threads, console, signal handler, message handlers, statistics, reports | composes threads, processor, DDS and tubes |
| `Controller_proofs` | theorems of `Controller` | |
| `MineDropPlan` | the lists, their files, cache, backup and restore, crashes | |
| `MineDropPlan_proofs` | theorems of `MineDropPlan` | |
| `SequenceLemmas` | what appending to a sequence, taking an end off it or removing an element does | used by three of the proof modules |

`MC*` modules give the constants their small values, the `.cfg` files name what is checked. In each
module an operator whose comment begins "Faulty variant of" is a plausible mistake in the operation
it follows; no specification uses it. `PROJECT.json` lists them as mutants: with the variant in place
of the operation, the property it is listed with must fail. That shows the properties have teeth.

### How state and actions correspond to the code

An action is one access to state that other threads share, with whatever the thread then does to its
own data. What happens under a mutex that every reader takes is one action. A mutex is a variable
only where somebody can be seen waiting for it (`stateMutex` in `Weapon`, `holder` in `Commands`),
otherwise it shows as the extent of an action. Every mapped definition and its lines is in
`PROJECT.json`, `"map"`.

* **Weapon.** `pc[c]` is where caller `c` is in `RequestStateChange`, its helpers, or
  `ClearAssignment`; `upc` where the periodic thread is in `LaunchTube::Update`. `UpdateRead`,
  `UpdateCheck` and `UpdateWrite` are separate, because `Update` has no lock: `seen` is its local
  `currentState`. `fireReady` is set by the periodic thread (`UpdatePlan`) or by
  `CalculateAllEngagementPlans`, in three steps (make the plan, ask whether it is valid, tell the weapon), because
  the engagement manager may be initialised or reset in between. An assignment is the tube's test
  (`AssignWeapon`), the stores of the two pointers (`Publish`), after which every thread can use the weapon,
  `InitializeWeapon` (the `Reset`, under `m_stateMutex`) and `InitializeManager` (`isValid` is false
  again). The history variable `early` says that somebody else went to the weapon between `Publish` and
  `InitializeManager`: another caller, the periodic thread, also one that was in the middle of its round at
  `Publish`, or the user of a weapon of another assignment whose place it took. The weapons of
  a tube are one after another: a thread inside the old object when the pointer is replaced does
  what it still does to that object and nothing to the new one (`Outlives`).
* **LaunchTube.** `weapon` and `manager` are the two pointers, set and reset one after the other as in
  the code; `tubeState` is stored by `StoreTubeState` and `StoreEmpty`; each thread's `UpdateTubeState`
  has a computing and a storing step. A dereference of a null pointer sets `crashed` and ends the
  behaviour. `manager.waypoints` and `manager.plan` are `m_waypoints` and the waypoints of
  `m_engagementResult`: the DDS thread stores both in one step (`StoreWaypoints`), the periodic thread
  copies the one (`BeginPlan`) into the other (`EndPlan`) in two. Clearing a tube is six steps: the observer,
  the two resets, the two pointers, the tube state. Where the two threads meet in the copy, which
  is undefined behaviour, the process ends or the plan is any.
* **CommandProcessor.** `loop` is where the processing thread is (test of the predicate, asleep,
  take, execute, record, push), `spc[s]` the same for a submitter. Notification moves a sleeping
  thread only; a spurious wake-up is an action. `applied` is a history variable: which commands are
  in force. The outcome of `Execute`, `Undo` and `IsValid` is nondeterministic. `Undo` moves a
  command when it reports success, so "in force" means "as reported".
* **Commands.** `job[w]` is what worker `w` (processing thread, caller of undo/redo, console or DDS thread) is
  doing: the command, what it has recorded, the requests still to make and whether one failed. Each
  class of commands has its `...Execute`, `...Undo` and `...IsValid`; `Execute`, `Undo` and `IsValid` are the virtual
  calls. A command object keeps what it recorded, so a redo that finds its tube empty leaves the old
  record. A request to a weapon is `BeginRequest`/`FinishRequest` with the mutex of the weapon held between,
  because other requests wait there, or one step if it is refused or turns the weapon off. The periodic thread does
  not wait: `UpdateRead` reads ON or RTL, and `UpdateStore` stores the other of the two over whatever the state
  has become, OFF and POC included. Whether its interlock conditions hold is left open, `Weapon` has them.
  The history variable `touched[w]` is the set of tubes that other threads have changed since `w`'s job
  began; a store of the periodic thread counts only if the state it had read was stale. `AssignWeapon` and
  `InitializeWeapon` are the two ends of the window between publication and initialisation. A waypoint
  message is an array and a count; the command and the tube manager take different parts of it.
* **Controller.** `main` and `handler` are program counters of the main thread and of the signal
  handler on top of it; `running`, `stopRequested`, `stopping`, `listening` the flags; the four threads are small
  automata. `Stop` is one action per statement that another thread can see. `held` and the values
  `"statistics"`, `"axis"`, `"status"` of `main` say which mutex the main thread holds: others wait for it, and
  so does, for ever, a handler on top of it. The DDS thread receives any message not yet received and
  goes through its handler in steps (`FirstStep`); a command is enqueued and then counted.
  `dropped` is what `Send` did not send because `_isStarted` had been cleared.
* **MineDropPlan.** `disk`, `backup`: a list, `Absent`, or `Garbled` (truncated and not written).
  `OpenFile`, `WriteFile`, `StoreInCache` are the steps of `SavePlanList`, so that a crash can fall
  between them. `Initialize` loads the lists one after another and creates those it cannot load, with
  `pending` the lists still to do: a crash can leave some files created, one truncated and the others missing.
  The order of the lists is left open (the code counts up from 1). `list` and `plans` are the locals of the
  call. A plan has its two numbers, as in the code: `planNumber`, by which `AddPlan`, `UpdatePlan` and `RemovePlan` find
  it, and `sListID`, which `ValidatePlan` tests and the file gets. Its positions and its text are an
  `outline` (what `WriteJsonToFile` writes) and a `detail` (what it leaves out: waypoints, depths, the text after its first
  character), each good or `Invalid`. `Written` is the lossy conversion. `RestorePlanData` may remove
  only some files, and `CopyBackup` copy only some; both then fail and leave the cache as it was. The
  history variable `lost` names the lists whose file a full disk or a failed restore has spoiled since they
  were stored, loaded or deleted.

Operations of the public interfaces that no message reaches (`Pause`, `ExecuteImmediate`,
`RestorePlanData` ...) are modelled like the others: the classes offer them.

## 3. Runs

With two TLC workers the longest runs (`tube`, `tube_live`, `plans`) take two to three minutes each.

| run | instance | checks | shows |
|---|---|---|---|
| `weapon` | 2 callers, 2 launch steps | `TypeOK`, `LaunchSerialised`, `LaunchNeedsFireSolution`, `AbortNeverTaken`, `LaunchStartsFromRTL`, `LaunchedIsPermanent`, `MutexReleased`, `PowerOnBecomesReady`, `ImplementsFireControl` | neither the unlocked update nor an early initialisation gets in the way of a launch, and the mutex always comes back (140,000 states) |
| `weapon_abort` | same | `EmergencyStopInterruptsLaunch` (violated) | an abort comes too late |
| `weapon_off` | same | `OffOnlyTurnsOn` (violated) | the update may undo a turn-off |
| `tube` | 2 callers, 1 own ship, 1 target, no waypoints (3.5 million states) | `TypeOK`, `OwnShipReachesTube`, `TargetReachesTube` | information and assignment may overlap |
| `tube_live` | 1 caller, 1 target, 2 routes (179,000 states) | `CallersFindTube`, `LaunchShows`, `PlanFollowsWaypoints` | a single assigning thread meets no null pointer; a stale tube state and a mixed-up plan are corrected |
| `tube_empty` | 2 callers | `UnassignedIsEmpty` (violated) | ... but not in an empty tube |
| `processor` | 2 commands, 2 submitters, stacks of 1 | `TypeOK`, `UrgentWakesUp`, `UndoableIsApplied`, `StacksBounded`, `EnqueuedIsTaken`, `ImplementsCommandLog` | no submission is forgotten, undo and redo offer what they may |
| `processor_stop` | 1 submitter | `StopCompletes` (violated) | the stop may be missed |
| `commands` | 2 tubes, seven commands and calls, stacks of 1, one call at a time beside the periodic update (1.5 million states) | `TypeOK`, `EmergencyStopIsComplete`, `UndoRestores`, `UndoNeverLaunches` | what is reported as done, is done |
| `commands_undo` | 1 tube, calls overlap | `UndoNeverLaunches` (violated) | the recorded state may be LAUNCH |
| `controller` | 1 tube, an assignment, a control command and three kinds of notice, 2 messages, 1 signal (390,000 states) | `TypeOK`, `TubesClearedLast`, `CleanStop`, `StatisticsAddUp`, `RepliesDroppedLate`, `StopEnds` | the order of the shutdown, and that it ends |
| `plans` | 2 lists of up to 2 of 5 plans, all faults (2.2 million states) | `TypeOK`, `ServedIsValid`, `ServedIsStored`, `OnlyEditsDuplicate` | cache and file agree, through crashes too; only an operator's list repeats a number |

### Bounds, and why they are enough

* *Two callers, two submitters.* Every race in the code is between two threads, and the periodic, the
  processing and the DDS thread are there in addition. The safety properties are proved for any set
  of callers and of submitters.
* *Launch steps.* The code has three; two are enough to poll the abort flag between steps. Proved for
  any number.
* *Two commands, each submitted once; stacks and history of one.* One command too many for the
  limits, and two to be in the wrong order. As the commands are finite, a normal command cannot be
  overtaken for ever: that priority commands can starve normal ones is not visible. `EnqueuedIsTaken` is
  about the thread not going to sleep on a queue, not about fairness between the queues.
* *Two tubes.* An operation over all tubes can fail in one and succeed in the other.
* *One own ship and one target value.* "No information yet" is the other value of each, so stale is
  distinguishable from latest.
* *`Issued`, `Direct`.* The commands of `commands` are one of each of the six kinds; the second tube is assigned by a direct
  call and moved by the commands to all tubes. A waypoint message holds an invalid waypoint and one more than it counts.
  One call at a time, because with two tubes overlapping calls are too many states; what is checked of undo and emergency stop
  is proved for any commands, tubes and overlapping calls, and the overlap that breaks `UndoNeverLaunches` is in `commands_undo`.
* *One tube, two messages, one signal in `controller`.* A message before and one during the shutdown, or two
  commands in the queue; the handler at every step of the main thread, and the `Stop` of the main thread after
  it. Handlers are not nested: a signal is blocked during its handler. The notices are one of each way through
  the handlers: stored, answered, kept. The safety properties are proved for any tubes, messages and
  number of signals; `StopEnds` is checked on this instance only.
* *One caller in `tube_live`.* With two callers a null pointer may be followed, which ends everything:
  liveness would be about the crash. Without own ship messages, which go the way of the targets.
* *Two routes.* An old and a new one, so that a plan can be of the wrong one; `NoRoute` is the third.
* *Plans and `Faults`.* Of the five plans two share a `planNumber`, two an `sListID`, one has none and one is out of
  range; the lists an operator sends are good, too long, not valid, or repeat a number. All four faults are in
  the run: a file that does not open, a disk that is full, a copy and a removal that end half way.

### Fairness

* `Weapon`, `LaunchTube`, `CommandProcessor`: weak fairness of the steps of a thread that is inside the
  component, since the operating system schedules it, no loop in the code waits for an external event
  while it holds a mutex, and the delays of power-on and launch are finite. Weak fairness suffices for a
  caller waiting for `m_stateMutex` too, because no liveness property is about that caller's turn.
* The periodic thread runs until shutdown. In `Weapon`: weak fairness of `Update`, and strong fairness of its beginning and of the
  plans, which come round every 100 ms and every second although the weapon may be cleared and assigned again in
  between. In `LaunchTube`: weak fairness of its
  steps, and strong fairness of the beginning of `Update` and of the plans, because each round of the loop begins with
  the one and every second contains the other whatever the thread did before; and of `UpdateWeapon`,
  which waits for the observer mutex that requests take and give back again and again.
* `Controller`: weak fairness of `Stop` and `DestroyController`, and of each of the three threads. A message
  need not come, nothing need be typed, no signal be sent. The processing thread is assumed to notice the stop
  request; that the notification may be lost is `processor_stop`.
* Nobody has to request, assign, submit, start, stop, resume or send anything; no spurious wake-up is
  owed.
* `EnqueuedIsTaken` is conditional: for a processor that is never paused. A lost notification of `Resume` is
  in the model (see below), and a stopped processor takes nothing: it drops the queue.
* `Commands`, `MineDropPlan` have safety properties only.

### Deadlock

Checked, except in the `tube` runs (a crash of the program is an end) and in `controller` (a stopped
system is an end, and a signal handler can wait for a mutex of the thread it interrupts).

## 4. Disagreements between code and what is said of it

Each is a run that TLC must find violated.

* **Emergency stop** (`weapon_abort`). README line 113: all weapons stop at once. `RequestStateChange(ABORT)` takes
  the `m_stateMutex` that `ProcessLaunch` holds for all its steps, so the launch completes, the abort is
  then invalid in `POST_LAUNCH`, and is refused. The other side of it is proved: the abort branch is
  dead code (`AbortIsDeadCode`).
* **OFF** (`weapon_off`). The transition map lets OFF go to ON only. `Update` reads ON, another thread turns the
  weapon off, `Update` stores RTL.
* **Stop** (`processor_stop`). The flag is stored and notified outside `m_queueMutex`. If this falls
  between the test of the predicate and the wait, `Stop` joins a thread that sleeps.
* **EMPTY** (`tube_empty`). A tube that has been cleared keeps ASSIGNED, READY or LAUNCHED if an
  `UpdateTubeState` had looked at the weapon before.
* **Undo** (`commands_undo`). A command that turns off a launching weapon records LAUNCH as the previous
  state; its undo requests LAUNCH.

Also seen while modelling, and present in the models, but without a run:

* `Resume` has the same lost notification as `Stop` (`CommandProcessor.cpp:126`).
* Two threads may assign the same tube, or use a tube that the other clears: a null pointer is
  dereferenced (`crashed` in `LaunchTube`).
* A signal after `Start` has set `m_running` and before it has created the periodic thread: the handler's `Stop` clears
  `m_running`, so that the later `Stop` returns at once, and the thread is not joined before its `std::thread` is
  destroyed. A signal during the join of the periodic or the processing thread joins the same thread twice. A
  signal while the main thread holds the mutex of a launching weapon, `m_statisticsMutex`, `m_tubesMutex` or
  `m_environmentMutex` can wait for ever: for that mutex, or for a thread that waits for it. That is why `CleanStop`
  and the first half of `StopEnds` are stated without signals, and the second half for a handler that finds the main
  thread between two calls.
* What threads send after `Stop` has cleared `_isStarted`, a reply to a request for a plan list for example, is dropped
  without a word (`RepliesDroppedLate` says that it happens no earlier).
* Waypoints that arrive while the assignment of their tube is still queued are refused and lost. The tube manager takes
  all valid waypoints of a message, `UpdateWaypointsCommand` only as many as the message counts.
* Waypoints are accepted for a launched weapon, and its plan is made again every second, although `Update` and
  `UpdateWaypointsCommand::IsValid` stop at the launch. The vectors are copied without a lock in two threads.
* `UnassignCommand::Undo` reports success and restores nothing. An undo that asks for RTL is always
  refused, and stays on top of the stack.
* `ReadJsonFromFile` opens the file and returns no plans (its comment says the parser is to be written):
  after a restart, a load or a restore, an empty list is served, whatever is stored.
* A full disk goes unnoticed: `WriteJsonToFile` does not test the stream. A removal or a copy that fails in the middle of a
  restore is noticed, and `RestorePlanData` returns false, but it has removed files by then and leaves the cache as
  it was.
* The file of a list names `sListID` "planNumber", and has neither waypoints nor depths nor more than one character of the text.
* `LaunchTube::AssignWeapon` stores the pointers before it initialises the objects. The console powers the new weapon on, the
  periodic thread plans, reads ON and finds the conditions met; then the assigning thread's `Reset` withdraws state and fire
  solution, and `Update` stores RTL: a weapon that is ready without a solution. A launch completed in that window is erased by
  `Reset`. TLC finds both if the exception of `early` is taken out of `LaunchNeedsFireSolution` and `LaunchedIsPermanent`.
* A list an operator sends may repeat a plan number: `UpdateFromEditedPlanList` and `SavePlanList` have no such check as the one
  in `AddPlan` (`MineDropPlanManager.cpp:227`), and `UpdatePlan` and `RemovePlan` then see the first of the two only.
* What `Update` stores late overwrites OFF after an emergency stop or an undo that has reported success (`weapon_off`).

## 5. Proofs

Six modules prove theorems about the six detailed modules, for every value of the constants: any number of
callers, submitters, tubes, commands, messages, lists and signals, and any limits. Every safety invariant and every
action property of a passing run is stated by one of them, but for `UndoNeverLaunches`, which holds for one call at a time only,
and `CallersFindTube`, which holds for one calling thread only: the program guarantees neither, so they stay with TLC. Each is proved from an inductive invariant `IInv` by
Init => IInv, IInv /\ [Next]_vars => IInv' with one case per action, and IInv => property. The strengthenings were
checked with TLC before they were proved.

The assumptions on the constants are the named `ASSUME`s of the modules. Most of them say that distinct things
are distinct (`NoCaller` is no caller, `None` is no weapon) and that bounds are natural numbers. The others are
facts of the program: own ship and target are different topics (`TopicsAssumption`), the commands that will
ever arrive are finitely many (`Controller`'s `MessagesAssumption`, because its statistics count them), the undo limit is
not zero (`MaxUndoAssumption`). An operator may send any list of plans (`PlansAssumption`). TLC evaluates
them in every run.

### Weapon

| theorem | states |
|---|---|
| `TypeCorrect` | `[]TypeOK` |
| `LaunchIsSerialised` | `[]LaunchSerialised` |
| `FireSolutionFirst` | `[]LaunchNeedsFireSolution` |
| `AbortIsDeadCode` | `[]AbortNeverTaken` |
| `StartsFromRTL` | `LaunchStartsFromRTL` |
| `StaysFired` | `LaunchedIsPermanent` |
| `RefinesFireControl` | the specification implies `FireControl`'s safety part |

`IInv = TypeOK /\ MutexInv /\ FreshInv /\ LaunchInv /\ LaunchSeen /\ LaunchNeedsFireSolution /\ UpdaterInv`.

* `MutexInv`: a caller past the lock holds `m_stateMutex`, and conversely. It gives serialisation, for every weapon.
* `LaunchInv` and `LaunchSeen`: what holds while somebody is in `ProcessLaunch`, and that LAUNCH is
  visible only then. They hold when a weapon is initialised under its users too, as `Reset` waits for the mutex; only what
  they say of RTL and LAUNCH is restricted.
* A weapon is `Disturbed` if it was used before it was initialised (`early`), or is being dropped. Of such a weapon the code
  guarantees nothing more (section 4); the properties, and the phase "disputed" of `FireControl`,
  say exactly that. `FreshInv`: a weapon that is not initialised and not disturbed is untouched, so that its initialisation
  changes nothing.
* `UpdaterInv` is what makes the unlocked `Update` harmless for the launches of all other weapons; without it the invariant is
  not inductive. The mutex does not keep the periodic thread out, so its store of RTL could fall
  into a launch. It does not: a store of RTL follows a read of ON, a launch starts from RTL, and
  only the periodic thread itself stores RTL, which at that moment it has not yet done. Its other store,
  ON over RTL, does not come either: until it is dropped, the fire solution of a weapon that is not disturbed is not withdrawn.
  Nothing of this excludes OFF between the read and the store, which is the finding `weapon_off`.

### LaunchTube

| theorem | states |
|---|---|
| `TypeCorrect` | `[]TypeOK` |
| `OwnShipArrives` | `[]OwnShipReachesTube` |
| `TargetArrives` | `[]TargetReachesTube` |

`IInv = TypeOK /\ (~crashed => MessageInv /\ ShipInv /\ TargetInv)`. At rest the tube has the latest own ship
information; in between it may not, and `ShipInv` says who then owes it: the DDS thread, which has a message to
deliver, or a caller that is `Renewing`, that is, has not finished its assignment. That several callers assign
the same tube does no harm here: whoever stores the manager last copies the information after that. `TargetInv` is
the same for the targets, and `MessageInv` says that what the DDS thread delivers is the latest.

### CommandProcessor

| theorem | states |
|---|---|
| `TypeCorrect` | `[]TypeOK` |
| `UrgentIsNotified` | `[]UrgentWakesUp` |
| `StacksTellTheTruth` | `[]UndoableIsApplied` |
| `StacksStayBounded` | `[]StacksBounded` |
| `RefinesCommandLog` | the specification implies `CommandLog`'s safety part |

`IInv = TypeOK /\ CarriedInv /\ PlacesInv /\ OnceQueued /\ UndoableIsApplied /\ StacksBounded /\ SleepInv /\ UrgentWakesUp`.

* `PlacesInv` and `OnceQueued`: a command is in one place at a time (not submitted, carried by a submitter, in one of
  the queues and once, taken by the processing thread, on a stack), and it has taken effect only where it can have. That is
  needed because a command is pushed on the undo stack in a step after its execution, while undo, redo and
  `ClearHistory` go on.
* `SleepInv`: a thread that is about to sleep has found the priority queue empty; it keeps `m_queueMutex` until it sleeps.
  For a priority command the notification therefore comes after the push and cannot be lost, in contrast to those of `Stop` and
  `Resume`, which store their flags without the mutex.
* The refinement needs two more: `OneThread` (a stopped processor has no thread) and `StatusInv`, which derives from the
  place of a command the status that `CommandLog` gives it. Each action is shown to be a step of `CommandLog` for one
  command, for several (a stop drops the queue, a limit drops the oldest), or for none.

### Commands

| theorem | states |
|---|---|
| `Invariance` | `[](IInv /\ BesideInv)` |
| `TypeCorrect` | `[]TypeOK`, if `ConversionsTyped` |
| `EmergencyStopCompletes` | `[]EmergencyStopIsComplete` |
| `UndoDoesRestore` | `UndoRestores` |

All hold with any number of calls at a time, and with the periodic thread storing between any two of their steps.

`IInv = TubesType /\ JobsInv /\ StacksInv /\ HoldInv /\ EmptyInv`: each thread does jobs
of its kind, what a command has recorded fits it, the stacks have room for the command that is being undone or redone,
a weapon shows POC or LAUNCH only while a thread holds its mutex, who holds it asks for ON or LAUNCH, and an empty tube has neither
route nor launch. The converse of the clause on the mutex is false: a late store of `Update` hides POC.
`BesideInv` types what the periodic thread has read, and the history.

`CallInv` says how far a call has come: at the tubes that an undo or an emergency stop no longer asks, and that no other thread
has changed since it began, is what the call will report, unless a request has failed. The order of the tubes is left open, so
this is an invariant of the set of requests still to make. A step of another thread either leaves a tube alone or
adds it to `touched` (`Elsewhere`), so the clause survives it; that is why the theorems need no hypothesis on who else runs.

What they do not say is needed: a tube that somebody else has changed meanwhile may be in any state, and a store of the
periodic thread that comes after the call has returned may still replace OFF (`weapon_off`). `UndoNeverLaunches` is false as
soon as two calls overlap (`commands_undo`).

`ConversionsTyped` says that filtering the waypoints of a message gives a sequence of waypoints. It is true of every
message, but `SelectSeq` is defined by recursion, and that needs induction over data; the other theorems do without it, as
they say only that a route was made of a message. TLC evaluates both conversions in the runs.

### Controller

| theorem | states |
|---|---|
| `TypeCorrect` | `[]TypeOK` |
| `TubesAreClearedLast` | `[]TubesClearedLast` |
| `ShutdownIsClean` | `[]CleanStop` |
| `StatisticsStayTrue` | `[]StatisticsAddUp` |
| `RepliesAreDroppedLate` | `[]RepliesDroppedLate` |

`IInv = TypeOK /\ TrackedInv /\ CountInv /\ StatisticsAddUp /\ JoinInv /\ TubesClearedLast /\ QuietInv /\ RepliesDroppedLate`.

* `TrackedInv`: a command is in one place (not received, with the DDS thread, in the queue, with the processing
  thread), and `CountInv` counts them: outcomes, commands on their way and commands to come are together no more than there
  are. Only so is a counter bounded although arrival and outcome are counted by two threads in either order.
* `JoinInv` ties each place of `Stop` to the threads that are gone by then, for both of the threads that may be in it, the main
  thread and the handler on top of it. The exception is the DDS thread: the flag has been cleared, but the
  other of the two may still be joining it.
* `QuietInv`: without a signal, flags and threads are what the place of the main thread says.

### MineDropPlan

| theorem | states |
|---|---|
| `TypeCorrect` | `[]TypeOK` |
| `ServedStaysValid` | `[]ServedIsValid` |
| `AddingKeepsNumbersUnique` | `OnlyEditsDuplicate` |
| `ServedStaysStored` | `[]ServedIsStored` |

`IInv = TypeOK /\ ServedInv /\ SavingInv /\ Sound(plans)`: not only what is served is sound (short enough, validated),
but also what a call holds between the opening of the file and the cache, with a crash in between.

`AddingKeepsNumbersUnique` rests on lemmas that appending a plan of a new number, replacing the first of a number and removing
one keep the numbers of a list apart. It needs no assumption on the lists an operator sends: where one repeats a number, the
property names that list as the cause.

`ServedStaysStored` adds `StoredInv`, which names the one list that is out of step at each step of a call, and excepts the
lists in `lost`. It holds with every fault; only for a disk that was full and for a restore that failed does it say
nothing of the lists concerned, until they are stored, loaded or deleted again.

### Model-checked only

* Liveness: `MutexReleased`, `PowerOnBecomesReady`, `LaunchShows`, `PlanFollowsWaypoints`, `EnqueuedIsTaken`, `StopEnds`,
  `StopCompletes`, and the fairness parts of `ImplementsFireControl` and `ImplementsCommandLog`: the prover has no ENABLED.
* `UndoNeverLaunches` for one call at a time, and `CallersFindTube` for one calling thread.
* What the conversions of waypoint messages compute (`ConversionsTyped`): induction over data.
* The disagreements of section 4, which are counterexamples.

## 6. What is not modelled

* Logging, the text of reports and the callbacks of the user interface, which only print; failing
  initialisation and the options of the command line.
* Trajectories, coordinates, byte order: floating point without state.
* The vendor's DDS library and the generated message types: not in the repository. The DDS thread is
  modelled from `looping_thread.h` and `CAiepDdsComm.cpp` as a thread that receives any message not yet
  received.
* Time: delays are steps of any length.
* `GetPlan`, which only looks one plan up by `sListID`; `SetDataPath` at run time, and several threads in `MineDropPlanManager`: after start only the DDS thread
  calls it.
* Reading an atomic and reading a plain variable are the same in the models: one value, sequentially
  consistent.

## 7. Plan

Done: sections 2 to 5.

1. *Model further.* What is left is small: `SetAxisCenter` in `LaunchTube`, a second list of observers, several threads
   in `MineDropPlanManager` should the program ever call it from more than one.
2. *Prove further.* What the runs check and TLAPS can express is proved (section 5). What is left is to say
   more: a theorem on the second launch that the transition map allows, and on plans (`PlanFollowsWaypoints` has a safety
   half: between two threads that do not meet, a plan is of one route).
