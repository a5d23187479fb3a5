----------------------------- MODULE Controller -----------------------------
(***************************************************************************)
(* Controller/WeaponController.cpp, main.cpp and the DDS layer: how the    *)
(* system is started, fed and stopped.  The main thread starts the         *)
(* components, works at the console and stops them; SIGINT and SIGTERM call*)
(* Stop too, on top of whatever the main thread is doing.  The periodic    *)
(* thread, the processing thread and the DDS thread work in between and    *)
(* count commands under m_statisticsMutex.  Of the weapons only the        *)
(* assignment of the tubes is kept; the wait of the processing thread, the *)
(* tubes, the weapons and the plan lists have modules of their own.        *)
(***************************************************************************)
EXTENDS Naturals, FiniteSets

CONSTANTS
    Tubes,
    Commands,      \* assignment and control messages, each received at most once
    Notices,       \* kinds of the other messages
    NoMessage,
    MaxMessages,   \* bound: messages received
    MaxSignals     \* bound: signals delivered

Kinds == {"assign", "control", "ship", "target", "waypoints", "request", "inference",
          "edited", "selected", "area", "result"}

ASSUME MessagesAssumption ==
    /\ Commands \subseteq [kind : {"assign", "control"}, tube : Tubes]
    /\ Notices \subseteq Kinds \ {"assign", "control"}
    /\ NoMessage \notin Commands \cup [kind : Notices]
    /\ IsFiniteSet(Commands)

ASSUME BoundsAssumption == MaxMessages \in Nat /\ MaxSignals \in Nat

VARIABLES
    running,       \* m_running
    stopRequested, \* m_stopRequested
    periodic,      \* the periodic thread
    processor,     \* the processing thread of m_commandProcessor
    stopping,      \* CommandProcessor::m_stopRequested
    queue,         \* commands in its queue; their order does not matter here
    current,       \* the command it executes or reports
    listening,     \* LoopingThread::_isStarted of the DDS thread
    dds,           \* the DDS thread
    message,       \* the message it handles
    unsent,        \* commands not yet received
    received,      \* messages received so far
    dropped,       \* what Send did not send: "answer", "result"
    assigned,      \* tubes that are assigned
    statistics,    \* m_statistics: its three counters
    reset,         \* ResetStatistics has been called
    main,          \* where the main thread is
    held,          \* the tube whose weapon's m_stateMutex it holds, in a set
    handler,       \* where the signal handler is, on the main thread
    signals,       \* signals delivered so far
    crashed        \* a thread was joined twice, or destroyed without a join

flags == <<running, stopRequested>>
processing == <<processor, stopping, queue, current>>
reception == <<listening, dds, message, unsent, received, dropped>>
counters == <<statistics, reset>>
callers == <<main, held, handler, signals>>
vars == <<flags, periodic, processing, reception, assigned, counters, callers, crashed>>

StopSteps == {"stop", "request", "joinPeriodic", "stopProcessor", "joinProcessor",
              "clearQueue", "stopDds", "joinDds", "tubes", "stopped"}
StartSteps == {"startProcessor", "startDds", "setRunning", "clearStop",
               "startPeriodic"}
\* Calls from the console during which the main thread holds a mutex: the m_stateMutex
\* of a weapon, m_tubesMutex (shared), that and m_statisticsMutex, m_environmentMutex.
Calls == {"control", "status", "statistics", "axis"}
\* console: between two calls; destroy: g_controller.reset(); done: "System
\* shutdown complete."
MainSteps == {"console", "destroy", "done"} \cup Calls \cup StartSteps \cup StopSteps
DdsSteps == {"none", "top", "dispatch", "enqueue", "count", "store", "tubes", "convert",
             "reply", "keep", "exited"}

Counters == 0..Cardinality(Commands)
SystemStatistics == [total : Counters, successful : Counters, failed : Counters]

TypeOK ==
    /\ running \in BOOLEAN /\ stopRequested \in BOOLEAN
    /\ periodic \in {"none", "top", "work", "stamp", "exited"}
    /\ processor \in {"none", "idle", "execute", "succeeded", "failed", "exited"}
    /\ stopping \in BOOLEAN /\ queue \in SUBSET Commands
    /\ current \in Commands \cup {NoMessage}
    /\ (processor \in {"execute", "succeeded", "failed"}) = (current # NoMessage)
    /\ listening \in BOOLEAN /\ dds \in DdsSteps
    /\ message \in Commands \cup [kind : Notices] \cup {NoMessage}
    /\ unsent \in SUBSET Commands /\ received \in 0..MaxMessages
    /\ dropped \in SUBSET {"answer", "result"}
    /\ assigned \in SUBSET Tubes
    /\ statistics \in SystemStatistics /\ reset \in BOOLEAN
    /\ main \in MainSteps /\ held \in SUBSET Tubes
    /\ (main = "control") = (held # {}) /\ Cardinality(held) <= 1
    /\ handler \in {"none"} \cup StopSteps
    /\ signals \in 0..MaxSignals
    /\ crashed \in BOOLEAN

NoCommands == [total |-> 0, successful |-> 0, failed |-> 0]

\* After WeaponController::Initialize.
Init ==
    /\ running = FALSE /\ stopRequested = FALSE
    /\ periodic = "none"
    /\ processor = "none" /\ stopping = FALSE /\ queue = {} /\ current = NoMessage
    /\ listening = FALSE /\ dds = "none" /\ message = NoMessage
    /\ unsent = Commands /\ received = 0 /\ dropped = {}
    /\ assigned = {}
    /\ statistics = NoCommands /\ reset = FALSE
    /\ main = "startProcessor" /\ held = {} /\ handler = "none" /\ signals = 0
    /\ crashed = FALSE
----------------------------------------------------------------------------
(* The main thread, while no signal handler runs on top of it *)

MainAt(label) == ~crashed /\ handler = "none" /\ main = label

\* The rest of the system is as it was.
OnlyMainMoves ==
    UNCHANGED <<flags, periodic, processing, reception, assigned, counters, held,
                handler, signals, crashed>>

\* CommandProcessor::Start and DdsFacade::Start each create a thread ...
StartProcessor ==
    /\ MainAt("startProcessor")
    /\ processor' = "idle" /\ stopping' = FALSE
    /\ main' = "startDds"
    /\ UNCHANGED <<flags, periodic, queue, current, reception, assigned, counters,
                   handler, held, signals, crashed>>

StartDds ==
    /\ MainAt("startDds")
    /\ listening' = TRUE /\ dds' = "top"
    /\ main' = "setRunning"
    /\ UNCHANGED <<flags, periodic, processing, message, unsent, received, dropped,
                   assigned, counters, handler, held, signals, crashed>>

\* ... which work before m_running is set.
SetRunning ==
    /\ MainAt("setRunning")
    /\ running' = TRUE
    /\ main' = "clearStop"
    /\ UNCHANGED <<stopRequested, periodic, processing, reception, assigned, counters,
                   handler, held, signals, crashed>>

ClearStop ==
    /\ MainAt("clearStop")
    /\ stopRequested' = FALSE
    /\ main' = "startPeriodic"
    /\ UNCHANGED <<running, periodic, processing, reception, assigned, counters,
                   handler, held, signals, crashed>>

StartPeriodic ==
    /\ MainAt("startPeriodic")
    /\ periodic' = "top"
    /\ main' = "console"
    /\ UNCHANGED <<flags, processing, reception, assigned, counters, handler, held,
                   signals, crashed>>

\* Console or test scenario.
DirectAssignWeapon(t) ==
    /\ MainAt("console") /\ t \notin assigned
    /\ assigned' = assigned \cup {t}
    /\ UNCHANGED <<flags, periodic, processing, reception, counters, callers,
                   crashed>>

DirectUnassignWeapon(t) ==
    /\ MainAt("console") /\ t \in assigned
    /\ assigned' = assigned \ {t}
    /\ UNCHANGED <<flags, periodic, processing, reception, counters, callers,
                   crashed>>

\* DirectControlWeapon, DirectEmergencyStop tube by tube: a power-on check or a launch
\* takes seconds under the m_stateMutex of the weapon.
DirectControlWeapon ==
    /\ MainAt("console")
    /\ \E t \in assigned : held' = {t}
    /\ main' = "control"
    /\ UNCHANGED <<flags, periodic, processing, reception, assigned, counters, handler,
                   signals, crashed>>

\* PrintSystemStatus: GetAllTubeStatus under the shared m_tubesMutex ...
GetAllTubeStatus ==
    /\ MainAt("console")
    /\ main' = "status"
    /\ OnlyMainMoves

\* ... and again under m_statisticsMutex.
GetSystemStatistics ==
    /\ MainAt("status")
    /\ main' = "statistics"
    /\ OnlyMainMoves

SetAxisCenter ==
    /\ MainAt("console")
    /\ main' = "axis"
    /\ OnlyMainMoves

CallReturns ==
    /\ ~crashed /\ handler = "none" /\ main \in {"control", "statistics", "axis"}
    /\ main' = "console" /\ held' = {}
    /\ UNCHANGED <<flags, periodic, processing, reception, assigned, counters, handler,
                   signals, crashed>>

ResetStatistics ==
    /\ MainAt("console")
    /\ statistics' = NoCommands /\ reset' = TRUE
    /\ UNCHANGED <<flags, periodic, processing, reception, assigned, callers,
                   crashed>>

\* Exit from the menu, end of the test scenario, or g_shutdown seen.
CallStop ==
    /\ MainAt("console")
    /\ main' = "stop"
    /\ OnlyMainMoves

\* g_controller.reset(): the destructor of a thread that nobody has joined ends the
\* process.
DestroyController ==
    /\ MainAt("destroy")
    /\ main' = "done"
    /\ crashed' = (periodic # "none")
    /\ UNCHANGED <<flags, periodic, processing, reception, assigned, counters,
                   handler, held, signals>>

\* SIGINT, SIGTERM: SignalHandler calls Stop on top of the main thread.
Signal ==
    /\ ~crashed /\ handler = "none" /\ main # "done" /\ signals < MaxSignals
    /\ signals' = signals + 1
    /\ handler' = "stop"
    /\ UNCHANGED <<flags, periodic, processing, reception, assigned, counters, main,
                   held, crashed>>
----------------------------------------------------------------------------
(* WeaponController::Stop, by the main thread or by the handler on top of it *)

\* Whoever is at this step of Stop and not interrupted ...
StopAt(label) == ~crashed /\ IF handler = "none" THEN main = label
                                                ELSE handler = label

\* ... goes on to the next.
StopGoto(label) ==
    IF handler = "none"
    THEN main' = (IF label = "stopped" THEN "destroy" ELSE label) /\ UNCHANGED handler
    ELSE handler' = (IF label = "stopped" THEN "none" ELSE label) /\ UNCHANGED main

\* The handler interrupted the main thread in this very join.
JoinsTwice(label) == handler = label /\ main = label

StopCheck ==
    /\ StopAt("stop")
    /\ StopGoto(IF running THEN "request" ELSE "stopped")
    /\ UNCHANGED <<flags, periodic, processing, reception, assigned, counters, held,
                   signals, crashed>>

\* Faulty variant of StopRequest: m_stopRequested is not set.
RequestNothing ==
    /\ StopAt("request")
    /\ StopGoto("joinPeriodic")
    /\ UNCHANGED <<flags, periodic, processing, reception, assigned, counters, held,
                   signals, crashed>>

StopRequest ==
    /\ StopAt("request")
    /\ stopRequested' = TRUE
    /\ StopGoto("joinPeriodic")
    /\ UNCHANGED <<running, periodic, processing, reception, assigned, counters, held,
                   signals, crashed>>

\* Faulty variant of JoinPeriodic: the thread is left to itself.
DetachPeriodic ==
    /\ StopAt("joinPeriodic")
    /\ StopGoto("stopProcessor")
    /\ UNCHANGED <<flags, periodic, processing, reception, assigned, counters, held,
                   signals, crashed>>

\* joinable() is false for a thread not yet created or already joined.
JoinPeriodic ==
    /\ StopAt("joinPeriodic") /\ periodic \in {"none", "exited"}
    /\ IF JoinsTwice("joinPeriodic")
       THEN crashed' = TRUE /\ UNCHANGED <<periodic, main, handler>>
       ELSE periodic' = "none" /\ StopGoto("stopProcessor") /\ UNCHANGED crashed
    /\ UNCHANGED <<flags, processing, reception, assigned, counters, held, signals>>

\* CommandProcessor::Stop: nothing to do if it is not running (any more) ...
StopProcessor ==
    /\ StopAt("stopProcessor")
    /\ IF processor = "none"
       THEN StopGoto("stopDds") /\ UNCHANGED stopping
       ELSE StopGoto("joinProcessor") /\ stopping' = TRUE
    /\ UNCHANGED <<flags, periodic, processor, queue, current, reception, assigned,
                   counters, held, signals, crashed>>

\* Faulty variant of JoinProcessor: the thread is left to itself.
DetachProcessor ==
    /\ StopAt("joinProcessor")
    /\ StopGoto("clearQueue")
    /\ UNCHANGED <<flags, periodic, processing, reception, assigned, counters, held,
                   signals, crashed>>

\* ... otherwise the thread is joined and the rest of the queue dropped.
JoinProcessor ==
    /\ StopAt("joinProcessor") /\ processor \in {"none", "exited"}
    /\ IF JoinsTwice("joinProcessor")
       THEN crashed' = TRUE /\ UNCHANGED <<processor, main, handler>>
       ELSE processor' = "none" /\ StopGoto("clearQueue") /\ UNCHANGED crashed
    /\ UNCHANGED <<flags, periodic, stopping, queue, current, reception, assigned,
                   counters, held, signals>>

ClearQueue ==
    /\ StopAt("clearQueue")
    /\ queue' = {}
    /\ StopGoto("stopDds")
    /\ UNCHANGED <<flags, periodic, processor, stopping, current, reception, assigned,
                   counters, held, signals, crashed>>

\* StopLoopingThread: a second caller does not wait for the thread.
StopDds ==
    /\ StopAt("stopDds")
    /\ listening' = FALSE
    /\ StopGoto(IF listening THEN "joinDds" ELSE "tubes")
    /\ UNCHANGED <<flags, periodic, processing, dds, message, unsent, received,
                   dropped, assigned, counters, held, signals, crashed>>

JoinDds ==
    /\ StopAt("joinDds") /\ dds = "exited"
    /\ dds' = "none"
    /\ StopGoto("tubes")
    /\ UNCHANGED <<flags, periodic, processing, listening, message, unsent, received,
                   dropped, assigned, counters, held, signals, crashed>>

\* Faulty variant of ShutdownTubes: only m_initialized is reset.
ShutdownKeepsTubes ==
    /\ StopAt("tubes")
    /\ running' = FALSE
    /\ StopGoto("stopped")
    /\ UNCHANGED <<stopRequested, periodic, processing, reception, assigned, counters,
                   held, signals, crashed>>

\* LaunchTubeManager::Shutdown resets the assigned weapons under m_tubesMutex, then
\* m_running is cleared.  The handler waits for ever for a mutex that the main thread,
\* below it, holds.
ShutdownTubes ==
    /\ StopAt("tubes")
    /\ handler = "tubes" =>
           held \cap assigned = {} /\ main \notin {"status", "statistics"}
    /\ assigned' = {}
    /\ running' = FALSE
    /\ StopGoto("stopped")
    /\ UNCHANGED <<stopRequested, periodic, processing, reception, counters, held,
                   signals, crashed>>
----------------------------------------------------------------------------
(* The periodic thread: HandlePeriodicTasks *)

PeriodicAt(label) == ~crashed /\ periodic = label

PeriodicTop ==
    /\ PeriodicAt("top")
    /\ periodic' = IF stopRequested THEN "exited" ELSE "work"
    /\ UNCHANGED <<flags, processing, reception, assigned, counters, callers, crashed>>

\* What Send leaves unsent of a message: all of it, once _isStarted is cleared.
Unsent(what) == IF listening THEN dropped ELSE dropped \cup {what}

\* Once a second; only mines have results to send.
SendEngagementResults ==
    \/ assigned # {} /\ dropped' = Unsent("result")
    \/ UNCHANGED dropped

\* Update, UpdateEngagementPlans and the reports.
PeriodicWork ==
    /\ PeriodicAt("work")
    /\ SendEngagementResults
    /\ periodic' = "stamp"
    /\ UNCHANGED <<flags, processing, listening, dds, message, unsent, received,
                   assigned, counters, callers, crashed>>

\* GetSystemStatistics of the main thread holds it until it has looked at all tubes.
StatisticsMutexFree == main # "statistics"
EnvironmentMutexFree == main # "axis"

\* lastUpdateTime.
PeriodicStamp ==
    /\ PeriodicAt("stamp") /\ StatisticsMutexFree
    /\ periodic' = "top"
    /\ UNCHANGED <<flags, processing, reception, assigned, counters, callers, crashed>>
----------------------------------------------------------------------------
(* The processing thread *)

ProcessorAt(label) == ~crashed /\ processor = label

\* ProcessingLoop: the stop request first, then the queue.  Notifications are taken to
\* arrive here: CommandProcessor shows how that of Stop gets lost.
ProcessorTake ==
    /\ ProcessorAt("idle")
    /\ IF stopping
       THEN processor' = "exited" /\ UNCHANGED <<queue, current>>
       ELSE \E c \in queue : /\ processor' = "execute" /\ current' = c
                             /\ queue' = queue \ {c}
    /\ UNCHANGED <<flags, periodic, stopping, reception, assigned, counters, callers,
                   crashed>>

\* AssignCommand::Execute fails on a tube that is assigned ...
ExecuteAssign ==
    /\ ProcessorAt("execute") /\ current.kind = "assign"
    /\ current.tube \in assigned \/ EnvironmentMutexFree
    /\ processor' = IF current.tube \in assigned THEN "failed" ELSE "succeeded"
    /\ assigned' = assigned \cup {current.tube}
    /\ UNCHANGED <<flags, periodic, stopping, queue, current, reception, counters,
                   callers, crashed>>

\* ... WeaponControlCommand::Execute on one that is not, or when the weapon refuses.
ExecuteControl ==
    /\ ProcessorAt("execute") /\ current.kind = "control"
    /\ \/ /\ current.tube \in assigned \ held
          /\ processor' \in {"succeeded", "failed"}
       \/ current.tube \notin assigned /\ processor' = "failed"
    /\ UNCHANGED <<flags, periodic, stopping, queue, current, reception, assigned,
                   counters, callers, crashed>>

\* Faulty variant of OnCommandExecuted: command is not reset.
ReportAndKeep ==
    /\ ProcessorAt("succeeded") /\ StatisticsMutexFree
    /\ statistics' = [statistics EXCEPT !.successful = @ + 1]
    /\ processor' = "idle"
    /\ UNCHANGED <<flags, periodic, stopping, queue, current, reception, assigned,
                   reset, callers, crashed>>

OnCommandExecuted ==
    /\ ProcessorAt("succeeded") /\ StatisticsMutexFree
    /\ statistics' = [statistics EXCEPT !.successful = @ + 1]
    /\ processor' = "idle" /\ current' = NoMessage
    /\ UNCHANGED <<flags, periodic, stopping, queue, reception, assigned, reset,
                   callers, crashed>>

OnCommandFailed ==
    /\ ProcessorAt("failed") /\ StatisticsMutexFree
    /\ statistics' = [statistics EXCEPT !.failed = @ + 1]
    /\ processor' = "idle" /\ current' = NoMessage
    /\ UNCHANGED <<flags, periodic, stopping, queue, reception, assigned, reset,
                   callers, crashed>>
----------------------------------------------------------------------------
(* The DDS thread *)

DdsAt(label) == ~crashed /\ dds = label

\* It dispatches for up to a second at a time while _isStarted is set ...
DispatchAgain ==
    /\ DdsAt("top")
    /\ dds' = IF listening THEN "dispatch" ELSE "exited"
    /\ UNCHANGED <<flags, periodic, processing, listening, message, unsent, received,
                   dropped, assigned, counters, callers, crashed>>

\* What the reader callback of a topic and OnDDSTopicRcvd do first.
FirstStep(kind) ==
    CASE kind \in {"assign", "control"} -> "enqueue"
      [] kind \in {"ship", "target"} -> "store"
      [] kind = "waypoints" -> "tubes"
      [] kind = "request" -> "convert"
      [] kind = "inference" -> "reply"
      [] kind \in {"edited", "selected", "area", "result"} -> "keep"

\* ... and hands over the messages that come, also after StopLoopingThread has
\* cleared the flag ...
Receive ==
    /\ DdsAt("dispatch") /\ received < MaxMessages
    /\ received' = received + 1
    /\ \/ \E c \in unsent : message' = c /\ unsent' = unsent \ {c}
       \/ message' \in [kind : Notices] /\ UNCHANGED unsent
    /\ dds' = FirstStep(message'.kind)
    /\ UNCHANGED <<flags, periodic, processing, listening, dropped, assigned, counters,
                   callers, crashed>>

\* ... until it has handled them, or the second is over.
DispatchReturns ==
    /\ DdsAt("dispatch")
    /\ dds' = "top"
    /\ UNCHANGED <<flags, periodic, processing, listening, message, unsent, received,
                   dropped, assigned, counters, callers, crashed>>

\* EnqueueCommand takes a command that is valid, whether the processor runs or not;
\* whether the state of the weapon allows a control command is left open.
EnqueueMessage ==
    /\ DdsAt("enqueue")
    /\ \/ /\ (message.kind = "control") = (message.tube \in assigned)
          /\ queue' = queue \cup {message}
       \/ /\ message.tube \notin assigned => message.kind = "control"
          /\ UNCHANGED queue
    /\ dds' = "count"
    /\ UNCHANGED <<flags, periodic, processor, stopping, current, listening, message,
                   unsent, received, dropped, assigned, counters, callers, crashed>>

\* Faulty variant of CountCommand: only assignments are counted.
CountAssignments ==
    /\ DdsAt("count") /\ StatisticsMutexFree
    /\ statistics' = IF message.kind = "assign"
                     THEN [statistics EXCEPT !.total = @ + 1] ELSE statistics
    /\ dds' = "dispatch" /\ message' = NoMessage
    /\ UNCHANGED <<flags, periodic, processing, listening, unsent, received, dropped,
                   assigned, reset, callers, crashed>>

CountCommand ==
    /\ DdsAt("count") /\ StatisticsMutexFree
    /\ statistics' = [statistics EXCEPT !.total = @ + 1]
    /\ dds' = "dispatch" /\ message' = NoMessage
    /\ UNCHANGED <<flags, periodic, processing, listening, unsent, received, dropped,
                   assigned, reset, callers, crashed>>

\* Own ship and target are stored under the m_environmentMutex of the controller, then
\* of the tube manager.
UpdateEnvironment ==
    /\ DdsAt("store") /\ EnvironmentMutexFree
    /\ dds' = "tubes"
    /\ UNCHANGED <<flags, periodic, processing, listening, message, unsent, received,
                   dropped, assigned, counters, callers, crashed>>

\* Environment or waypoints go to the tubes: see LaunchTube.
UpdateTubes ==
    /\ DdsAt("tubes")
    /\ dds' = "dispatch" /\ message' = NoMessage
    /\ UNCHANGED <<flags, periodic, processing, listening, unsent, received, dropped,
                   assigned, counters, callers, crashed>>

\* The list is looked up before Send asks whether the thread is started.
ProcessMineDropPlanRequest ==
    /\ DdsAt("convert")
    /\ dds' = "reply"
    /\ UNCHANGED <<flags, periodic, processing, listening, message, unsent, received,
                   dropped, assigned, counters, callers, crashed>>

SendAnswer ==
    /\ DdsAt("reply")
    /\ dropped' = Unsent("answer")
    /\ dds' = "dispatch" /\ message' = NoMessage
    /\ UNCHANGED <<flags, periodic, processing, listening, unsent, received, assigned,
                   counters, callers, crashed>>

\* Plan lists (see MineDropPlan), the selected list, prohibited areas, results of
\* inferences: nothing that another thread of this module looks at.
KeepMessage ==
    /\ DdsAt("keep")
    /\ dds' = "dispatch" /\ message' = NoMessage
    /\ UNCHANGED <<flags, periodic, processing, listening, unsent, received, dropped,
                   assigned, counters, callers, crashed>>
----------------------------------------------------------------------------
Start == StartProcessor \/ StartDds \/ SetRunning \/ ClearStop \/ StartPeriodic

Console ==
    \/ \E t \in Tubes : DirectAssignWeapon(t) \/ DirectUnassignWeapon(t)
    \/ DirectControlWeapon \/ GetAllTubeStatus \/ GetSystemStatistics
    \/ SetAxisCenter \/ CallReturns \/ ResetStatistics \/ CallStop

Stop ==
    \/ StopCheck \/ StopRequest \/ JoinPeriodic \/ StopProcessor \/ JoinProcessor
    \/ ClearQueue \/ StopDds \/ JoinDds \/ ShutdownTubes

PeriodicThread == PeriodicTop \/ PeriodicWork \/ PeriodicStamp

ProcessingThread ==
    \/ ProcessorTake \/ ExecuteAssign \/ ExecuteControl
    \/ OnCommandExecuted \/ OnCommandFailed

Handlers ==
    \/ EnqueueMessage \/ CountCommand \/ UpdateEnvironment \/ UpdateTubes
    \/ ProcessMineDropPlanRequest \/ SendAnswer \/ KeepMessage

DdsThread == DispatchAgain \/ Handlers \/ DispatchReturns

Next ==
    \/ Start \/ Console \/ Stop \/ DestroyController \/ Signal
    \/ PeriodicThread \/ ProcessingThread \/ DdsThread \/ Receive

\* A thread that can go on does; messages and signals need not come, and nobody need
\* type anything at the console.
Fairness ==
    /\ WF_vars(Stop \/ DestroyController)
    /\ WF_vars(PeriodicThread) /\ WF_vars(ProcessingThread) /\ WF_vars(DdsThread)

Spec == Init /\ [][Next]_vars /\ Fairness
----------------------------------------------------------------------------
(* Properties *)

\* The tubes are emptied when nobody else works on them any more: Stop joins the
\* periodic, the processing and the DDS thread before it calls
\* LaunchTubeManager::Shutdown.  The one exception: a signal handler that
\* interrupts the join of the DDS thread does not wait for it.
TubesClearedLast ==
    ~crashed /\ (main = "tubes" \/ handler = "tubes")
        => /\ periodic = "none" /\ processor = "none"
           /\ dds = "none" \/ (handler = "tubes" /\ main = "joinDds")

\* "System shutdown complete.": without a signal no thread is left, no command is
\* left half executed, and no tube was assigned by a command after Stop had
\* emptied the tubes, although DDS messages arrive until the DDS thread is
\* joined.  A signal breaks it: see the README.
CleanStop ==
    signals = 0 /\ main = "done" =>
        /\ periodic = "none" /\ processor = "none" /\ dds = "none"
        /\ current = NoMessage /\ assigned = {}
        /\ ~running /\ ~crashed

\* The statistics never report more outcomes than commands, up to the one command
\* that the DDS thread has enqueued and not yet counted: every command that waits,
\* is executed or is reported, by another thread, has been counted on arrival.
StatisticsAddUp ==
    ~reset => statistics.successful + statistics.failed
                + Cardinality(queue \cup ({current} \ {NoMessage}))
              <= statistics.total + (IF dds = "count" THEN 1 ELSE 0)

\* Send drops what comes after _isStarted is cleared.  Without a signal no
\* engagement result of the periodic thread is lost, and a reply of the DDS thread
\* only once Stop is waiting for that thread.
RepliesDroppedLate ==
    signals = 0 =>
        /\ "result" \notin dropped
        /\ "answer" \in dropped => main \in {"joinDds", "tubes", "destroy", "done"}

\* Stop returns, whatever messages arrive meanwhile: every join of it ends, and the
\* process does, as far as the threads and their mutexes go (a lost notification of
\* CommandProcessor::Stop is StopCompletes there).  With a signal only if the handler
\* finds the main thread between two calls: see the README for the others.
StopEnds ==
    /\ (main = "stop" /\ signals = 0) ~> (main = "done" \/ signals > 0)
    /\ (handler = "stop" /\ main = "console") ~> (handler = "none")
=============================================================================
