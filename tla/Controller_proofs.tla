-------------------------- MODULE Controller_proofs --------------------------
(***************************************************************************)
(* Proofs about module Controller, for any tubes, commands, kinds of other *)
(* messages, and any number of messages and of signals.                    *)
(***************************************************************************)
EXTENDS Controller, FiniteSetTheorems, TLAPS

----------------------------------------------------------------------------
(* The inductive invariant *)

\* The commands that wait in the queue, are executed or are reported.
Waiting == queue \cup ({current} \ {NoMessage})

\* A command is in one place at a time: not yet received, with the DDS thread, in the
\* queue, or with the processing thread.
TrackedInv ==
    /\ dds \in {"enqueue", "count"} <=> message \in Commands
    /\ queue \cap unsent = {} /\ current \notin queue \cup unsent
    /\ message \in Commands => message \notin unsent
    /\ dds = "enqueue" => message \notin Waiting

\* So no counter exceeds the number of commands.
CountInv ==
    /\ statistics.successful + statistics.failed + Cardinality(Waiting)
         + Cardinality(unsent) + (IF dds = "enqueue" THEN 1 ELSE 0)
           <= Cardinality(Commands)
    /\ statistics.total + Cardinality(unsent)
         + (IF dds \in {"enqueue", "count"} THEN 1 ELSE 0) <= Cardinality(Commands)

InStop(labels) == main \in labels \/ handler \in labels

\* Whoever is in Stop, main thread or handler, has joined what it should have joined
\* so far, and nobody creates a thread any more; only the DDS thread may still be
\* there, when the other of the two waits for it.
JoinInv ==
    /\ main = "startProcessor" => processor = "none"
    /\ main \in {"startProcessor", "startDds"} => dds = "none" /\ ~listening
    /\ InStop({"stopProcessor", "joinProcessor", "clearQueue", "stopDds", "joinDds",
               "tubes"}) => periodic = "none"
    /\ InStop({"clearQueue", "stopDds", "joinDds", "tubes"}) => processor = "none"
    /\ InStop({"joinDds"}) => ~listening
    /\ ~listening => dds = "none" \/ InStop({"joinDds"})
    /\ InStop({"tubes"}) => dds = "none" \/ (handler = "tubes" /\ main = "joinDds")

Starting == {"startProcessor", "startDds", "setRunning"}
Stopped == {"destroy", "done"}

\* Without a signal the flags and the threads are what the place of the main thread
\* says.
QuietInv ==
    signals = 0 =>
        /\ handler = "none" /\ ~crashed
        /\ (running <=> main \notin Starting \cup Stopped)
        /\ main \in Starting \cup {"clearStop", "startPeriodic"} => periodic = "none"
        /\ main \in Stopped => /\ periodic = "none" /\ processor = "none"
                               /\ dds = "none" /\ assigned = {}
        /\ ~listening =>
              main \in {"startProcessor", "startDds", "joinDds", "tubes"} \cup Stopped

IInv ==
    /\ TypeOK /\ TrackedInv /\ CountInv /\ StatisticsAddUp
    /\ JoinInv /\ TubesClearedLast /\ QuietInv /\ RepliesDroppedLate
----------------------------------------------------------------------------
(* Facts about the commands and their numbers *)

LEMMA MessageKinds ==
    /\ \A c \in Commands : c.kind \in {"assign", "control"} /\ c.tube \in Tubes
    /\ \A n \in [kind : Notices] : n.kind \in Kinds \ {"assign", "control"}
    /\ NoMessage \notin Commands /\ NoMessage \notin [kind : Notices]
    /\ Commands \cap [kind : Notices] = {}
BY MessagesAssumption

LEMMA Finite ==
    ASSUME NEW S \in SUBSET Commands
    PROVE  IsFiniteSet(S) /\ Cardinality(S) \in Nat
BY MessagesAssumption, FS_Subset, FS_CardinalityType

LEMMA WaitingType == TypeOK => Waiting \in SUBSET Commands
BY DEF TypeOK, Waiting

\* The numbers that are counted and compared.
LEMMA Numbers ==
    IInv => /\ statistics.total \in Nat /\ statistics.successful \in Nat
            /\ statistics.failed \in Nat
            /\ Cardinality(Waiting) \in Nat /\ Cardinality(unsent) \in Nat
            /\ Cardinality(Commands) \in Nat
BY Finite, WaitingType DEF IInv, TypeOK, SystemStatistics, Counters

(* TypeOK in four parts, for the provers: few steps change more than one *)

FlagsType ==
    /\ running \in BOOLEAN /\ stopRequested \in BOOLEAN
    /\ periodic \in {"none", "top", "work", "stamp", "exited"}
    /\ stopping \in BOOLEAN /\ listening \in BOOLEAN /\ reset \in BOOLEAN
    /\ crashed \in BOOLEAN

WorkType ==
    /\ processor \in {"none", "idle", "execute", "succeeded", "failed", "exited"}
    /\ queue \in SUBSET Commands /\ current \in Commands \cup {NoMessage}
    /\ processor \in {"execute", "succeeded", "failed"} <=> current # NoMessage
    /\ assigned \in SUBSET Tubes /\ statistics \in SystemStatistics

DdsType ==
    /\ dds \in DdsSteps
    /\ message \in Commands \cup [kind : Notices] \cup {NoMessage}
    /\ unsent \in SUBSET Commands /\ received \in 0..MaxMessages
    /\ dropped \in SUBSET {"answer", "result"}

CallersType ==
    /\ main \in MainSteps /\ held \in SUBSET Tubes
    /\ main = "control" <=> held # {}
    /\ Cardinality(held) <= 1
    /\ handler \in {"none"} \cup StopSteps
    /\ signals \in 0..MaxSignals

LEMMA TypeParts == TypeOK <=> FlagsType /\ WorkType /\ DdsType /\ CallersType
<1>1. (processor \in {"execute", "succeeded", "failed"}) = (current # NoMessage)
      <=> (processor \in {"execute", "succeeded", "failed"} <=> current # NoMessage)
  OBVIOUS
<1>2. (main = "control") = (held # {}) <=> (main = "control" <=> held # {})
  OBVIOUS
<1> QED BY <1>1, <1>2 DEF TypeOK, FlagsType, WorkType, DdsType, CallersType

LEMMA TypePartsNext ==
    TypeOK' <=> FlagsType' /\ WorkType' /\ DdsType' /\ CallersType'
BY TypeParts, PTL

LEMMA InitInv == Init => IInv
<1> SUFFICES ASSUME Init PROVE IInv
  OBVIOUS
<1> USE DEF Init
<1>1. Cardinality(Commands) \in Nat /\ Cardinality({}) = 0
  BY Finite, FS_EmptySet
<1>2. TypeOK
  <2>1. statistics \in SystemStatistics
    BY <1>1 DEF NoCommands, SystemStatistics, Counters
  <2>2. signals \in 0..MaxSignals /\ received \in 0..MaxMessages
    BY BoundsAssumption
  <2>3. dds \in DdsSteps /\ main \in MainSteps
    BY DEF DdsSteps, MainSteps, StartSteps
  <2>4. /\ (main = "control") = (held # {}) /\ held \in SUBSET Tubes
        /\ Cardinality(held) <= 1
    BY <1>1
  <2>5. /\ (processor \in {"execute", "succeeded", "failed"}) = (current # NoMessage)
        /\ message \in Commands \cup [kind : Notices] \cup {NoMessage}
    OBVIOUS
  <2> QED BY <2>1, <2>2, <2>3, <2>4, <2>5 DEF TypeOK
<1>3. Waiting = {} /\ queue = {} /\ {current} \ {NoMessage} = {}
  BY DEF Waiting
<1>4. TrackedInv
  BY <1>3, MessageKinds DEF TrackedInv
<1>5. CountInv /\ StatisticsAddUp
  <2>1. statistics.total = 0 /\ statistics.successful = 0 /\ statistics.failed = 0
    BY DEF NoCommands
  <2> QED BY <1>1, <1>3, <2>1 DEF CountInv, StatisticsAddUp
<1>6. JoinInv /\ TubesClearedLast /\ QuietInv /\ RepliesDroppedLate
  BY DEF JoinInv, TubesClearedLast, QuietInv, RepliesDroppedLate, InStop, Starting, Stopped
<1> QED BY <1>2, <1>4, <1>5, <1>6 DEF IInv

\* A step that leaves every command where it is.
LEMMA CommandsStay ==
    ASSUME IInv, UNCHANGED <<queue, current, message, unsent, counters>>,
           dds' = dds \/ {dds, dds'} \cap {"enqueue", "count"} = {}
    PROVE  TrackedInv' /\ CountInv' /\ StatisticsAddUp'
<1>1. Waiting' = Waiting /\ statistics' = statistics /\ reset' = reset
  BY DEF Waiting, counters
<1>2. /\ dds' \in {"enqueue", "count"} <=> dds \in {"enqueue", "count"}
      /\ dds' = "enqueue" <=> dds = "enqueue"
      /\ dds' = "count" <=> dds = "count"
  OBVIOUS
<1>3. TrackedInv'
  BY <1>1, <1>2 DEF IInv, TrackedInv
<1>4. CountInv' /\ StatisticsAddUp'
  BY <1>1, <1>2 DEF IInv, CountInv, StatisticsAddUp
<1> QED BY <1>3, <1>4
----------------------------------------------------------------------------
(* The main thread *)

LEMMA StartStep == ASSUME IInv, Start PROVE IInv'
<1> USE DEF Start, StartProcessor, StartDds, SetRunning, ClearStop, StartPeriodic, MainAt,
            flags, processing, reception, counters
<1>1. TrackedInv' /\ CountInv' /\ StatisticsAddUp'
  <2>1. dds' = dds \/ (main = "startDds" /\ dds' = "top")
    OBVIOUS
  <2>2. main = "startDds" => dds \notin {"enqueue", "count"}
    BY DEF IInv, JoinInv
  <2> QED BY <2>1, <2>2, CommandsStay
<1>2. FlagsType'
  BY TypeParts DEF IInv, FlagsType
<1>7. WorkType'
  BY TypeParts DEF IInv, WorkType, JoinInv
<1>5. DdsType'
  BY TypeParts DEF IInv, DdsType, DdsSteps
<1>6. CallersType'
  BY TypeParts DEF IInv, CallersType, MainSteps, StartSteps
<1>3. JoinInv' /\ TubesClearedLast'
  BY DEF IInv, JoinInv, TubesClearedLast, InStop
<1>4. QuietInv' /\ RepliesDroppedLate'
  BY DEF IInv, QuietInv, RepliesDroppedLate, Starting, Stopped
<1> QED BY <1>1, <1>2, <1>3, <1>4, <1>5, <1>6, <1>7, TypePartsNext DEF IInv

LEMMA ConsoleStep == ASSUME IInv, Console, ~ResetStatistics PROVE IInv'
<1> USE DEF Console, DirectControlWeapon, GetAllTubeStatus, GetSystemStatistics,
            SetAxisCenter, CallReturns, CallStop, DirectAssignWeapon, DirectUnassignWeapon,
            MainAt, OnlyMainMoves, flags, processing, reception, counters, callers
<1>1. /\ UNCHANGED <<flags, periodic, processing, reception, counters, handler, signals,
                     crashed>>
      /\ handler = "none" /\ main \in {"console", "stop"} \cup Calls
      /\ main' \in {"console", "stop"} \cup Calls
  BY DEF Calls
<1>2. TypeOK'
  <2>1. /\ held' \in SUBSET Tubes /\ main' = "control" <=> held' # {}
        /\ held' = held \/ held' = {} \/ \E t \in Tubes : held' = {t}
    BY TypeParts DEF IInv, TypeOK, CallersType
  <2>3. Cardinality(held') <= 1
    <3>1. CASE held' = held
      BY <3>1 DEF IInv, TypeOK
    <3>2. CASE held' = {}
      BY <3>2, FS_EmptySet
    <3>3. CASE \E t \in Tubes : held' = {t}
      BY <3>3, FS_Singleton
    <3> QED BY <2>1, <3>1, <3>2, <3>3
  <2>4. CallersType'
    BY <1>1, <2>1, <2>3, TypeParts DEF IInv, CallersType, MainSteps, StopSteps, Calls
  <2>2. assigned' \in SUBSET Tubes
    BY DEF IInv, TypeOK
  <2> QED BY <1>1, <2>2, <2>4, TypeParts, TypePartsNext
             DEF IInv, FlagsType, WorkType, DdsType
<1>3. TrackedInv' /\ CountInv' /\ StatisticsAddUp'
  BY <1>1, CommandsStay
<1>4. JoinInv' /\ TubesClearedLast'
  BY <1>1 DEF IInv, JoinInv, TubesClearedLast, InStop, Calls
<1>5. QuietInv' /\ RepliesDroppedLate'
  BY <1>1 DEF IInv, QuietInv, RepliesDroppedLate, Starting, Stopped, Calls
<1> QED BY <1>2, <1>3, <1>4, <1>5 DEF IInv

LEMMA ResetStep == ASSUME IInv, ResetStatistics PROVE IInv'
<1> USE DEF ResetStatistics
<1>1. /\ UNCHANGED <<running, stopRequested, periodic, processor, stopping, queue, current,
                     listening, dds, message, unsent, received, dropped, assigned, main,
                     held, handler, signals, crashed>>
      /\ statistics' = NoCommands /\ reset' = TRUE
  BY DEF flags, processing, reception, callers
<1>2. /\ statistics'.total = 0 /\ statistics'.successful = 0 /\ statistics'.failed = 0
      /\ statistics' \in SystemStatistics
  BY <1>1, Finite DEF NoCommands, SystemStatistics, Counters
<1>3. TypeOK'
  BY <1>1, <1>2, TypeParts, TypePartsNext
     DEF IInv, FlagsType, WorkType, DdsType, CallersType
<1>4. CountInv'
  <2>1. Waiting' = Waiting
    BY <1>1 DEF Waiting
  <2> QED BY <1>1, <1>2, <2>1, Numbers DEF IInv, CountInv
<1>5. TrackedInv' /\ StatisticsAddUp'
  BY <1>1 DEF IInv, TrackedInv, Waiting, StatisticsAddUp
<1>6. JoinInv' /\ TubesClearedLast'
  BY <1>1 DEF IInv, JoinInv, TubesClearedLast, InStop
<1>7. QuietInv' /\ RepliesDroppedLate'
  BY <1>1 DEF IInv, QuietInv, RepliesDroppedLate
<1> QED BY <1>3, <1>4, <1>5, <1>6, <1>7 DEF IInv

\* The end of the process, and a signal.
LEMMA EndStep == ASSUME IInv, DestroyController \/ Signal PROVE IInv'
<1> USE DEF DestroyController, Signal, MainAt, flags, processing, reception, counters
<1>1. TypeOK'
  <2>1. CallersType'
    BY TypeParts, BoundsAssumption DEF IInv, CallersType, MainSteps, StopSteps
  <2> QED BY <2>1, TypeParts, TypePartsNext DEF IInv, FlagsType, WorkType, DdsType
<1>2. TrackedInv' /\ CountInv' /\ StatisticsAddUp'
  BY CommandsStay
<1>3. JoinInv' /\ TubesClearedLast'
  BY DEF IInv, JoinInv, TubesClearedLast, InStop
<1>4. QuietInv' /\ RepliesDroppedLate'
  BY BoundsAssumption DEF IInv, TypeOK, QuietInv, RepliesDroppedLate, Starting, Stopped
<1> QED BY <1>1, <1>2, <1>3, <1>4 DEF IInv
----------------------------------------------------------------------------
(* Stop, by the main thread or by the handler *)

\* Where Stop goes, and what it leaves alone.
LEMMA StopMoves ==
    ASSUME IInv, Stop
    PROVE  /\ ~crashed /\ UNCHANGED <<current, message, unsent, received, dropped, counters,
                                      held, signals>>
           /\ \/ UNCHANGED <<main, handler>>
              \/ handler = "none" /\ handler' = "none" /\ main \in StopSteps
                                  /\ main' \in StopSteps \cup {"destroy"}
              \/ main' = main /\ handler \in StopSteps
                              /\ handler' \in StopSteps \cup {"none"}
BY DEF Stop, StopCheck, StopRequest, JoinPeriodic, StopProcessor, JoinProcessor, ClearQueue,
       StopDds, JoinDds, ShutdownTubes, StopAt, StopGoto, JoinsTwice, reception, processing,
       StopSteps, IInv, TypeOK

LEMMA StopTyped == ASSUME IInv, Stop PROVE TypeOK'
<1>4. CallersType'
  BY TypeParts, StopMoves DEF IInv, CallersType, MainSteps, StopSteps
<1> USE DEF Stop, StopCheck, StopRequest, JoinPeriodic, StopProcessor, JoinProcessor,
            ClearQueue, StopDds, JoinDds, ShutdownTubes,
            flags, processing, reception, counters
<1>1. FlagsType'
  BY TypeParts DEF IInv, FlagsType
<1>2. WorkType'
  <2>1. /\ processor' = processor \/ (processor = "exited" /\ processor' = "none")
        /\ queue' \in {queue, {}} /\ assigned' \in {assigned, {}}
        /\ UNCHANGED <<current, statistics>>
    BY DEF IInv, TypeOK
  <2> QED BY <2>1, TypeParts DEF IInv, WorkType
<1>3. DdsType'
  BY TypeParts DEF IInv, DdsType, DdsSteps
<1> QED BY <1>1, <1>2, <1>3, <1>4, TypePartsNext

LEMMA StopJoins == ASSUME IInv, Stop PROVE JoinInv' /\ TubesClearedLast'
<1> USE DEF StopAt, StopGoto, JoinsTwice, IInv, JoinInv, TubesClearedLast, InStop
<1>1. CASE StopCheck \/ StopRequest \/ ClearQueue
  BY <1>1 DEF StopCheck, StopRequest, ClearQueue, processing, reception
<1>2. CASE JoinPeriodic \/ StopProcessor \/ JoinProcessor
  BY <1>2 DEF JoinPeriodic, StopProcessor, JoinProcessor, processing, reception
<1>3. CASE StopDds
  BY <1>3 DEF StopDds, processing
<1>4. CASE JoinDds
  BY <1>4 DEF JoinDds, processing
<1>5. CASE ShutdownTubes
  BY <1>5 DEF ShutdownTubes, processing, reception
<1> QED BY <1>1, <1>2, <1>3, <1>4, <1>5 DEF Stop

LEMMA StopQuiet == ASSUME IInv, Stop PROVE QuietInv' /\ RepliesDroppedLate'
<1> USE DEF StopAt, StopGoto, JoinsTwice, IInv, QuietInv, RepliesDroppedLate, Starting,
            Stopped
<1>1. CASE StopCheck \/ StopRequest \/ ClearQueue
  BY <1>1 DEF StopCheck, StopRequest, ClearQueue, flags, processing, reception
<1>2. CASE JoinPeriodic \/ StopProcessor \/ JoinProcessor
  BY <1>2 DEF JoinPeriodic, StopProcessor, JoinProcessor, flags, processing, reception
<1>3. CASE StopDds \/ JoinDds
  BY <1>3 DEF StopDds, JoinDds, flags, processing
<1>4. CASE ShutdownTubes
  BY <1>4 DEF ShutdownTubes, JoinInv, InStop, processing, reception
<1> QED BY <1>1, <1>2, <1>3, <1>4 DEF Stop

LEMMA ClearQueueCounts ==
    ASSUME IInv, ClearQueue PROVE TrackedInv' /\ CountInv' /\ StatisticsAddUp'
<1>1. /\ UNCHANGED <<current, dds, message, unsent, statistics, reset>> /\ queue' = {}
  BY DEF ClearQueue, reception, counters
<1>2. Waiting' \subseteq Waiting
  BY <1>1 DEF Waiting
<1>3. TrackedInv'
  BY <1>1, <1>2 DEF IInv, TrackedInv
<1>4. /\ Cardinality(Waiting) \in Nat /\ Cardinality(Waiting') \in Nat
      /\ Cardinality(Waiting') <= Cardinality(Waiting)
  BY <1>2, Finite, WaitingType, FS_Subset DEF IInv
<1>5. CountInv' /\ StatisticsAddUp'
  BY <1>1, <1>4, Numbers DEF IInv, CountInv, StatisticsAddUp, Waiting
<1> QED BY <1>3, <1>5

LEMMA StopStep == ASSUME IInv, Stop PROVE IInv'
<1>1. TrackedInv' /\ CountInv' /\ StatisticsAddUp'
  <2>1. CASE ClearQueue
    BY <2>1, ClearQueueCounts
  <2>2. CASE ~ClearQueue
    <3>1. queue' = queue /\ (dds' = dds \/ (dds = "exited" /\ dds' = "none"))
      BY <2>2 DEF Stop, StopCheck, StopRequest, JoinPeriodic, StopProcessor, JoinProcessor,
                  StopDds, JoinDds, ShutdownTubes, processing, reception
    <3> QED BY <3>1, StopMoves, CommandsStay
  <2> QED BY <2>1, <2>2
<1> QED BY <1>1, StopTyped, StopJoins, StopQuiet DEF IInv
----------------------------------------------------------------------------
(* The periodic thread *)

LEMMA PeriodicStep == ASSUME IInv, PeriodicThread PROVE IInv'
<1> USE DEF PeriodicThread, PeriodicTop, PeriodicWork, PeriodicStamp, PeriodicAt
<1>1. /\ UNCHANGED <<running, stopRequested, processor, stopping, queue, current, listening,
                     dds, message, unsent, received, assigned, statistics, reset, main, held,
                     handler, signals, crashed>>
      /\ periodic # "none" /\ periodic' \in {"top", "work", "stamp", "exited"}
      /\ dropped' = dropped \/ (~listening /\ dropped' = dropped \cup {"result"})
  BY DEF SendEngagementResults, Unsent, flags, processing, reception, counters, callers
<1> HIDE DEF PeriodicThread
<1>2. TypeOK'
  BY <1>1, TypeParts, TypePartsNext DEF IInv, FlagsType, WorkType, DdsType, CallersType
<1>3. TrackedInv' /\ CountInv' /\ StatisticsAddUp'
  BY <1>1, CommandsStay DEF counters
<1>4. JoinInv' /\ TubesClearedLast'
  BY <1>1 DEF IInv, JoinInv, TubesClearedLast, InStop
<1>5. QuietInv' /\ RepliesDroppedLate'
  BY <1>1 DEF IInv, QuietInv, RepliesDroppedLate, JoinInv, InStop, Starting, Stopped
<1> QED BY <1>2, <1>3, <1>4, <1>5 DEF IInv
----------------------------------------------------------------------------
(* The processing thread *)

\* What its steps leave alone, for the other threads.
LEMMA ProcessingStays ==
    ASSUME IInv, processor # "none", processor' # "none",
           assigned' \in SUBSET Tubes,
           UNCHANGED <<flags, periodic, stopping, reception, reset, callers, crashed>>
    PROVE  /\ FlagsType' /\ DdsType' /\ CallersType'
           /\ JoinInv' /\ TubesClearedLast' /\ QuietInv' /\ RepliesDroppedLate'
<1> USE DEF flags, reception, callers
<1>1. FlagsType' /\ DdsType' /\ CallersType'
  BY TypeParts DEF IInv, FlagsType, DdsType, CallersType
<1>2. JoinInv' /\ TubesClearedLast'
  BY DEF IInv, JoinInv, TubesClearedLast, InStop
<1>3. QuietInv' /\ RepliesDroppedLate'
  BY DEF IInv, QuietInv, RepliesDroppedLate, Starting, Stopped
<1> QED BY <1>1, <1>2, <1>3

LEMMA TakeStep == ASSUME IInv, ProcessorTake PROVE IInv'
<1> USE DEF ProcessorTake, ProcessorAt
<1>1. current = NoMessage /\ queue \in SUBSET Commands
  BY TypeParts DEF IInv, WorkType
<1>2. /\ Waiting' = Waiting
      /\ \/ processor' = "exited" /\ UNCHANGED <<queue, current>>
         \/ processor' = "execute" /\ current' \in queue /\ queue' = queue \ {current'}
  BY <1>1, MessageKinds DEF Waiting
<1>3. WorkType'
  BY <1>1, <1>2, MessageKinds, TypeParts DEF IInv, WorkType, counters
<1>4. TrackedInv' /\ CountInv' /\ StatisticsAddUp'
  <2>1. TrackedInv'
    BY <1>1, <1>2 DEF IInv, TrackedInv, reception
  <2>2. CountInv' /\ StatisticsAddUp'
    BY <1>2 DEF IInv, CountInv, StatisticsAddUp, Waiting, reception, counters
  <2> QED BY <2>1, <2>2
<1>5. FlagsType' /\ DdsType' /\ CallersType' /\ JoinInv' /\ TubesClearedLast'
      /\ QuietInv' /\ RepliesDroppedLate'
  BY <1>2, ProcessingStays DEF IInv, TypeOK, counters
<1> QED BY <1>3, <1>4, <1>5, TypePartsNext DEF IInv

LEMMA ExecuteStep == ASSUME IInv, ExecuteAssign \/ ExecuteControl PROVE IInv'
<1> USE DEF ExecuteAssign, ExecuteControl, ProcessorAt
<1>1. current \in Commands
  BY TypeParts DEF IInv, WorkType
<1>2. /\ processor' \in {"succeeded", "failed"} /\ UNCHANGED <<queue, current, statistics>>
      /\ assigned' \in SUBSET Tubes
  BY <1>1, MessageKinds DEF IInv, TypeOK, counters
<1>3. WorkType'
  BY <1>1, <1>2, MessageKinds, TypeParts DEF IInv, WorkType
<1>4. TrackedInv' /\ CountInv' /\ StatisticsAddUp'
  BY <1>2, CommandsStay DEF reception, counters
<1>5. FlagsType' /\ DdsType' /\ CallersType' /\ JoinInv' /\ TubesClearedLast'
      /\ QuietInv' /\ RepliesDroppedLate'
  BY <1>2, ProcessingStays DEF counters
<1> QED BY <1>3, <1>4, <1>5, TypePartsNext DEF IInv

LEMMA ReportStep == ASSUME IInv, OnCommandExecuted \/ OnCommandFailed PROVE IInv'
<1> USE DEF OnCommandExecuted, OnCommandFailed, ProcessorAt
<1>1. current \in Commands /\ current \in Waiting
  BY TypeParts, MessageKinds DEF IInv, WorkType, Waiting
<1>2. /\ processor' = "idle" /\ current' = NoMessage /\ queue' = queue
      /\ UNCHANGED <<dds, message, unsent, reset, assigned>>
  BY DEF reception
<1>3. Waiting' = Waiting \ {current} /\ Cardinality(Waiting') = Cardinality(Waiting) - 1
  <2>1. Waiting' = Waiting \ {current}
    BY <1>1, <1>2, TypeParts DEF IInv, TrackedInv, Waiting
  <2> QED BY <1>1, <2>1, FS_RemoveElement, Finite, WaitingType DEF IInv
<1>4. /\ statistics'.total = statistics.total
      /\ statistics'.successful + statistics'.failed
            = statistics.successful + statistics.failed + 1
      /\ statistics'.successful \in Nat /\ statistics'.failed \in Nat
      /\ DOMAIN statistics' = DOMAIN statistics
  BY Numbers DEF IInv, TypeOK, SystemStatistics
<1>5. TrackedInv' /\ CountInv' /\ StatisticsAddUp'
  <2>1. TrackedInv'
    BY <1>1, <1>2, <1>3, MessageKinds, WaitingType DEF IInv, TrackedInv, TypeOK
  <2>2. CountInv' /\ StatisticsAddUp'
    BY <1>2, <1>3, <1>4, Numbers DEF IInv, CountInv, StatisticsAddUp, Waiting
  <2> QED BY <2>1, <2>2
<1>6. WorkType'
  <2>1. statistics' \in SystemStatistics
    <3>1. Cardinality(Waiting') \in Nat
      BY <1>3, Finite, WaitingType DEF IInv
    <3>2. /\ statistics.successful + 1 <= Cardinality(Commands)
          /\ statistics.failed + 1 <= Cardinality(Commands)
      BY <1>1, <1>3, <3>1, Numbers DEF IInv, CountInv
    <3>3. statistics.successful + 1 \in Counters /\ statistics.failed + 1 \in Counters
      BY <3>2, Numbers DEF IInv, Counters
    <3> QED BY <3>3 DEF IInv, TypeOK, SystemStatistics
  <2> QED BY <1>2, <2>1, TypeParts DEF IInv, WorkType
<1>7. FlagsType' /\ DdsType' /\ CallersType' /\ JoinInv' /\ TubesClearedLast'
      /\ QuietInv' /\ RepliesDroppedLate'
  BY <1>2, ProcessingStays DEF IInv, TypeOK
<1> QED BY <1>5, <1>6, <1>7, TypePartsNext DEF IInv
----------------------------------------------------------------------------
(* The DDS thread *)

\* What its steps leave alone, for the other threads: Stop waits for it, and what Send
\* does not send is an answer.
LEMMA ReceptionStays ==
    ASSUME IInv, dds \notin {"none", "exited"}, dds' # "none",
           queue' \in SUBSET Commands, statistics' \in SystemStatistics,
           dropped' = dropped \/ (~listening /\ dropped' = dropped \cup {"answer"}),
           UNCHANGED <<flags, periodic, processor, stopping, current, listening, assigned,
                       reset, callers, crashed>>
    PROVE  /\ FlagsType' /\ WorkType' /\ CallersType'
           /\ JoinInv' /\ TubesClearedLast' /\ QuietInv' /\ RepliesDroppedLate'
<1> USE DEF flags, callers
<1>1. FlagsType' /\ WorkType' /\ CallersType'
  BY TypeParts DEF IInv, FlagsType, WorkType, CallersType
<1>2. JoinInv' /\ TubesClearedLast'
  BY DEF IInv, JoinInv, TubesClearedLast, InStop
<1>3. QuietInv' /\ RepliesDroppedLate'
  BY DEF IInv, QuietInv, JoinInv, RepliesDroppedLate, Starting, Stopped
<1> QED BY <1>1, <1>2, <1>3

LEMMA DispatchStep == ASSUME IInv, DispatchAgain \/ DispatchReturns PROVE IInv'
<1> USE DEF DispatchAgain, DispatchReturns, DdsAt
<1>1. /\ UNCHANGED <<message, unsent, received, dropped, queue, current, counters>>
      /\ dds \in {"top", "dispatch"} /\ dds' \in {"top", "dispatch", "exited"}
  BY DEF processing
<1>2. DdsType'
  BY <1>1, TypeParts DEF IInv, DdsType, DdsSteps
<1>3. TrackedInv' /\ CountInv' /\ StatisticsAddUp'
  BY <1>1, CommandsStay
<1>4. /\ FlagsType' /\ WorkType' /\ CallersType'
      /\ JoinInv' /\ TubesClearedLast' /\ QuietInv' /\ RepliesDroppedLate'
  BY <1>1, ReceptionStays DEF IInv, TypeOK, counters, processing
<1> QED BY <1>2, <1>3, <1>4, TypePartsNext DEF IInv

\* The message is taken out of unsent, if it is a command.
LEMMA ReceiveStep == ASSUME IInv, Receive PROVE IInv'
<1> USE DEF Receive, DdsAt
<1>1. /\ dds = "dispatch" /\ dds' = FirstStep(message'.kind)
      /\ UNCHANGED <<dropped, queue, current, counters>> /\ received' = received + 1
      /\ \/ message' \in unsent /\ unsent' = unsent \ {message'}
         \/ message' \in [kind : Notices] /\ unsent' = unsent
  BY DEF processing
<1>2. unsent \in SUBSET Commands /\ received \in Nat /\ received < MaxMessages
  BY BoundsAssumption DEF IInv, TypeOK
<1>3. /\ message' \in Commands => dds' = "enqueue"
      /\ message' \notin Commands => dds' \in {"store", "tubes", "convert", "reply", "keep"}
  <2>1. message' \in Commands => dds' = "enqueue"
    BY <1>1, MessageKinds DEF FirstStep
  <2>2. ASSUME message' \notin Commands
        PROVE  dds' \in {"store", "tubes", "convert", "reply", "keep"}
    <3>1. message'.kind \in {"ship", "target", "waypoints", "request", "inference",
                             "edited", "selected", "area", "result"}
      BY <1>1, <1>2, <2>2, MessageKinds DEF Kinds
    <3> QED BY <1>1, <3>1 DEF FirstStep
  <2> QED BY <2>1, <2>2
<1>4. DdsType'
  BY <1>1, <1>2, <1>3, BoundsAssumption, TypeParts DEF IInv, DdsType, DdsSteps
<1>5. TrackedInv'
  <2>1. queue \cap unsent = {} /\ current \notin queue \cup unsent
        /\ queue' = queue /\ current' = current
    BY <1>1 DEF IInv, TrackedInv
  <2>2. CASE message' \in unsent /\ unsent' = unsent \ {message'}
    BY <1>2, <1>3, <2>1, <2>2 DEF TrackedInv, Waiting
  <2>3. CASE message' \in [kind : Notices] /\ unsent' = unsent
    BY <1>2, <1>3, <2>1, <2>3, MessageKinds DEF TrackedInv, Waiting
  <2> QED BY <1>1, <2>2, <2>3
<1>6. CountInv' /\ StatisticsAddUp'
  <2>1. Waiting' = Waiting /\ statistics' = statistics /\ reset' = reset
    BY <1>1 DEF Waiting, counters
  <2>2. CASE message' \in unsent /\ unsent' = unsent \ {message'}
    <3>1. Cardinality(unsent') = Cardinality(unsent) - 1
      BY <1>2, <2>2, FS_RemoveElement, Finite
    <3> QED BY <1>1, <1>2, <1>3, <2>1, <2>2, <3>1, Numbers
               DEF IInv, CountInv, StatisticsAddUp
  <2>3. CASE message' \in [kind : Notices] /\ unsent' = unsent
    <3>1. dds' \notin {"enqueue", "count"}
      BY <1>3, <2>3, MessageKinds
    <3> QED BY <1>1, <2>1, <2>3, <3>1 DEF IInv, CountInv, StatisticsAddUp
  <2> QED BY <1>1, <2>2, <2>3
<1>7. /\ FlagsType' /\ WorkType' /\ CallersType'
      /\ JoinInv' /\ TubesClearedLast' /\ QuietInv' /\ RepliesDroppedLate'
  BY <1>1, <1>3, ReceptionStays DEF IInv, TypeOK, counters, processing
<1> QED BY <1>4, <1>5, <1>6, <1>7, TypePartsNext DEF IInv

LEMMA EnqueueStep == ASSUME IInv, EnqueueMessage PROVE IInv'
<1> USE DEF EnqueueMessage, DdsAt
<1>1. /\ message \in Commands /\ message \notin unsent /\ message \notin Waiting
  BY DEF IInv, TrackedInv
<1>2. /\ dds = "enqueue" /\ dds' = "count" /\ queue' \in {queue, queue \cup {message}}
      /\ UNCHANGED <<message, unsent, received, dropped, current, statistics, reset>>
  BY DEF counters
<1>3. DdsType'
  BY <1>2, TypeParts DEF IInv, DdsType, DdsSteps
<1>4. TrackedInv'
  <2>1. /\ queue' \cap unsent' = {} /\ current' \notin queue' \cup unsent'
    BY <1>1, <1>2, MessageKinds DEF IInv, TrackedInv, Waiting
  <2> QED BY <1>1, <1>2, <2>1 DEF TrackedInv
<1>5. Cardinality(Waiting') \in {Cardinality(Waiting), Cardinality(Waiting) + 1}
  <2>1. Waiting' = Waiting \/ Waiting' = Waiting \cup {message}
    BY <1>2 DEF Waiting
  <2> QED BY <1>1, <2>1, FS_AddElement, Finite, WaitingType DEF IInv
<1>6. CountInv' /\ StatisticsAddUp'
  BY <1>2, <1>5, Numbers DEF IInv, CountInv, StatisticsAddUp, Waiting
<1>7. /\ FlagsType' /\ WorkType' /\ CallersType'
      /\ JoinInv' /\ TubesClearedLast' /\ QuietInv' /\ RepliesDroppedLate'
  BY <1>1, <1>2, ReceptionStays DEF IInv, TypeOK
<1> QED BY <1>3, <1>4, <1>6, <1>7, TypePartsNext DEF IInv

LEMMA CountStep == ASSUME IInv, CountCommand PROVE IInv'
<1> USE DEF CountCommand, DdsAt
<1>1. /\ dds = "count" /\ dds' = "dispatch" /\ message' = NoMessage
      /\ UNCHANGED <<queue, unsent, received, dropped, current, reset>>
      /\ Waiting' = Waiting
  BY DEF processing, Waiting
<1>2. /\ statistics'.total = statistics.total + 1
      /\ statistics'.successful = statistics.successful
      /\ statistics'.failed = statistics.failed
      /\ statistics' \in SystemStatistics
  <2>1. statistics.total + 1 \in Counters
    BY <1>1, Numbers DEF IInv, CountInv, Counters
  <2> QED BY <2>1 DEF IInv, TypeOK, SystemStatistics
<1>3. DdsType'
  BY <1>1, TypeParts DEF IInv, DdsType, DdsSteps
<1>4. TrackedInv'
  BY <1>1, MessageKinds DEF IInv, TrackedInv
<1>5. CountInv' /\ StatisticsAddUp'
  BY <1>1, <1>2, Numbers DEF IInv, CountInv, StatisticsAddUp, Waiting
<1>6. /\ FlagsType' /\ WorkType' /\ CallersType'
      /\ JoinInv' /\ TubesClearedLast' /\ QuietInv' /\ RepliesDroppedLate'
  BY <1>1, <1>2, ReceptionStays DEF IInv, TypeOK, processing
<1> QED BY <1>3, <1>4, <1>5, <1>6, TypePartsNext DEF IInv

\* The other messages.
LEMMA NoticeStep ==
    ASSUME IInv, \/ UpdateEnvironment \/ UpdateTubes \/ ProcessMineDropPlanRequest
                 \/ SendAnswer \/ KeepMessage
    PROVE  IInv'
<1> USE DEF UpdateEnvironment, UpdateTubes, ProcessMineDropPlanRequest, SendAnswer,
            KeepMessage, DdsAt
<1>1. /\ dds \in {"store", "tubes", "convert", "reply", "keep"}
      /\ dds' \in {"tubes", "reply", "dispatch"}
      /\ UNCHANGED <<queue, unsent, received, current, statistics, reset>>
      /\ message' \in {message, NoMessage}
      /\ dropped' = dropped \/ (~listening /\ dropped' = dropped \cup {"answer"})
  BY DEF processing, counters, Unsent
<1>2. Waiting' = Waiting /\ message \notin Commands
  BY <1>1 DEF Waiting, IInv, TrackedInv
<1>3. DdsType'
  BY <1>1, TypeParts DEF IInv, DdsType, DdsSteps
<1>4. TrackedInv' /\ CountInv' /\ StatisticsAddUp'
  <2>1. TrackedInv'
    BY <1>1, <1>2, MessageKinds DEF IInv, TrackedInv
  <2>2. dds \notin {"enqueue", "count"} /\ dds' \notin {"enqueue", "count"}
    BY <1>1
  <2>3. CountInv' /\ StatisticsAddUp'
    BY <1>1, <1>2, <2>2 DEF IInv, CountInv, StatisticsAddUp
  <2> QED BY <2>1, <2>3
<1>5. /\ FlagsType' /\ WorkType' /\ CallersType'
      /\ JoinInv' /\ TubesClearedLast' /\ QuietInv' /\ RepliesDroppedLate'
  BY <1>1, ReceptionStays DEF IInv, TypeOK, processing
<1> QED BY <1>3, <1>4, <1>5, TypePartsNext DEF IInv
----------------------------------------------------------------------------
LEMMA NextInv == IInv /\ [Next]_vars => IInv'
<1> SUFFICES ASSUME IInv, [Next]_vars PROVE IInv'
  OBVIOUS
<1>1. CASE Start
  BY <1>1, StartStep
<1>2. CASE Console
  BY <1>2, ConsoleStep, ResetStep
<1>3. CASE Stop
  BY <1>3, StopStep
<1>4. CASE DestroyController \/ Signal
  BY <1>4, EndStep
<1>5. CASE PeriodicThread
  BY <1>5, PeriodicStep
<1>6. CASE ProcessingThread
  BY <1>6, TakeStep, ExecuteStep, ReportStep DEF ProcessingThread
<1>7. CASE DdsThread
  BY <1>7, DispatchStep, EnqueueStep, CountStep, NoticeStep DEF DdsThread, Handlers
<1>8. CASE Receive
  BY <1>8, ReceiveStep
<1>9. CASE UNCHANGED vars
  <2>1. UNCHANGED <<flags, periodic, processing, reception, assigned, counters, callers,
                    crashed>>
    BY <1>9 DEF vars
  <2>2. TypeOK'
    BY <2>1, TypeParts, TypePartsNext
       DEF IInv, FlagsType, WorkType, DdsType, CallersType, flags, processing, reception,
           counters, callers
  <2>3. TrackedInv' /\ CountInv' /\ StatisticsAddUp'
    BY <2>1, CommandsStay DEF processing, reception
  <2>4. JoinInv' /\ TubesClearedLast' /\ QuietInv' /\ RepliesDroppedLate'
    BY <2>1 DEF IInv, JoinInv, TubesClearedLast, QuietInv, RepliesDroppedLate, InStop,
                flags, processing, reception, callers
  <2> QED BY <2>2, <2>3, <2>4 DEF IInv
<1> QED BY <1>1, <1>2, <1>3, <1>4, <1>5, <1>6, <1>7, <1>8, <1>9 DEF Next

LEMMA Invariance == Spec => []IInv
BY InitInv, NextInv, PTL DEF Spec

\* Every variable keeps its type; in particular no counter of m_statistics exceeds the
\* number of commands, and the main thread holds the mutex of a weapon exactly while it
\* controls it.
THEOREM TypeCorrect == Spec => []TypeOK
<1>1. IInv => TypeOK
  BY DEF IInv
<1> QED BY <1>1, Invariance, PTL

\* LaunchTubeManager::Shutdown finds no thread at work on the tubes, however many
\* signals have interrupted the start, the console or Stop itself, but for the one case
\* the property excepts.
THEOREM TubesAreClearedLast == Spec => []TubesClearedLast
<1>1. IInv => TubesClearedLast
  BY DEF IInv
<1> QED BY <1>1, Invariance, PTL

\* Without a signal Stop leaves no thread, no command half executed and no tube
\* assigned, whatever has arrived and whenever.
THEOREM ShutdownIsClean == Spec => []CleanStop
<1>1. IInv => CleanStop
  BY DEF IInv, TypeOK, QuietInv, CleanStop, Starting, Stopped
<1> QED BY <1>1, Invariance, PTL

\* The counters under m_statisticsMutex never report more outcomes than commands,
\* although arrival and outcome are counted by different threads, until somebody
\* resets them.
THEOREM StatisticsStayTrue == Spec => []StatisticsAddUp
<1>1. IInv => StatisticsAddUp
  BY DEF IInv
<1> QED BY <1>1, Invariance, PTL

\* Without a signal Send loses no engagement result, and an answer only once Stop waits
\* for the DDS thread.
THEOREM RepliesAreDroppedLate == Spec => []RepliesDroppedLate
<1>1. IInv => RepliesDroppedLate
  BY DEF IInv
<1> QED BY <1>1, Invariance, PTL
=============================================================================
