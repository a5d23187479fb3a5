-------------------------- MODULE CommandProcessor --------------------------
(***************************************************************************)
(* Commands/CommandProcessor.cpp: the two command queues under             *)
(* m_queueMutex with their condition variable, the thread of               *)
(* ProcessingLoop, the threads that submit commands (DDS, console), the    *)
(* thread that starts, stops, pauses and resumes it, and the undo and redo *)
(* stacks under m_undoRedoMutex.                                           *)
(* A step is one critical section or one access to an atomic.  m_queueMutex*)
(* is held between two steps only by the processing thread, in "sleep"     *)
(* (predicate found false, not yet blocked) and "take" (found true).       *)
(***************************************************************************)
EXTENDS Naturals, Sequences, SequencesExt

CONSTANTS
    Commands,      \* command objects; each is submitted at most once
    NoCommand,
    Submitters,    \* threads that submit commands
    MaxHistory,    \* m_maxHistorySize: 1000 in the code
    MaxUndo        \* m_maxUndoStackSize: 100 in the code

ASSUME NoCommandAssumption == NoCommand \notin Commands
ASSUME LimitsAssumption == MaxHistory \in Nat /\ MaxUndo \in Nat

VARIABLES
    running,       \* m_running
    paused,        \* m_paused
    stopRequested, \* m_stopRequested
    queue,         \* m_commandQueue
    prio,          \* m_priorityQueue
    undoStack,     \* m_undoStack
    redoStack,     \* m_redoStack
    historySize,   \* m_history.size()
    loop,          \* the processing thread: where it is
    current,       \* the processing thread: command, the local of the loop
    spc,           \* per submitter: where it is
    held,          \* per submitter: the command it submits
    control,       \* the controlling thread: where it is in Stop or Resume
    unused,        \* commands nobody has created yet
    applied        \* commands whose effect is in force: Execute, and no Undo since

queues == <<queue, prio>>
stacks == <<undoStack, redoStack>>
switches == <<running, paused, stopRequested>>
processor == <<loop, current>>
submitter == <<spc, held, unused>>
vars == <<switches, queues, stacks, historySize, processor, submitter, control,
          applied>>

\* none: no thread (not started, or joined); top: the while condition; lock:
\* before m_queueMutex, also on waking up; asleep: blocked in wait; execute,
\* record, push: in ExecuteCommand; exited: not yet joined.
LoopSteps == {"none", "top", "lock", "sleep", "asleep", "take", "execute",
              "record", "push", "exited"}
\* queue, prio: before m_queueMutex; notify: before notify_one; now, record: in
\* ExecuteImmediate.
SubmitterSteps == {"idle", "queue", "prio", "notify", "now", "record"}
ControlSteps == {"idle", "notify", "join", "clear", "resume"}

TypeOK ==
    /\ running \in BOOLEAN /\ paused \in BOOLEAN /\ stopRequested \in BOOLEAN
    /\ queue \in Seq(Commands) /\ prio \in Seq(Commands)
    /\ undoStack \in Seq(Commands) /\ Len(undoStack) <= MaxUndo
    /\ redoStack \in Seq(Commands)
    /\ historySize \in 0..MaxHistory
    /\ loop \in LoopSteps
    /\ current \in Commands \cup {NoCommand}
    /\ spc \in [Submitters -> SubmitterSteps]
    /\ held \in [Submitters -> Commands \cup {NoCommand}]
    /\ control \in ControlSteps
    /\ unused \in SUBSET Commands
    /\ applied \in SUBSET Commands

Init ==
    /\ running = FALSE /\ paused = FALSE /\ stopRequested = FALSE
    /\ queue = <<>> /\ prio = <<>> /\ undoStack = <<>> /\ redoStack = <<>>
    /\ historySize = 0
    /\ loop = "none" /\ current = NoCommand
    /\ spc = [s \in Submitters |-> "idle"]
    /\ held = [s \in Submitters |-> NoCommand]
    /\ control = "idle"
    /\ unused = Commands
    /\ applied = {}

QueueMutexFree == loop \notin {"sleep", "take"}

\* notify_one and notify_all: at most one thread ever waits.
Notify ==
    /\ loop' = IF loop = "asleep" THEN "lock" ELSE loop
    /\ UNCHANGED current
----------------------------------------------------------------------------
(* Submitting threads *)

At(s, label) == spc' = [spc EXCEPT ![s] = label]

\* A command is created and offered to EnqueueCommand, EnqueueCommandWithPriority
\* or ExecuteImmediate; IsValid is asked at once, without a lock.
Offer(s, c, entry) ==
    /\ spc[s] = "idle" /\ c \in unused
    /\ unused' = unused \ {c}
    /\ \E valid \in BOOLEAN :
          IF valid THEN /\ At(s, entry)
                        /\ held' = [held EXCEPT ![s] = c]
                   ELSE UNCHANGED <<spc, held>>
    /\ UNCHANGED <<switches, queues, stacks, historySize, processor, control,
                   applied>>

EnqueueCommand(s, c) == Offer(s, c, "queue")
EnqueueCommandWithPriority(s, c) == Offer(s, c, "prio")
ExecuteImmediate(s, c) == Offer(s, c, "now")

\* Faulty variant of Push: no notify_one.
PushSilently(s) ==
    /\ spc[s] = "queue" /\ QueueMutexFree
    /\ queue' = Append(queue, held[s])
    /\ At(s, "idle")
    /\ UNCHANGED <<switches, prio, stacks, historySize, processor, held, unused,
                   control, applied>>

Push(s) ==
    /\ spc[s] = "queue" /\ QueueMutexFree
    /\ queue' = Append(queue, held[s])
    /\ At(s, "notify")
    /\ UNCHANGED <<switches, prio, stacks, historySize, processor, held, unused,
                   control, applied>>

\* Faulty variant of PushPriority: it does not take m_queueMutex.
PushPriorityUnlocked(s) ==
    /\ spc[s] = "prio"
    /\ prio' = Append(prio, held[s])
    /\ At(s, "notify")
    /\ UNCHANGED <<switches, queue, stacks, historySize, processor, held, unused,
                   control, applied>>

PushPriority(s) ==
    /\ spc[s] = "prio" /\ QueueMutexFree
    /\ prio' = Append(prio, held[s])
    /\ At(s, "notify")
    /\ UNCHANGED <<switches, queue, stacks, historySize, processor, held, unused,
                   control, applied>>

NotifyOne(s) ==
    /\ spc[s] = "notify"
    /\ Notify
    /\ At(s, "idle")
    /\ UNCHANGED <<switches, queues, stacks, historySize, held, unused, control,
                   applied>>

\* Execute of a command, by whichever thread: it takes effect or it fails.
Execution(c) == \E success \in BOOLEAN :
    applied' = IF success THEN applied \cup {c} ELSE applied

\* ExecuteImmediate runs the command in the caller's thread ...
ExecuteNow(s) ==
    /\ spc[s] = "now"
    /\ Execution(held[s])
    /\ At(s, "record")
    /\ UNCHANGED <<switches, queues, stacks, historySize, processor, held, unused,
                   control>>

\* Faulty variant of AddToHistory: the limit is tested before the insertion.
AddToHistoryLate ==
    historySize' = IF historySize > MaxHistory THEN historySize ELSE historySize + 1

\* emplace_back, and the oldest entry is dropped above m_maxHistorySize.
AddToHistory ==
    historySize' = IF historySize < MaxHistory THEN historySize + 1 ELSE historySize

\* ... and records it, but does not put it on the undo stack.
RecordNow(s) ==
    /\ spc[s] = "record"
    /\ AddToHistory
    /\ At(s, "idle")
    /\ UNCHANGED <<switches, queues, stacks, processor, held, unused, control,
                   applied>>
----------------------------------------------------------------------------
(* The processing thread: ProcessingLoop and ExecuteCommand *)

\* The while condition.
LoopTop ==
    /\ loop = "top"
    /\ loop' = IF stopRequested THEN "exited" ELSE "lock"
    /\ UNCHANGED <<switches, queues, stacks, historySize, current, submitter,
                   control, applied>>

\* The predicate of the wait.
WakeUp == stopRequested \/ prio # <<>> \/ (~paused /\ queue # <<>>)

\* m_queueMutex is taken and the predicate evaluated.
TestPredicate ==
    /\ loop = "lock"
    /\ loop' = IF WakeUp THEN "take" ELSE "sleep"
    /\ UNCHANGED <<switches, queues, stacks, historySize, current, submitter,
                   control, applied>>

\* wait blocks and releases the mutex.
Sleep ==
    /\ loop = "sleep"
    /\ loop' = "asleep"
    /\ UNCHANGED <<switches, queues, stacks, historySize, current, submitter,
                   control, applied>>

SpuriousWakeup ==
    /\ loop = "asleep"
    /\ loop' = "lock"
    /\ UNCHANGED <<switches, queues, stacks, historySize, current, submitter,
                   control, applied>>

\* After the wait: the stop request first, then the priority queue, then the
\* ordinary one unless Pause has come between.
Take ==
    /\ loop = "take"
    /\ IF stopRequested
       THEN loop' = "exited" /\ UNCHANGED <<current, queues>>
       ELSE IF prio # <<>>
       THEN /\ loop' = "execute" /\ current' = Head(prio)
            /\ prio' = Tail(prio) /\ UNCHANGED queue
       ELSE IF ~paused /\ queue # <<>>
       THEN /\ loop' = "execute" /\ current' = Head(queue)
            /\ queue' = Tail(queue) /\ UNCHANGED prio
       ELSE loop' = "top" /\ UNCHANGED <<current, queues>>
    /\ UNCHANGED <<switches, stacks, historySize, submitter, control, applied>>

ExecuteCurrent ==
    /\ loop = "execute"
    /\ Execution(current)
    /\ loop' = "record"
    /\ UNCHANGED <<switches, queues, stacks, historySize, current, submitter,
                   control>>

\* Faulty variant of RecordCurrent: failed commands become undoable too.
RecordCurrentAlways ==
    /\ loop = "record"
    /\ AddToHistory
    /\ loop' = "push"
    /\ UNCHANGED <<switches, queues, stacks, current, submitter, control, applied>>

\* AddToHistory; only a command that succeeded goes on to the undo stack.
RecordCurrent ==
    /\ loop = "record"
    /\ AddToHistory
    /\ loop' = IF current \in applied THEN "push" ELSE "top"
    /\ UNCHANGED <<switches, queues, stacks, current, submitter, control, applied>>

\* The oldest entry is dropped above m_maxUndoStackSize.
Trimmed(stack) == IF Len(stack) > MaxUndo THEN Tail(stack) ELSE stack

\* Faulty variant of PushUndo: a new command leaves the redo stack alone.
PushUndoKeepsRedo ==
    /\ loop = "push"
    /\ undoStack' = Trimmed(Append(undoStack, current))
    /\ loop' = "top"
    /\ UNCHANGED <<switches, queues, redoStack, historySize, current, submitter,
                   control, applied>>

\* Under m_undoRedoMutex.
PushUndo ==
    /\ loop = "push"
    /\ undoStack' = Trimmed(Append(undoStack, current))
    /\ redoStack' = <<>>
    /\ loop' = "top"
    /\ UNCHANGED <<switches, queues, historySize, current, submitter, control,
                   applied>>
----------------------------------------------------------------------------
(* Undo and redo, from any thread, under m_undoRedoMutex throughout *)

\* Faulty variant of UndoLastCommand: the command also stays on the undo stack.
UndoWithoutPop ==
    /\ undoStack # <<>>
    /\ \E success \in BOOLEAN :
          IF success THEN /\ redoStack' = Trimmed(Append(redoStack, Last(undoStack)))
                          /\ applied' = applied \ {Last(undoStack)}
                     ELSE UNCHANGED <<redoStack, applied>>
    /\ UNCHANGED <<switches, queues, undoStack, historySize, processor, submitter,
                   control>>

\* A command whose Undo fails goes back on top of the undo stack.
UndoLastCommand ==
    /\ undoStack # <<>>
    /\ \E success \in BOOLEAN :
          IF success THEN /\ undoStack' = Front(undoStack)
                          /\ redoStack' = Trimmed(Append(redoStack, Last(undoStack)))
                          /\ applied' = applied \ {Last(undoStack)}
                     ELSE UNCHANGED <<stacks, applied>>
    /\ UNCHANGED <<switches, queues, historySize, processor, submitter, control>>

RedoCommand ==
    /\ redoStack # <<>>
    /\ \E success \in BOOLEAN :
          IF success THEN /\ redoStack' = Front(redoStack)
                          /\ undoStack' = Trimmed(Append(undoStack, Last(redoStack)))
                          /\ applied' = applied \cup {Last(redoStack)}
                     ELSE UNCHANGED <<stacks, applied>>
    /\ UNCHANGED <<switches, queues, historySize, processor, submitter, control>>
----------------------------------------------------------------------------
(* The controlling thread: one call at a time *)

\* Start: three stores and a new thread.
Start ==
    /\ control = "idle" /\ ~running
    /\ running' = TRUE /\ stopRequested' = FALSE /\ paused' = FALSE
    /\ loop' = "top" /\ current' = NoCommand
    /\ UNCHANGED <<queues, stacks, historySize, submitter, control, applied>>

\* Stop: m_stopRequested is stored WITHOUT m_queueMutex.
Stop ==
    /\ control = "idle" /\ running
    /\ stopRequested' = TRUE
    /\ control' = "notify"
    /\ UNCHANGED <<running, paused, queues, stacks, historySize, processor,
                   submitter, applied>>

StopNotify ==
    /\ control = "notify"
    /\ Notify
    /\ control' = "join"
    /\ UNCHANGED <<switches, queues, stacks, historySize, submitter, applied>>

\* The thread is joined and m_running cleared.
StopJoin ==
    /\ control = "join" /\ loop = "exited"
    /\ loop' = "none"
    /\ running' = FALSE
    /\ control' = "clear"
    /\ UNCHANGED <<paused, stopRequested, queues, stacks, historySize, current,
                   submitter, applied>>

\* The commands left over are dropped.
StopClear ==
    /\ control = "clear" /\ QueueMutexFree
    /\ queue' = <<>> /\ prio' = <<>>
    /\ control' = "idle"
    /\ UNCHANGED <<switches, stacks, historySize, processor, submitter, applied>>

Pause ==
    /\ control = "idle"
    /\ paused' = TRUE
    /\ UNCHANGED <<running, stopRequested, queues, stacks, historySize, processor,
                   submitter, control, applied>>

\* m_paused, too, is stored without m_queueMutex.
Resume ==
    /\ control = "idle"
    /\ paused' = FALSE
    /\ control' = "resume"
    /\ UNCHANGED <<running, stopRequested, queues, stacks, historySize, processor,
                   submitter, applied>>

ResumeNotify ==
    /\ control = "resume"
    /\ Notify
    /\ control' = "idle"
    /\ UNCHANGED <<switches, queues, stacks, historySize, submitter, applied>>

\* ClearHistory, from any thread.
ClearHistory ==
    /\ historySize' = 0
    /\ UNCHANGED <<switches, queues, stacks, processor, submitter, control, applied>>
----------------------------------------------------------------------------
\* What a submitting thread does once it is inside the processor.
Submission(s) ==
    Push(s) \/ PushPriority(s) \/ NotifyOne(s) \/ ExecuteNow(s) \/ RecordNow(s)

ProcessingLoop ==
    \/ LoopTop \/ TestPredicate \/ Sleep \/ Take
    \/ ExecuteCurrent \/ RecordCurrent \/ PushUndo

Control == StopNotify \/ StopJoin \/ StopClear \/ ResumeNotify

Next ==
    \/ \E s \in Submitters :
          \/ \E c \in Commands : \/ EnqueueCommand(s, c)
                                 \/ EnqueueCommandWithPriority(s, c)
                                 \/ ExecuteImmediate(s, c)
          \/ Submission(s)
    \/ ProcessingLoop \/ SpuriousWakeup
    \/ UndoLastCommand \/ RedoCommand \/ ClearHistory
    \/ Start \/ Stop \/ Pause \/ Resume \/ Control

\* Threads inside the processor run on, and commands come to an end.  Nobody is
\* obliged to submit, start, stop or resume, and no spurious wakeup is owed.
Fairness ==
    /\ \A s \in Submitters : WF_vars(Submission(s))
    /\ WF_vars(ProcessingLoop)
    /\ WF_vars(Control)

Spec == Init /\ [][Next]_vars
FairSpec == Spec /\ Fairness
----------------------------------------------------------------------------
\* No priority command (emergency stop) waits while the processing thread
\* sleeps, unless a submitter is about to wake the thread: the push under
\* m_queueMutex cannot fall between the test of the predicate and the wait.
UrgentWakesUp ==
    loop = "asleep" /\ prio # <<>> => \E s \in Submitters : spc[s] = "notify"

\* Whatever Undo would revert is in force and whatever Redo would repeat is not,
\* each once, although the processing thread executes a command and pushes it
\* in separate steps that Undo and Redo can come between.
UndoableIsApplied ==
    /\ Range(undoStack) \subseteq applied /\ IsInjective(undoStack)
    /\ Range(redoStack) \cap applied = {} /\ IsInjective(redoStack)

\* Both stacks together never exceed m_maxUndoStackSize: a new command clears
\* the redo stack.  So the trimming in UndoLastCommand and RedoCommand never
\* drops anything.
StacksBounded == Len(undoStack) + Len(redoStack) <= MaxUndo

\* A command in a queue is taken, or dropped by Stop, provided the processor is
\* started and nobody pauses it.
EnqueuedIsTaken ==
    []~paused =>
        \A c \in Commands :
            running /\ c \in Range(queue) \cup Range(prio)
              ~> c \notin Range(queue) \cup Range(prio)

\* Where a command stands, as CommandLog sees it.
Status(c) ==
    IF c \in unused THEN "new"
    ELSE IF \/ c \in Range(queue) \cup Range(prio)
            \/ \E s \in Submitters : held[s] = c /\ spc[s] \in {"queue", "prio"}
    THEN "pending"
    ELSE IF \/ loop = "execute" /\ current = c
            \/ \E s \in Submitters : held[s] = c /\ spc[s] = "now"
    THEN "running"
    ELSE IF c \in applied THEN "applied"
    ELSE IF c \in Range(redoStack) THEN "undone" ELSE "dead"

Log == INSTANCE CommandLog WITH status <- [c \in Commands |-> Status(c)]

\* The processor does what CommandLog promises: no command runs twice from the
\* queue, is undone without having taken effect or redone without having been
\* undone, and every command that starts comes to an end.
ImplementsCommandLog == Log!FairSpec

\* main.cpp stops the system and reports the shutdown complete: Stop ends the
\* processing thread and returns.
StopCompletes == stopRequested /\ running ~> ~running
=============================================================================
