----------------------- MODULE CommandProcessor_proofs -----------------------
(***************************************************************************)
(* Proofs about module CommandProcessor, for any commands, any number of   *)
(* submitting threads and any limits of the history and of the stacks.     *)
(***************************************************************************)
EXTENDS CommandProcessor, SequenceLemmas

\* An element is put on a stack that is trimmed.
LEMMA Pushed ==
    ASSUME NEW S, NEW seq \in Seq(S), Len(seq) <= MaxUndo, NEW e \in S
    PROVE  /\ Trimmed(Append(seq, e)) \in Seq(S)
           /\ Len(Trimmed(Append(seq, e))) <= MaxUndo
           /\ Len(Trimmed(Append(seq, e))) <= Len(seq) + 1
           /\ Range(Trimmed(Append(seq, e))) \subseteq Range(seq) \cup {e}
           /\ Len(seq) < MaxUndo => Trimmed(Append(seq, e)) = Append(seq, e)
           /\ IsInjective(seq) /\ e \notin Range(seq) =>
                 IsInjective(Trimmed(Append(seq, e)))
<1> DEFINE new == Append(seq, e)
<1>1. /\ new \in Seq(S) /\ new # <<>> /\ Len(new) = Len(seq) + 1 /\ Len(seq) \in Nat
      /\ Range(new) = Range(seq) \cup {e}
      /\ IsInjective(seq) /\ e \notin Range(seq) => IsInjective(new)
  BY Appended, AppendProperties, LenProperties
<1>2. /\ Tail(new) \in Seq(S) /\ Len(Tail(new)) = Len(seq)
      /\ Range(Tail(new)) \subseteq Range(new)
      /\ IsInjective(new) => IsInjective(Tail(new))
  <2> HIDE DEF new
  <2> QED BY <1>1, Tailed
<1> HIDE DEF new
<1> QED BY <1>1, <1>2, LimitsAssumption DEF Trimmed, new
----------------------------------------------------------------------------
(* The inductive invariant *)

\* A submitter carries a command that nobody has begun.
Carries(s, c) == held[s] = c /\ spc[s] \in {"queue", "prio", "now"}

Queued(c) == c \in Range(queue) \cup Range(prio)

\* The processing thread has taken the command.
Active(c) == current = c /\ loop \in {"execute", "record", "push"}

Stacked(c) == c \in Range(undoStack) \cup Range(redoStack)

\* A command is in one place at a time, and it has taken no effect before the
\* thread that has taken it executes it.
PlacesInv ==
    \A c \in Commands :
        /\ Active(c) => ~Stacked(c) /\ (loop = "push" => c \in applied)
        /\ c \in applied => ~(Active(c) /\ loop = "execute")
        /\ Queued(c) => ~Active(c) /\ ~Stacked(c) /\ c \notin applied
        /\ c \in Range(queue) => c \notin Range(prio)
        /\ \A s \in Submitters : Carries(s, c) =>
              /\ ~Queued(c) /\ ~Active(c) /\ ~Stacked(c) /\ c \notin applied
              /\ \A t \in Submitters : Carries(t, c) => t = s
        /\ c \in unused =>
              /\ ~Queued(c) /\ ~Active(c) /\ ~Stacked(c) /\ c \notin applied
              /\ \A s \in Submitters : ~Carries(s, c)

OnceQueued == IsInjective(queue) /\ IsInjective(prio)

\* Where a command is carried there is one.
CarriedInv ==
    /\ loop \in {"execute", "record", "push"} => current \in Commands
    /\ \A s \in Submitters :
          spc[s] \in {"queue", "prio", "now"} => held[s] \in Commands

\* A thread that is about to block found no priority command, and holds
\* m_queueMutex, so that none has come since.
SleepInv == loop = "sleep" => prio = <<>>

IInv ==
    /\ TypeOK /\ CarriedInv /\ PlacesInv /\ OnceQueued
    /\ UndoableIsApplied /\ StacksBounded
    /\ SleepInv /\ UrgentWakesUp

LEMMA InitInv == Init => IInv
<1> SUFFICES ASSUME Init PROVE IInv
  OBVIOUS
<1>1. <<>> \in Seq(Commands) /\ Len(<<>>) = 0 /\ Range(<<>>) = {} /\ IsInjective(<<>>)
  BY EmptySeq DEF Range, IsInjective
<1>2. TypeOK
  <2>1. /\ undoStack \in Seq(Commands) /\ Len(undoStack) <= MaxUndo
        /\ queue \in Seq(Commands) /\ prio \in Seq(Commands) /\ redoStack \in Seq(Commands)
        /\ historySize \in 0..MaxHistory
    BY <1>1, LimitsAssumption DEF Init
  <2>2. /\ loop \in LoopSteps /\ control \in ControlSteps
        /\ spc \in [Submitters -> SubmitterSteps]
        /\ held \in [Submitters -> Commands \cup {NoCommand}]
    BY DEF Init, LoopSteps, ControlSteps, SubmitterSteps
  <2> QED BY <2>1, <2>2 DEF Init, TypeOK
<1>3. CarriedInv /\ OnceQueued /\ SleepInv /\ UrgentWakesUp
  BY <1>1 DEF Init, CarriedInv, OnceQueued, SleepInv, UrgentWakesUp
<1>4. PlacesInv
  BY <1>1 DEF Init, PlacesInv, Carries, Queued, Active, Stacked
<1>5. UndoableIsApplied /\ StacksBounded
  BY <1>1, LimitsAssumption DEF Init, UndoableIsApplied, StacksBounded
<1> QED BY <1>2, <1>3, <1>4, <1>5 DEF IInv

\* A step that leaves every command where it is.
LEMMA PlacesUnchanged ==
    ASSUME IInv, UNCHANGED <<queues, stacks, held, unused, applied, current>>,
           \A s \in Submitters :
              \/ spc'[s] = spc[s]
              \/ {spc[s], spc'[s]} \cap {"queue", "prio", "now"} = {},
           \/ loop' = loop
           \/ {loop, loop'} \cap {"execute", "record", "push"} = {}
    PROVE  CarriedInv' /\ PlacesInv' /\ OnceQueued' /\ UndoableIsApplied' /\ StacksBounded'
<1>1. /\ \A c \in Commands : (Active(c)' <=> Active(c)) /\ (Queued(c)' <=> Queued(c))
                             /\ (Stacked(c)' <=> Stacked(c))
      /\ \A c \in Commands, s \in Submitters : Carries(s, c)' <=> Carries(s, c)
  BY DEF queues, stacks, Carries, Queued, Active, Stacked
<1>2. PlacesInv'
  BY <1>1 DEF IInv, PlacesInv, Active, queues
<1>3. CarriedInv'
  BY DEF IInv, CarriedInv
<1>4. OnceQueued' /\ UndoableIsApplied' /\ StacksBounded'
  BY DEF IInv, OnceQueued, UndoableIsApplied, StacksBounded, queues, stacks
<1> QED BY <1>2, <1>3, <1>4

----------------------------------------------------------------------------
(* Submitters *)

LEMMA OfferStep ==
    ASSUME IInv, NEW s \in Submitters, NEW c \in Commands,
           NEW entry \in {"queue", "prio", "now"}, Offer(s, c, entry)
    PROVE  IInv'
<1> USE DEF Offer, At
<1>1. /\ spc[s] = "idle" /\ c \in unused /\ unused' = unused \ {c}
      /\ UNCHANGED <<switches, queues, stacks, historySize, processor, control, applied>>
  OBVIOUS
<1>2. \/ UNCHANGED <<spc, held>>
      \/ spc' = [spc EXCEPT ![s] = entry] /\ held' = [held EXCEPT ![s] = c]
  OBVIOUS
<1>3. TypeOK'
  BY <1>1, <1>2 DEF IInv, TypeOK, switches, queues, stacks, processor, SubmitterSteps
<1>4. \A d \in Commands, t \in Submitters :
         Carries(t, d)' => Carries(t, d) \/ (t = s /\ d = c)
  BY <1>1, <1>2 DEF IInv, TypeOK, Carries
<1>5. CarriedInv'
  BY <1>1, <1>2 DEF IInv, TypeOK, CarriedInv, processor
<1>6. PlacesInv'
  BY <1>1, <1>4 DEF IInv, PlacesInv, Queued, Active, Stacked, queues, stacks, processor
<1>7. OnceQueued' /\ UndoableIsApplied' /\ StacksBounded' /\ SleepInv'
  BY <1>1 DEF IInv, OnceQueued, UndoableIsApplied, StacksBounded, SleepInv, queues,
     stacks, processor
<1>8. UrgentWakesUp'
  BY <1>1, <1>2 DEF IInv, TypeOK, UrgentWakesUp, queues, processor
<1> QED BY <1>3, <1>5, <1>6, <1>7, <1>8 DEF IInv

\* A command that is carried is queued; with m_queueMutex held by the thread
\* that is about to block, this has to wait.
LEMMA PushStep ==
    ASSUME IInv, NEW s \in Submitters, Push(s) \/ PushPriority(s)
    PROVE  IInv'
<1> DEFINE c == held[s]
<1>1. /\ c \in Commands /\ spc[s] \in {"queue", "prio"} /\ Carries(s, c)
      /\ spc' = [spc EXCEPT ![s] = "notify"] /\ QueueMutexFree
      /\ UNCHANGED <<switches, stacks, historySize, processor, held, unused, control,
                     applied>>
  BY DEF Push, PushPriority, At, IInv, CarriedInv, Carries
<1> HIDE DEF c
<1>2. \/ queue' = Append(queue, c) /\ prio' = prio
      \/ prio' = Append(prio, c) /\ queue' = queue
  BY DEF Push, PushPriority, c
<1>3. /\ ~Queued(c) /\ ~Active(c) /\ ~Stacked(c) /\ c \notin applied /\ c \notin unused
      /\ \A t \in Submitters : Carries(t, c) => t = s
  BY <1>1 DEF IInv, PlacesInv
<1>4. /\ queue' \in Seq(Commands) /\ prio' \in Seq(Commands)
      /\ IsInjective(queue') /\ IsInjective(prio')
      /\ \/ Range(queue') = Range(queue) \cup {c} /\ Range(prio') = Range(prio)
         \/ Range(prio') = Range(prio) \cup {c} /\ Range(queue') = Range(queue)
  <2>1. /\ queue \in Seq(Commands) /\ IsInjective(queue) /\ c \notin Range(queue)
        /\ prio \in Seq(Commands) /\ IsInjective(prio) /\ c \notin Range(prio)
    BY <1>3 DEF IInv, TypeOK, OnceQueued, Queued
  <2>2. CASE queue' = Append(queue, c) /\ prio' = prio
    BY <1>1, <2>1, <2>2, Appended
  <2>3. CASE prio' = Append(prio, c) /\ queue' = queue
    BY <1>1, <2>1, <2>3, Appended
  <2> QED BY <1>2, <2>2, <2>3
<1>5. TypeOK'
  BY <1>1, <1>4 DEF IInv, TypeOK, switches, stacks, processor, SubmitterSteps
<1>6. CarriedInv'
  BY <1>1 DEF IInv, TypeOK, CarriedInv, processor
<1>7. \A d \in Commands, t \in Submitters : Carries(t, d)' => Carries(t, d) /\ d # c
  BY <1>1, <1>3 DEF IInv, TypeOK, Carries, c
<1>8. \A d \in Commands : /\ Queued(d)' <=> Queued(d) \/ d = c
                          /\ Active(d)' <=> Active(d)
                          /\ Stacked(d)' <=> Stacked(d)
  BY <1>1, <1>4 DEF Queued, Active, Stacked, stacks, processor
<1>9. \A d \in Commands : d \in Range(queue') => d \notin Range(prio')
  BY <1>4, <1>3 DEF IInv, PlacesInv, Queued
<1>10. PlacesInv'
  BY <1>1, <1>3, <1>7, <1>8, <1>9 DEF IInv, PlacesInv, processor
<1>11. OnceQueued'
  BY <1>4 DEF OnceQueued
<1>12. UndoableIsApplied' /\ StacksBounded'
  BY <1>1 DEF IInv, UndoableIsApplied, StacksBounded, stacks
<1>13. SleepInv' /\ UrgentWakesUp'
  BY <1>1 DEF IInv, TypeOK, SleepInv, UrgentWakesUp, QueueMutexFree, processor
<1> QED BY <1>5, <1>6, <1>10, <1>11, <1>12, <1>13 DEF IInv

LEMMA NotifyStep ==
    ASSUME IInv, NEW s \in Submitters, NotifyOne(s) \/ RecordNow(s)
    PROVE  IInv'
<1> USE DEF NotifyOne, RecordNow, Notify, AddToHistory, At
<1>1. TypeOK'
  <2>1. historySize' \in 0..MaxHistory
    BY LimitsAssumption DEF IInv, TypeOK
  <2>2. loop' \in LoopSteps /\ current' = current
    BY DEF IInv, TypeOK, LoopSteps, processor
  <2> QED BY <2>1, <2>2 DEF IInv, TypeOK, switches, queues, stacks, SubmitterSteps
<1>2. /\ spc' = [spc EXCEPT ![s] = "idle"] /\ spc[s] \in {"notify", "record"}
      /\ UNCHANGED <<queues, stacks, held, unused, applied, current>>
      /\ loop' = loop \/ (loop = "asleep" /\ loop' = "lock")
      /\ spc[s] = "notify" => loop' # "asleep"
  BY DEF processor
<1>3. CarriedInv' /\ PlacesInv' /\ OnceQueued' /\ UndoableIsApplied' /\ StacksBounded'
  BY <1>2, PlacesUnchanged DEF IInv, TypeOK
<1>4. SleepInv' /\ UrgentWakesUp'
  BY <1>2 DEF IInv, TypeOK, SleepInv, UrgentWakesUp, queues
<1> QED BY <1>1, <1>3, <1>4 DEF IInv

LEMMA ExecuteNowStep ==
    ASSUME IInv, NEW s \in Submitters, ExecuteNow(s)
    PROVE  IInv'
<1> DEFINE c == held[s]
<1>1. /\ c \in Commands /\ spc[s] = "now" /\ Carries(s, c)
      /\ spc' = [spc EXCEPT ![s] = "record"]
      /\ applied' = applied \/ applied' = applied \cup {c}
      /\ UNCHANGED <<switches, queues, stacks, historySize, processor, held, unused,
                     control>>
  BY DEF ExecuteNow, Execution, At, IInv, CarriedInv, Carries
<1>2. TypeOK'
  BY <1>1 DEF IInv, TypeOK, switches, queues, stacks, processor, SubmitterSteps
<1>3. CarriedInv'
  BY <1>1 DEF IInv, TypeOK, CarriedInv, processor
<1>4. /\ ~Queued(c) /\ ~Active(c) /\ ~Stacked(c) /\ c \notin unused
      /\ \A t \in Submitters : Carries(t, c) => t = s
  BY <1>1 DEF IInv, PlacesInv
<1>5. \A d \in Commands, t \in Submitters : Carries(t, d)' => Carries(t, d) /\ d # c
  BY <1>1, <1>4 DEF IInv, TypeOK, Carries
<1>6. PlacesInv'
  BY <1>1, <1>4, <1>5 DEF IInv, PlacesInv, Queued, Active, Stacked, queues, stacks, processor
<1>7. UndoableIsApplied'
  BY <1>1, <1>4 DEF IInv, UndoableIsApplied, Stacked, stacks
<1>8. OnceQueued' /\ StacksBounded' /\ SleepInv' /\ UrgentWakesUp'
  BY <1>1 DEF IInv, TypeOK, OnceQueued, StacksBounded, SleepInv, UrgentWakesUp, queues,
     stacks, processor
<1> QED BY <1>2, <1>3, <1>6, <1>7, <1>8 DEF IInv

----------------------------------------------------------------------------
(* The processing thread *)

\* Testing the predicate and waiting move no command; a thread that blocks has
\* seen no priority command.
LEMMA WaitingStep ==
    ASSUME IInv, LoopTop \/ TestPredicate \/ Sleep \/ SpuriousWakeup
    PROVE  IInv'
<1>1. /\ UNCHANGED <<switches, queues, stacks, historySize, current, submitter, control,
                     applied>>
      /\ loop \in {"top", "lock", "sleep", "asleep"}
      /\ loop' \in {"exited", "lock", "take", "sleep", "asleep"}
      /\ loop' = "sleep" => prio = <<>>
      /\ loop' = "asleep" => loop = "sleep"
  BY DEF LoopTop, TestPredicate, Sleep, SpuriousWakeup, WakeUp
<1>2. TypeOK'
  BY <1>1 DEF IInv, TypeOK, switches, queues, stacks, submitter, LoopSteps
<1>3. CarriedInv' /\ PlacesInv' /\ OnceQueued' /\ UndoableIsApplied' /\ StacksBounded'
  BY <1>1, PlacesUnchanged DEF submitter
<1>4. SleepInv' /\ UrgentWakesUp'
  BY <1>1 DEF IInv, SleepInv, UrgentWakesUp, queues
<1> QED BY <1>2, <1>3, <1>4 DEF IInv

\* The command taken has left its queue.
LEMMA TakeStep == ASSUME IInv, Take PROVE IInv'
<1> USE DEF Take
<1>1. CASE current' = current /\ queues' = queues
  <2>1. /\ UNCHANGED <<switches, queues, stacks, historySize, current, submitter, control,
                       applied>>
        /\ loop = "take" /\ loop' \in {"exited", "top"}
    BY <1>1 DEF queues, IInv, TypeOK, OnceQueued, PlacesInv, Tailed
  <2>2. TypeOK'
    BY <2>1 DEF IInv, TypeOK, switches, queues, stacks, submitter, LoopSteps
  <2>3. CarriedInv' /\ PlacesInv' /\ OnceQueued' /\ UndoableIsApplied' /\ StacksBounded'
    BY <2>1, PlacesUnchanged DEF submitter
  <2>4. SleepInv' /\ UrgentWakesUp'
    BY <2>1 DEF SleepInv, UrgentWakesUp
  <2> QED BY <2>2, <2>3, <2>4 DEF IInv
<1>2. CASE ~(current' = current /\ queues' = queues)
  <2>1. /\ loop = "take" /\ loop' = "execute"
        /\ UNCHANGED <<switches, stacks, historySize, submitter, control, applied>>
        /\ \/ /\ prio # <<>> /\ current' = Head(prio) /\ prio' = Tail(prio)
              /\ queue' = queue
           \/ /\ queue # <<>> /\ current' = Head(queue) /\ queue' = Tail(queue)
              /\ prio' = prio
    BY <1>2 DEF queues
  <2>2. /\ current' \in Commands /\ Queued(current')
        /\ queue' \in Seq(Commands) /\ prio' \in Seq(Commands)
        /\ IsInjective(queue') /\ IsInjective(prio')
        /\ Range(queue') \subseteq Range(queue) \ {current'}
        /\ Range(prio') \subseteq Range(prio) \ {current'}
    <3>1. /\ queue \in Seq(Commands) /\ IsInjective(queue)
          /\ prio \in Seq(Commands) /\ IsInjective(prio)
          /\ \A c \in Commands : c \in Range(queue) => c \notin Range(prio)
      BY DEF IInv, TypeOK, OnceQueued, PlacesInv
    <3>2. CASE /\ prio # <<>> /\ current' = Head(prio) /\ prio' = Tail(prio)
               /\ queue' = queue
      BY <3>1, <3>2, Tailed DEF Queued
    <3>3. CASE /\ queue # <<>> /\ current' = Head(queue) /\ queue' = Tail(queue)
               /\ prio' = prio
      BY <3>1, <3>3, Tailed DEF Queued
    <3> QED BY <2>1, <3>2, <3>3
  <2>3. TypeOK'
    BY <2>1, <2>2 DEF IInv, TypeOK, switches, stacks, submitter, LoopSteps
  <2>4. CarriedInv'
    BY <2>1, <2>2 DEF IInv, CarriedInv, submitter
  <2>5. /\ ~Stacked(current') /\ current' \notin applied /\ current' \notin unused
        /\ \A s \in Submitters : ~Carries(s, current')
    BY <2>2 DEF IInv, PlacesInv
  <2>6. \A c \in Commands : /\ Active(c)' <=> c = current'
                            /\ Queued(c)' => Queued(c) /\ c # current'
                            /\ Stacked(c)' <=> Stacked(c)
                            /\ \A s \in Submitters : Carries(s, c)' <=> Carries(s, c)
    BY <2>1, <2>2 DEF Active, Queued, Stacked, Carries, stacks, submitter
  <2>7. PlacesInv'
    BY <2>1, <2>2, <2>5, <2>6 DEF IInv, PlacesInv, submitter
  <2>8. OnceQueued' /\ SleepInv' /\ UrgentWakesUp'
    BY <2>1, <2>2 DEF OnceQueued, SleepInv, UrgentWakesUp
  <2>9. UndoableIsApplied' /\ StacksBounded'
    BY <2>1 DEF IInv, UndoableIsApplied, StacksBounded, stacks
  <2> QED BY <2>3, <2>4, <2>7, <2>8, <2>9 DEF IInv
<1> QED BY <1>1, <1>2

\* The command taken is executed and recorded, while Undo and Redo, which do
\* not find it on their stacks, leave it alone.
LEMMA ExecutingStep ==
    ASSUME IInv, ExecuteCurrent \/ RecordCurrent
    PROVE  IInv'
<1> DEFINE c == current
<1>1. /\ loop \in {"execute", "record"} /\ loop' \in {"record", "push", "top"}
      /\ loop' = "push" => c \in applied'
      /\ loop' = "record" => loop = "execute"
      /\ applied' = applied \/ applied' = applied \cup {c}
      /\ UNCHANGED <<switches, queues, stacks, current, submitter, control>>
  BY DEF ExecuteCurrent, RecordCurrent, Execution
<1>2. c \in Commands /\ ~Stacked(c) /\ ~Queued(c) /\ c \notin unused
      /\ \A s \in Submitters : ~Carries(s, c)
  BY <1>1 DEF IInv, CarriedInv, PlacesInv, Active
<1>3. TypeOK'
  <2>1. historySize' \in 0..MaxHistory
    BY LimitsAssumption DEF IInv, TypeOK, ExecuteCurrent, RecordCurrent, AddToHistory
  <2> QED BY <1>1, <1>2, <2>1 DEF IInv, TypeOK, switches, queues, stacks, submitter, LoopSteps
<1>4. CarriedInv'
  BY <1>1, <1>2 DEF IInv, CarriedInv, submitter
<1>5. \A d \in Commands :
         /\ Active(d)' => Active(d)
         /\ Queued(d)' <=> Queued(d)
         /\ Stacked(d)' <=> Stacked(d)
         /\ \A s \in Submitters : Carries(s, d)' <=> Carries(s, d)
  BY <1>1 DEF Active, Queued, Stacked, Carries, queues, stacks, submitter
<1>6. PlacesInv'
  BY <1>1, <1>2, <1>5 DEF IInv, PlacesInv, Active, queues, submitter
<1>7. UndoableIsApplied'
  BY <1>1, <1>2 DEF IInv, UndoableIsApplied, Stacked, stacks
<1>8. OnceQueued' /\ StacksBounded' /\ SleepInv' /\ UrgentWakesUp'
  BY <1>1 DEF IInv, OnceQueued, StacksBounded, SleepInv, UrgentWakesUp, queues, stacks
<1> QED BY <1>3, <1>4, <1>6, <1>7, <1>8 DEF IInv

\* A successful command becomes undoable, and nothing is redoable any more.
LEMMA PushUndoStep == ASSUME IInv, PushUndo PROVE IInv'
<1>1. /\ loop = "push" /\ loop' = "top"
      /\ undoStack' = Trimmed(Append(undoStack, current)) /\ redoStack' = <<>>
      /\ UNCHANGED <<switches, queues, historySize, current, submitter, control, applied>>
  BY DEF PushUndo
<1>2. /\ current \in Commands /\ current \in applied /\ ~Stacked(current)
      /\ undoStack \in Seq(Commands) /\ Len(undoStack) <= MaxUndo
      /\ Range(undoStack) \subseteq applied /\ IsInjective(undoStack)
  BY <1>1 DEF IInv, TypeOK, CarriedInv, PlacesInv, Active, UndoableIsApplied
<1>3. /\ undoStack' \in Seq(Commands) /\ Len(undoStack') <= MaxUndo
      /\ Range(undoStack') \subseteq Range(undoStack) \cup {current}
      /\ IsInjective(undoStack')
  BY <1>1, <1>2, Pushed DEF Stacked
<1>4. /\ redoStack' \in Seq(Commands) /\ Len(redoStack') = 0
      /\ Range(redoStack') = {} /\ IsInjective(redoStack')
  BY <1>1, EmptySeq DEF Range, IsInjective
<1>5. TypeOK'
  BY <1>1, <1>3, <1>4 DEF IInv, TypeOK, switches, queues, submitter, LoopSteps
<1>6. CarriedInv'
  BY <1>1 DEF IInv, CarriedInv, submitter
<1>7. \A d \in Commands :
         /\ ~Active(d)'
         /\ Queued(d)' <=> Queued(d)
         /\ Stacked(d)' => Stacked(d) \/ Active(d)
         /\ \A s \in Submitters : Carries(s, d)' <=> Carries(s, d)
  BY <1>1, <1>3, <1>4 DEF Active, Queued, Stacked, Carries, queues, submitter
<1>8. PlacesInv'
  BY <1>1, <1>7 DEF IInv, PlacesInv, queues, submitter
<1>9. UndoableIsApplied'
  BY <1>1, <1>2, <1>3, <1>4 DEF UndoableIsApplied
<1>10. StacksBounded'
  <2>1. Len(undoStack') \in Nat
    BY <1>3, LenProperties
  <2> QED BY <1>3, <1>4, <2>1, LimitsAssumption DEF StacksBounded
<1>11. OnceQueued' /\ SleepInv' /\ UrgentWakesUp'
  BY <1>1 DEF IInv, OnceQueued, SleepInv, UrgentWakesUp, queues
<1> QED BY <1>5, <1>6, <1>8, <1>9, <1>10, <1>11 DEF IInv
----------------------------------------------------------------------------
(* Undo and redo *)

\* A command goes from the top of one stack to the top of the other.
LEMMA Moved ==
    ASSUME NEW from \in Seq(Commands), NEW to \in Seq(Commands), from # <<>>,
           Len(from) + Len(to) <= MaxUndo, IsInjective(from), IsInjective(to),
           Last(from) \notin Range(to)
    PROVE  /\ Last(from) \in Commands
           /\ Last(from) \in Range(from)
           /\ Front(from) \in Seq(Commands) /\ IsInjective(Front(from))
           /\ Range(Front(from)) = Range(from) \ {Last(from)}
           /\ Trimmed(Append(to, Last(from))) \in Seq(Commands)
           /\ IsInjective(Trimmed(Append(to, Last(from))))
           /\ Range(Trimmed(Append(to, Last(from)))) = Range(to) \cup {Last(from)}
           /\ Len(Trimmed(Append(to, Last(from)))) <= MaxUndo
           /\ Len(Front(from)) + Len(Trimmed(Append(to, Last(from)))) <= MaxUndo
<1> DEFINE c == Last(from)
           new == Trimmed(Append(to, c))
<1>1. /\ c \in Commands /\ Front(from) \in Seq(Commands)
      /\ Len(Front(from)) = Len(from) - 1 /\ IsInjective(Front(from))
      /\ Range(from) = {c} \cup Range(Front(from)) /\ c \notin Range(Front(from))
  BY Fronted
<1>2. Len(from) \in Nat /\ Len(from) >= 1 /\ Len(to) \in Nat /\ Len(to) < MaxUndo
  <2>1. Len(from) \in Nat /\ Len(from) # 0 /\ Len(to) \in Nat
    BY LenProperties, EmptySeq
  <2> QED BY <2>1, LimitsAssumption
<1> HIDE DEF c
<1>3. new = Append(to, c) /\ new \in Seq(Commands) /\ Len(new) <= MaxUndo
  <2>1. Len(to) <= MaxUndo
    BY <1>2, LimitsAssumption
  <2>2. \A e \in Commands :
           /\ Trimmed(Append(to, e)) = Append(to, e)
           /\ Trimmed(Append(to, e)) \in Seq(Commands)
           /\ Len(Trimmed(Append(to, e))) <= MaxUndo
    BY <1>2, <2>1, Pushed
  <2> QED BY <1>1, <2>2
<1>4. Len(new) = Len(to) + 1 /\ Range(new) = Range(to) \cup {c} /\ IsInjective(new)
  BY <1>1, <1>3, Appended DEF c
<1> HIDE DEF new
<1>5. Len(Front(from)) + Len(new) <= MaxUndo
  BY <1>1, <1>2, <1>4, LimitsAssumption
<1> QED BY <1>1, <1>3, <1>4, <1>5 DEF c, new

LEMMA UndoRedoStep ==
    ASSUME IInv, UndoLastCommand \/ RedoCommand
    PROVE  IInv'
<1>1. /\ UNCHANGED <<switches, queues, historySize, processor, submitter, control>>
      /\ \/ stacks' = stacks /\ applied' = applied
         \/ /\ undoStack # <<>> /\ undoStack' = Front(undoStack)
            /\ redoStack' = Trimmed(Append(redoStack, Last(undoStack)))
            /\ applied' = applied \ {Last(undoStack)}
         \/ /\ redoStack # <<>> /\ redoStack' = Front(redoStack)
            /\ undoStack' = Trimmed(Append(undoStack, Last(redoStack)))
            /\ applied' = applied \cup {Last(redoStack)}
  BY DEF UndoLastCommand, RedoCommand, stacks
<1>2. /\ undoStack \in Seq(Commands) /\ redoStack \in Seq(Commands)
      /\ Len(undoStack) \in Nat /\ Len(redoStack) \in Nat
      /\ Len(undoStack) + Len(redoStack) <= MaxUndo
      /\ Len(redoStack) + Len(undoStack) <= MaxUndo
      /\ IsInjective(undoStack) /\ IsInjective(redoStack)
      /\ Range(undoStack) \subseteq applied /\ Range(redoStack) \cap applied = {}
  BY LenProperties DEF IInv, TypeOK, StacksBounded, UndoableIsApplied
<1>3. /\ undoStack' \in Seq(Commands) /\ redoStack' \in Seq(Commands)
      /\ Len(undoStack') <= MaxUndo /\ Len(undoStack') + Len(redoStack') <= MaxUndo
      /\ IsInjective(undoStack') /\ IsInjective(redoStack')
      /\ Range(undoStack') \subseteq applied' /\ Range(redoStack') \cap applied' = {}
      /\ Range(undoStack') \cup Range(redoStack') = Range(undoStack) \cup Range(redoStack)
      /\ \A c \in Commands : ~Stacked(c) => (c \in applied' <=> c \in applied)
      /\ applied' \in SUBSET Commands
  <2>1. CASE stacks' = stacks /\ applied' = applied
    BY <1>2, <2>1 DEF stacks, IInv, TypeOK
  <2>2. CASE /\ undoStack # <<>> /\ undoStack' = Front(undoStack)
             /\ redoStack' = Trimmed(Append(redoStack, Last(undoStack)))
             /\ applied' = applied \ {Last(undoStack)}
    <3>1. Last(undoStack) \in Range(undoStack)
      BY <1>2, <2>2, Fronted
    <3>2. Last(undoStack) \notin Range(redoStack)
      BY <1>2, <3>1
    <3>3. /\ Front(undoStack) \in Seq(Commands) /\ IsInjective(Front(undoStack))
          /\ Range(Front(undoStack)) = Range(undoStack) \ {Last(undoStack)}
          /\ redoStack' \in Seq(Commands) /\ IsInjective(redoStack')
          /\ Range(redoStack') = Range(redoStack) \cup {Last(undoStack)}
          /\ Len(undoStack') + Len(redoStack') <= MaxUndo
      BY <1>2, <2>2, <3>2, Moved
    <3>4. Len(undoStack') <= MaxUndo
      BY <1>2, <2>2, Fronted, LimitsAssumption
    <3> QED BY <1>2, <2>2, <3>1, <3>2, <3>3, <3>4 DEF Stacked, IInv, TypeOK
  <2>3. CASE /\ redoStack # <<>> /\ redoStack' = Front(redoStack)
             /\ undoStack' = Trimmed(Append(undoStack, Last(redoStack)))
             /\ applied' = applied \cup {Last(redoStack)}
    <3>1. Last(redoStack) \in Range(redoStack) /\ Last(redoStack) \in Commands
      BY <1>2, <2>3, Fronted
    <3>2. Last(redoStack) \notin Range(undoStack)
      BY <1>2, <3>1
    <3>3. /\ Front(redoStack) \in Seq(Commands) /\ IsInjective(Front(redoStack))
          /\ Range(Front(redoStack)) = Range(redoStack) \ {Last(redoStack)}
          /\ undoStack' \in Seq(Commands) /\ IsInjective(undoStack')
          /\ Range(undoStack') = Range(undoStack) \cup {Last(redoStack)}
          /\ Len(undoStack') <= MaxUndo
          /\ Len(redoStack') + Len(undoStack') <= MaxUndo
      BY <1>2, <2>3, <3>2, Moved
    <3>4. Len(undoStack') \in Nat /\ Len(redoStack') \in Nat
      BY <2>3, <3>3, LenProperties
    <3>5. Len(undoStack') + Len(redoStack') <= MaxUndo
      BY <3>3, <3>4, LimitsAssumption
    <3> QED BY <1>2, <2>3, <3>1, <3>2, <3>3, <3>5 DEF Stacked, IInv, TypeOK
  <2> QED BY <1>1, <2>1, <2>2, <2>3
<1>4. TypeOK'
  BY <1>1, <1>3 DEF IInv, TypeOK, switches, queues, processor, submitter
<1>5. CarriedInv'
  BY <1>1 DEF IInv, CarriedInv, processor, submitter
<1>6. \A c \in Commands :
         /\ Active(c)' <=> Active(c)
         /\ Queued(c)' <=> Queued(c)
         /\ Stacked(c)' <=> Stacked(c)
         /\ \A s \in Submitters : Carries(s, c)' <=> Carries(s, c)
  BY <1>1, <1>3 DEF Active, Queued, Stacked, Carries, queues, processor, submitter
<1>7. PlacesInv'
  BY <1>1, <1>3, <1>6 DEF IInv, PlacesInv, queues, processor, submitter
<1>8. UndoableIsApplied' /\ StacksBounded'
  BY <1>3 DEF UndoableIsApplied, StacksBounded
<1>9. OnceQueued' /\ SleepInv' /\ UrgentWakesUp'
  BY <1>1 DEF IInv, OnceQueued, SleepInv, UrgentWakesUp, queues, processor, submitter
<1> QED BY <1>4, <1>5, <1>7, <1>8, <1>9 DEF IInv
----------------------------------------------------------------------------
(* The controlling thread *)

LEMMA SwitchStep ==
    ASSUME IInv, \/ Stop \/ StopNotify \/ StopJoin \/ Start \/ Pause \/ Resume
                 \/ ResumeNotify \/ ClearHistory
    PROVE  IInv'
<1> USE DEF Stop, StopNotify, StopJoin, Start, Pause, Resume, ResumeNotify, ClearHistory,
            Notify
<1>1. /\ UNCHANGED <<queues, stacks, submitter, applied>>
      /\ \/ loop' = loop \/ (loop = "asleep" /\ loop' = "lock")
         \/ (loop = "exited" /\ loop' = "none") \/ loop' = "top"
      /\ current' = current \/ (current' = NoCommand /\ loop' = "top")
  BY DEF processor
<1>2. TypeOK'
  <2>1. historySize' \in 0..MaxHistory
    BY LimitsAssumption DEF IInv, TypeOK
  <2>2. running' \in BOOLEAN /\ paused' \in BOOLEAN /\ stopRequested' \in BOOLEAN
    BY DEF IInv, TypeOK, switches
  <2>3. control' \in ControlSteps
    BY DEF IInv, TypeOK, ControlSteps
  <2>4. loop' \in LoopSteps /\ current' \in Commands \cup {NoCommand}
    BY <1>1 DEF IInv, TypeOK, LoopSteps
  <2> QED BY <1>1, <2>1, <2>2, <2>3, <2>4 DEF IInv, TypeOK, queues, stacks, submitter
<1>3. CASE current' = current /\ loop' # "top"
  <2>1. CarriedInv' /\ PlacesInv' /\ OnceQueued' /\ UndoableIsApplied' /\ StacksBounded'
    BY <1>1, <1>3, PlacesUnchanged DEF submitter
  <2>2. SleepInv' /\ UrgentWakesUp'
    BY <1>1, <1>3 DEF IInv, SleepInv, UrgentWakesUp, queues, submitter
  <2> QED BY <1>2, <2>1, <2>2 DEF IInv
<1>4. CASE loop' = "top"
  <2>1. CarriedInv'
    BY <1>1, <1>4 DEF IInv, CarriedInv, submitter
  <2>2. \A c \in Commands :
           /\ ~Active(c)'
           /\ Queued(c)' <=> Queued(c)
           /\ Stacked(c)' <=> Stacked(c)
           /\ \A s \in Submitters : Carries(s, c)' <=> Carries(s, c)
    BY <1>1, <1>4 DEF Active, Queued, Stacked, Carries, queues, stacks, submitter
  <2>3. PlacesInv'
    BY <1>1, <2>2 DEF IInv, PlacesInv, queues, submitter
  <2>4. OnceQueued' /\ UndoableIsApplied' /\ StacksBounded' /\ SleepInv' /\ UrgentWakesUp'
    BY <1>1, <1>4 DEF IInv, OnceQueued, UndoableIsApplied, StacksBounded, SleepInv,
       UrgentWakesUp, queues, stacks
  <2> QED BY <1>2, <2>1, <2>3, <2>4 DEF IInv
<1> QED BY <1>1, <1>3, <1>4

\* Stop drops what is left in the queues.
LEMMA StopClearStep == ASSUME IInv, StopClear PROVE IInv'
<1>1. /\ queue' = <<>> /\ prio' = <<>> /\ control' = "idle"
      /\ UNCHANGED <<switches, stacks, historySize, processor, submitter, applied>>
  BY DEF StopClear
<1>2. <<>> \in Seq(Commands) /\ Range(<<>>) = {} /\ IsInjective(<<>>)
  BY EmptySeq DEF Range, IsInjective
<1>3. TypeOK'
  BY <1>1, <1>2 DEF IInv, TypeOK, switches, stacks, processor, submitter, ControlSteps
<1>4. CarriedInv'
  BY <1>1 DEF IInv, CarriedInv, processor, submitter
<1>5. \A c \in Commands :
         /\ Active(c)' <=> Active(c)
         /\ ~Queued(c)'
         /\ Stacked(c)' <=> Stacked(c)
         /\ \A s \in Submitters : Carries(s, c)' <=> Carries(s, c)
  BY <1>1, <1>2 DEF Active, Queued, Stacked, Carries, stacks, processor, submitter
<1>6. PlacesInv'
  BY <1>1, <1>2, <1>5 DEF IInv, PlacesInv, processor, submitter
<1>7. OnceQueued' /\ UndoableIsApplied' /\ StacksBounded' /\ SleepInv' /\ UrgentWakesUp'
  BY <1>1, <1>2 DEF IInv, OnceQueued, UndoableIsApplied, StacksBounded, SleepInv,
     UrgentWakesUp, stacks, processor, submitter
<1> QED BY <1>3, <1>4, <1>6, <1>7 DEF IInv
----------------------------------------------------------------------------
LEMMA NextInv == IInv /\ [Next]_vars => IInv'
<1> SUFFICES ASSUME IInv, [Next]_vars PROVE IInv'
  OBVIOUS
<1>1. ASSUME NEW s \in Submitters, NEW c \in Commands,
             \/ EnqueueCommand(s, c) \/ EnqueueCommandWithPriority(s, c)
             \/ ExecuteImmediate(s, c)
      PROVE  IInv'
  BY <1>1, OfferStep DEF EnqueueCommand, EnqueueCommandWithPriority, ExecuteImmediate
<1>2. ASSUME NEW s \in Submitters, Submission(s) PROVE IInv'
  BY <1>2, PushStep, NotifyStep, ExecuteNowStep DEF Submission
<1>3. CASE ProcessingLoop \/ SpuriousWakeup
  BY <1>3, WaitingStep, TakeStep, ExecutingStep, PushUndoStep DEF ProcessingLoop
<1>4. CASE UndoLastCommand \/ RedoCommand
  BY <1>4, UndoRedoStep
<1>5. CASE ClearHistory \/ Start \/ Stop \/ Pause \/ Resume \/ Control
  BY <1>5, SwitchStep, StopClearStep DEF Control
<1>6. CASE UNCHANGED vars
  <2>1. CarriedInv' /\ PlacesInv' /\ OnceQueued' /\ UndoableIsApplied' /\ StacksBounded'
    BY <1>6, PlacesUnchanged DEF vars, processor, submitter
  <2>2. TypeOK' /\ SleepInv' /\ UrgentWakesUp'
    BY <1>6 DEF vars, switches, queues, stacks, processor, submitter, IInv, TypeOK,
       SleepInv, UrgentWakesUp
  <2> QED BY <2>1, <2>2 DEF IInv
<1> QED BY <1>1, <1>2, <1>3, <1>4, <1>5, <1>6 DEF Next

LEMMA Invariance == Spec => []IInv
BY InitInv, NextInv, PTL DEF Spec

\* The variables of the processor always have their types; the history and the
\* undo stack stay within their limits.
THEOREM TypeCorrect == Spec => []TypeOK
<1>1. IInv => TypeOK
  BY DEF IInv
<1> QED BY <1>1, Invariance, PTL

\* No priority command is left waiting by a thread that goes to sleep: the
\* notification of EnqueueCommandWithPriority cannot be lost.
THEOREM UrgentIsNotified == Spec => []UrgentWakesUp
<1>1. IInv => UrgentWakesUp
  BY DEF IInv
<1> QED BY <1>1, Invariance, PTL

\* Undo finds commands that are in force and Redo commands that are not, each
\* once, however their calls fall between the execution of a command and its
\* push on the undo stack.
THEOREM StacksTellTheTruth == Spec => []UndoableIsApplied
<1>1. IInv => UndoableIsApplied
  BY DEF IInv
<1> QED BY <1>1, Invariance, PTL

\* Both stacks together stay within m_maxUndoStackSize.
THEOREM StacksStayBounded == Spec => []StacksBounded
<1>1. IInv => StacksBounded
  BY DEF IInv
<1> QED BY <1>1, Invariance, PTL
----------------------------------------------------------------------------
(* The processor implements the safety part of CommandLog *)

Awaits(c) == \/ Queued(c)
             \/ \E s \in Submitters : held[s] = c /\ spc[s] \in {"queue", "prio"}

Runs(c) == \/ loop = "execute" /\ current = c
           \/ \E s \in Submitters : held[s] = c /\ spc[s] = "now"

Redoable(c) == c \in Range(redoStack)

\* Start finds no thread: the one of an earlier start has been joined.
OneThread == ~running => loop = "none"

LEMMA OneThreadInv == Spec => []OneThread
<1>1. Init => OneThread
  BY DEF Init, OneThread
<1>2. ASSUME OneThread, [Next]_vars PROVE OneThread'
  <2>1. ASSUME NEW s \in Submitters, NEW c \in Commands,
               \/ EnqueueCommand(s, c) \/ EnqueueCommandWithPriority(s, c)
               \/ ExecuteImmediate(s, c)
        PROVE  OneThread'
    BY <1>2, <2>1 DEF EnqueueCommand, EnqueueCommandWithPriority, ExecuteImmediate, Offer,
       switches, processor, OneThread
  <2>2. ASSUME NEW s \in Submitters, Submission(s) PROVE OneThread'
    BY <1>2, <2>2 DEF Submission, Push, PushPriority, NotifyOne, Notify, ExecuteNow,
       RecordNow, switches, processor, OneThread
  <2>3. CASE ProcessingLoop \/ SpuriousWakeup
    BY <1>2, <2>3 DEF ProcessingLoop, LoopTop, TestPredicate, Sleep, SpuriousWakeup, Take,
       ExecuteCurrent, RecordCurrent, PushUndo, switches, OneThread
  <2>4. CASE UndoLastCommand \/ RedoCommand \/ ClearHistory
    BY <1>2, <2>4 DEF UndoLastCommand, RedoCommand, ClearHistory, switches, processor,
       OneThread
  <2>5. CASE Start \/ Stop \/ Pause \/ Resume \/ Control
    BY <1>2, <2>5 DEF Start, Stop, Pause, Resume, Control, StopNotify, StopJoin, StopClear,
       ResumeNotify, Notify, switches, processor, OneThread
  <2>6. CASE UNCHANGED vars
    BY <1>2, <2>6 DEF vars, switches, processor, OneThread
  <2> QED BY <1>2, <2>1, <2>2, <2>3, <2>4, <2>5, <2>6 DEF Next
<1> QED BY <1>1, <1>2, PTL DEF Spec

\* What the status depends on.
LEMMA SameStatus ==
    ASSUME NEW c \in Commands,
           c \in unused' <=> c \in unused,
           Awaits(c)' <=> Awaits(c), Runs(c)' <=> Runs(c),
           c \in applied' <=> c \in applied, Redoable(c)' <=> Redoable(c)
    PROVE  Status(c)' = Status(c)
BY DEF Status, Awaits, Runs, Queued, Redoable

\* By the invariant the status tells where the command is.
StatusInv ==
    \A c \in Commands :
        /\ c \in unused => Status(c) = "new"
        /\ Awaits(c) => Status(c) = "pending"
        /\ Runs(c) => Status(c) = "running"
        /\ Stacked(c) /\ c \in applied => Status(c) = "applied"
        /\ Redoable(c) => Status(c) = "undone"

LEMMA StatusIs == IInv => StatusInv
<1> SUFFICES ASSUME IInv, NEW c \in Commands
             PROVE  /\ c \in unused => Status(c) = "new"
                    /\ Awaits(c) => Status(c) = "pending"
                    /\ Runs(c) => Status(c) = "running"
                    /\ Stacked(c) /\ c \in applied => Status(c) = "applied"
                    /\ Redoable(c) => Status(c) = "undone"
  BY DEF StatusInv
<1>1. Awaits(c) => c \notin unused
  BY DEF IInv, PlacesInv, Awaits, Carries
<1>2. Runs(c) => c \notin unused /\ ~Awaits(c)
  <2>1. CASE loop = "execute" /\ current = c
    BY <2>1 DEF IInv, PlacesInv, Awaits, Carries, Active
  <2>2. ASSUME NEW s \in Submitters, held[s] = c, spc[s] = "now"
        PROVE  c \notin unused /\ ~Awaits(c)
    <3>1. Carries(s, c)
      BY <2>2 DEF Carries
    <3> QED BY <2>2, <3>1 DEF IInv, PlacesInv, Awaits, Carries
  <2> QED BY <2>1, <2>2 DEF Runs
<1>3. Stacked(c) => c \notin unused /\ ~Awaits(c) /\ ~Runs(c)
  BY DEF IInv, PlacesInv, Awaits, Runs, Carries, Active
<1>4. Redoable(c) => Stacked(c) /\ c \notin applied
  BY DEF IInv, UndoableIsApplied, Redoable, Stacked
<1> QED BY <1>1, <1>2, <1>3, <1>4 DEF Status, Awaits, Runs, Queued, Redoable

LEMMA StatusIsNext == IInv' => StatusInv'
BY StatusIs, PTL

\* One command changes its status.
LEMMA OneBecomes ==
    ASSUME NEW c \in Commands, NEW from, NEW to,
           Status(c) \in from, Status(c)' = to,
           \A d \in Commands : d # c => Status(d)' = Status(d)
    PROVE  Log!Becomes(c, from, to)
BY DEF Log!Becomes

Simulated == [Log!Next]_[c \in Commands |-> Status(c)]

LEMMA Stutters ==
    ASSUME \A c \in Commands : Status(c)' = Status(c)
    PROVE  Simulated
BY DEF Simulated

LEMMA OfferSimulated ==
    ASSUME IInv, IInv', NEW s \in Submitters, NEW c \in Commands,
           NEW entry \in {"queue", "prio", "now"}, Offer(s, c, entry)
    PROVE  Simulated
<1>1. /\ spc[s] = "idle" /\ c \in unused /\ unused' = unused \ {c}
      /\ UNCHANGED <<queues, stacks, processor, applied>>
      /\ \/ UNCHANGED <<spc, held>>
         \/ spc' = [spc EXCEPT ![s] = entry] /\ held' = [held EXCEPT ![s] = c]
  BY DEF Offer, At
<1>2. /\ ~Queued(c) /\ ~Active(c) /\ ~Stacked(c) /\ c \notin applied
      /\ \A t \in Submitters : ~Carries(t, c)
  BY <1>1 DEF IInv, PlacesInv
<1>3. Status(c) = "new"
  BY <1>1, StatusIs DEF StatusInv
<1>4. ASSUME NEW d \in Commands, d # c PROVE Status(d)' = Status(d)
  <2>1. (Awaits(d)' <=> Awaits(d)) /\ (Runs(d)' <=> Runs(d))
    BY <1>1, <1>4 DEF IInv, TypeOK, Awaits, Runs, Queued, queues, processor
  <2> QED BY <1>1, <1>4, <2>1, SameStatus DEF Redoable, stacks
<1>5. CASE UNCHANGED <<spc, held>>
  <2>1. Status(c)' = "dead"
    BY <1>1, <1>2, <1>5 DEF Status, Queued, Active, Stacked, Carries, queues, stacks,
       processor
  <2>2. Log!Discard
    <3>1. /\ \A d \in {c} : [e \in Commands |-> Status(e)][d] \in {"new", "pending", "undone"}
          /\ [e \in Commands |-> Status(e)'] =
                [e \in Commands |-> IF e \in {c} THEN "dead"
                                    ELSE [f \in Commands |-> Status(f)][e]]
      BY <1>3, <1>4, <2>1
    <3> QED BY <3>1 DEF Log!Discard
  <2> QED BY <2>2 DEF Simulated, Log!Next
<1>6. CASE spc' = [spc EXCEPT ![s] = entry] /\ held' = [held EXCEPT ![s] = c]
  <2>1. held'[s] = c /\ spc'[s] = entry
    BY <1>6 DEF IInv, TypeOK
  <2>2. CASE entry \in {"queue", "prio"}
    <3>1. Status(c)' = "pending"
      BY <2>1, <2>2, StatusIsNext DEF Awaits, StatusInv
    <3>2. Log!Submit(c)
      BY <1>3, <1>4, <3>1, OneBecomes DEF Log!Submit
    <3> QED BY <3>2 DEF Simulated, Log!Next
  <2>3. CASE entry = "now"
    <3>1. Status(c)' = "running"
      BY <2>1, <2>3, StatusIsNext DEF Runs, StatusInv
    <3>2. Log!Begin(c)
      BY <1>3, <1>4, <3>1, OneBecomes DEF Log!Begin
    <3> QED BY <3>2 DEF Simulated, Log!Next
  <2> QED BY <2>2, <2>3
<1> QED BY <1>1, <1>5, <1>6

\* A command ends: it has taken effect or not.
LEMMA Ends ==
    ASSUME IInv, IInv', NEW c \in Commands, Runs(c), ~Runs(c)', ~Awaits(c)',
           ~Stacked(c), UNCHANGED <<stacks, unused>>,
           applied' = applied \/ applied' = applied \cup {c},
           \A d \in Commands : d # c => /\ Awaits(d)' <=> Awaits(d)
                                        /\ Runs(d)' <=> Runs(d)
    PROVE  Simulated
<1>1. Status(c) = "running" /\ c \notin unused
  BY StatusIs DEF StatusInv
<1>2. Status(c)' \in {"applied", "dead"}
  BY <1>1 DEF Status, Awaits, Runs, Queued, Stacked, stacks
<1>3. \A d \in Commands : d # c => Status(d)' = Status(d)
  BY SameStatus DEF Redoable, stacks
<1>4. Log!End(c)
  BY <1>1, <1>2, <1>3, OneBecomes DEF Log!End
<1> QED BY <1>4 DEF Simulated, Log!Next

LEMMA SubmissionSimulated ==
    ASSUME IInv, IInv', NEW s \in Submitters, Submission(s)
    PROVE  Simulated
<1>1. CASE Push(s) \/ PushPriority(s)
  <2>1. PICK c \in Commands : c = held[s]
    BY <1>1 DEF Push, PushPriority, IInv, CarriedInv
  <2>2. /\ spc[s] \in {"queue", "prio"} /\ spc' = [spc EXCEPT ![s] = "notify"]
        /\ UNCHANGED <<stacks, processor, held, unused, applied>>
        /\ \/ queue' = Append(queue, c) /\ prio' = prio
           \/ prio' = Append(prio, c) /\ queue' = queue
    BY <1>1, <2>1 DEF Push, PushPriority, At
  <2>3. Range(queue') \cup Range(prio') = Range(queue) \cup Range(prio) \cup {c}
    <3>1. queue \in Seq(Commands) /\ prio \in Seq(Commands)
      BY DEF IInv, TypeOK
    <3>2. /\ Range(Append(queue, c)) = Range(queue) \cup {c}
          /\ Range(Append(prio, c)) = Range(prio) \cup {c}
      BY <3>1, Appended
    <3> QED BY <2>2, <3>2
  <2>4. \A d \in Commands : (Awaits(d)' <=> Awaits(d)) /\ (Runs(d)' <=> Runs(d))
    BY <2>1, <2>2, <2>3 DEF IInv, TypeOK, Awaits, Runs, Queued, processor
  <2> QED BY <2>2, <2>4, SameStatus, Stutters DEF Redoable, stacks
<1>2. CASE NotifyOne(s) \/ RecordNow(s)
  <2>1. /\ spc[s] \in {"notify", "record"} /\ spc' = [spc EXCEPT ![s] = "idle"]
        /\ UNCHANGED <<queues, stacks, current, held, unused, applied>>
        /\ loop' = "execute" <=> loop = "execute"
    BY <1>2 DEF NotifyOne, RecordNow, Notify, At, processor
  <2>2. \A d \in Commands : (Awaits(d)' <=> Awaits(d)) /\ (Runs(d)' <=> Runs(d))
    BY <2>1 DEF IInv, TypeOK, Awaits, Runs, Queued, queues
  <2> QED BY <2>1, <2>2, SameStatus, Stutters DEF Redoable, stacks
<1>3. CASE ExecuteNow(s)
  <2>1. PICK c \in Commands : c = held[s]
    BY <1>3 DEF ExecuteNow, IInv, CarriedInv
  <2>2. /\ spc[s] = "now" /\ spc' = [spc EXCEPT ![s] = "record"]
        /\ UNCHANGED <<queues, stacks, processor, held, unused>>
        /\ applied' = applied \/ applied' = applied \cup {c}
    BY <1>3, <2>1 DEF ExecuteNow, Execution, At
  <2>3. /\ ~Queued(c) /\ ~Active(c) /\ ~Stacked(c)
        /\ \A t \in Submitters : Carries(t, c) => t = s
    BY <2>1, <2>2 DEF IInv, PlacesInv, Carries
  <2>4. /\ Runs(c) /\ ~Runs(c)' /\ ~Awaits(c)'
        /\ \A d \in Commands : d # c => (Awaits(d)' <=> Awaits(d)) /\ (Runs(d)' <=> Runs(d))
    BY <2>1, <2>2, <2>3 DEF IInv, TypeOK, Awaits, Runs, Queued, Active, Carries, queues,
       processor
  <2> QED BY <2>2, <2>3, <2>4, Ends
<1> QED BY <1>1, <1>2, <1>3 DEF Submission

LEMMA TakeSimulated == ASSUME IInv, IInv', Take PROVE Simulated
<1>1. CASE loop' # "execute"
  <2>1. loop = "take" /\ UNCHANGED <<current, queues, stacks, submitter, applied>>
    BY <1>1 DEF Take
  <2>2. \A d \in Commands : (Awaits(d)' <=> Awaits(d)) /\ (Runs(d)' <=> Runs(d))
    BY <1>1, <2>1 DEF Awaits, Runs, Queued, queues, submitter
  <2> QED BY <2>1, <2>2, SameStatus, Stutters DEF Redoable, stacks, submitter
<1>2. CASE loop' = "execute"
  <2>1. /\ loop = "take" /\ UNCHANGED <<stacks, submitter, applied>>
        /\ \/ /\ prio # <<>> /\ current' = Head(prio) /\ prio' = Tail(prio)
              /\ queue' = queue
           \/ /\ queue # <<>> /\ current' = Head(queue) /\ queue' = Tail(queue)
              /\ prio' = prio
    BY <1>2 DEF Take
  <2>2. PICK c \in Commands : /\ c = current' /\ Queued(c)
                              /\ \A d \in Commands : d # c => (Queued(d)' <=> Queued(d))
    <3>1. queue \in Seq(Commands) /\ prio \in Seq(Commands)
      BY DEF IInv, TypeOK
    <3>2. CASE prio # <<>> /\ current' = Head(prio) /\ prio' = Tail(prio) /\ queue' = queue
      BY <3>1, <3>2, Tailed DEF Queued
    <3>3. CASE queue # <<>> /\ current' = Head(queue) /\ queue' = Tail(queue) /\ prio' = prio
      BY <3>1, <3>3, Tailed DEF Queued
    <3> QED BY <2>1, <3>2, <3>3
  <2>3. Status(c) = "pending"
    BY <2>2, StatusIs DEF StatusInv, Awaits
  <2>4. Status(c)' = "running"
    BY <1>2, <2>2, StatusIsNext DEF StatusInv, Runs
  <2>5. ASSUME NEW d \in Commands, d # c PROVE Status(d)' = Status(d)
    <3>1. (Awaits(d)' <=> Awaits(d)) /\ (Runs(d)' <=> Runs(d))
      BY <1>2, <2>1, <2>2, <2>5 DEF Awaits, Runs, submitter
    <3> QED BY <2>1, <3>1, SameStatus DEF Redoable, stacks, submitter
  <2>6. Log!Begin(c)
    BY <2>3, <2>4, <2>5, OneBecomes DEF Log!Begin
  <2> QED BY <2>6 DEF Simulated, Log!Next
<1> QED BY <1>1, <1>2

LEMMA ExecuteSimulated == ASSUME IInv, IInv', ExecuteCurrent PROVE Simulated
<1>1. PICK c \in Commands : c = current
  BY DEF ExecuteCurrent, IInv, CarriedInv
<1>2. /\ loop = "execute" /\ loop' = "record" /\ UNCHANGED <<current, queues, stacks, submitter>>
      /\ applied' = applied \/ applied' = applied \cup {c}
  BY <1>1 DEF ExecuteCurrent, Execution
<1>3. ~Queued(c) /\ ~Stacked(c) /\ \A s \in Submitters : ~Carries(s, c)
  BY <1>1, <1>2 DEF IInv, PlacesInv, Active
<1>4. /\ Runs(c) /\ ~Runs(c)' /\ ~Awaits(c)'
      /\ \A d \in Commands : d # c => (Awaits(d)' <=> Awaits(d)) /\ (Runs(d)' <=> Runs(d))
  BY <1>1, <1>2, <1>3 DEF Awaits, Runs, Queued, Carries, queues, submitter
<1> QED BY <1>2, <1>3, <1>4, Ends DEF submitter

\* Some commands are dropped.
LEMMA Drops ==
    ASSUME NEW S \in SUBSET Commands,
           \A c \in S : Status(c) \in {"pending", "undone"} /\ Status(c)' = "dead",
           \A c \in Commands : c \notin S => Status(c)' = Status(c)
    PROVE  Simulated
<1> DEFINE status == [c \in Commands |-> Status(c)]
<1>1. \A c \in S : status[c] \in {"new", "pending", "undone"}
  OBVIOUS
<1>2. [c \in Commands |-> Status(c)'] =
         [c \in Commands |-> IF c \in S THEN "dead" ELSE status[c]]
  OBVIOUS
<1>3. Log!Discard
  BY <1>1, <1>2 DEF Log!Discard
<1> QED BY <1>3 DEF Simulated, Log!Next

LEMMA PushUndoSimulated == ASSUME IInv, IInv', PushUndo PROVE Simulated
<1>1. /\ loop = "push" /\ loop' = "top" /\ redoStack' = <<>>
      /\ UNCHANGED <<queues, current, submitter, applied>>
  BY DEF PushUndo
<1>2. \A d \in Commands : (Awaits(d)' <=> Awaits(d)) /\ (Runs(d)' <=> Runs(d))
  BY <1>1 DEF Awaits, Runs, Queued, queues, submitter
<1>3. \A d \in Commands : ~Redoable(d)'
  BY <1>1 DEF Redoable, Range
<1>4. PICK S \in SUBSET Commands : \A c \in Commands : c \in S <=> Redoable(c)
  <2>1. {c \in Commands : Redoable(c)} \in SUBSET Commands
    OBVIOUS
  <2> QED BY <2>1
<1>5. ASSUME NEW c \in S PROVE Status(c) \in {"pending", "undone"} /\ Status(c)' = "dead"
  <2>1. Redoable(c) /\ Status(c) = "undone"
    BY <1>4, StatusIs DEF StatusInv
  <2>2. Status(c)' = "dead"
    BY <1>1, <1>2, <1>3, <1>4, <2>1 DEF Status, Awaits, Runs, Queued, Redoable, submitter
  <2> QED BY <2>1, <2>2
<1>6. ASSUME NEW c \in Commands, c \notin S PROVE Status(c)' = Status(c)
  BY <1>1, <1>2, <1>3, <1>4, <1>6, SameStatus DEF submitter
<1> QED BY <1>5, <1>6, Drops

LEMMA StopClearSimulated == ASSUME IInv, IInv', StopClear PROVE Simulated
<1>1. /\ queue' = <<>> /\ prio' = <<>>
      /\ UNCHANGED <<stacks, processor, submitter, applied>>
  BY DEF StopClear
<1>2. \A d \in Commands : /\ ~Queued(d)' /\ (Runs(d)' <=> Runs(d))
                          /\ (Redoable(d)' <=> Redoable(d))
                          /\ ~Queued(d) => (Awaits(d)' <=> Awaits(d))
  BY <1>1 DEF Awaits, Runs, Queued, Redoable, Range, stacks, processor, submitter
<1>3. PICK S \in SUBSET Commands : \A c \in Commands : c \in S <=> Queued(c)
  <2>1. {c \in Commands : Queued(c)} \in SUBSET Commands
    OBVIOUS
  <2> QED BY <2>1
<1>4. ASSUME NEW c \in S PROVE Status(c) \in {"pending", "undone"} /\ Status(c)' = "dead"
  <2>1. /\ Queued(c) /\ ~Active(c) /\ ~Stacked(c) /\ c \notin applied /\ c \notin unused
        /\ \A s \in Submitters : ~Carries(s, c)
    BY <1>3 DEF IInv, PlacesInv
  <2>2. Status(c) = "pending"
    BY <2>1, StatusIs DEF StatusInv, Awaits
  <2>3. ~Awaits(c)' /\ ~Runs(c)' /\ ~Redoable(c)'
    BY <1>1, <1>2, <2>1 DEF Awaits, Runs, Redoable, Active, Stacked, Carries, submitter
  <2>4. Status(c)' = "dead"
    BY <1>1, <2>1, <2>3 DEF Status, Awaits, Runs, Queued, Redoable, submitter
  <2> QED BY <2>2, <2>4
<1>5. ASSUME NEW c \in Commands, c \notin S PROVE Status(c)' = Status(c)
  BY <1>1, <1>2, <1>3, <1>5, SameStatus DEF submitter
<1> QED BY <1>4, <1>5, Drops

LEMMA UndoRedoSimulated ==
    ASSUME IInv, IInv', UndoLastCommand \/ RedoCommand
    PROVE  Simulated
<1>1. UNCHANGED <<queues, processor, submitter>>
  BY DEF UndoLastCommand, RedoCommand
<1>2. \A d \in Commands : (Awaits(d)' <=> Awaits(d)) /\ (Runs(d)' <=> Runs(d))
  BY <1>1 DEF Awaits, Runs, Queued, queues, processor, submitter
<1>3. /\ undoStack \in Seq(Commands) /\ redoStack \in Seq(Commands)
      /\ Len(undoStack) + Len(redoStack) <= MaxUndo
      /\ Len(redoStack) + Len(undoStack) <= MaxUndo
      /\ IsInjective(undoStack) /\ IsInjective(redoStack)
      /\ Range(undoStack) \subseteq applied /\ Range(redoStack) \cap applied = {}
  BY LenProperties DEF IInv, TypeOK, StacksBounded, UndoableIsApplied
<1>4. CASE UNCHANGED <<stacks, applied>>
  BY <1>1, <1>2, <1>4, SameStatus, Stutters DEF Redoable, stacks, submitter
<1>5. CASE /\ undoStack # <<>> /\ undoStack' = Front(undoStack)
           /\ redoStack' = Trimmed(Append(redoStack, Last(undoStack)))
           /\ applied' = applied \ {Last(undoStack)}
  <2>1. PICK c \in Commands : c = Last(undoStack) /\ c \in Range(undoStack)
    BY <1>3, <1>5, Fronted
  <2>2. Range(redoStack') = Range(redoStack) \cup {c}
    BY <1>3, <1>5, <2>1, Moved
  <2>3. Status(c) = "applied"
    BY <1>3, <2>1, StatusIs DEF StatusInv, Stacked
  <2>4. Status(c)' = "undone"
    BY <2>2, StatusIsNext DEF StatusInv, Redoable
  <2>5. ASSUME NEW d \in Commands, d # c PROVE Status(d)' = Status(d)
    BY <1>1, <1>2, <1>5, <2>1, <2>2, <2>5, SameStatus DEF Redoable, submitter
  <2>6. Log!Undo(c)
    BY <2>3, <2>4, <2>5, OneBecomes DEF Log!Undo
  <2> QED BY <2>6 DEF Simulated, Log!Next
<1>6. CASE /\ redoStack # <<>> /\ redoStack' = Front(redoStack)
           /\ undoStack' = Trimmed(Append(undoStack, Last(redoStack)))
           /\ applied' = applied \cup {Last(redoStack)}
  <2>1. PICK c \in Commands : c = Last(redoStack) /\ c \in Range(redoStack)
    BY <1>3, <1>6, Fronted
  <2>2. /\ Range(redoStack') = Range(redoStack) \ {c}
        /\ Range(undoStack') = Range(undoStack) \cup {c}
    BY <1>3, <1>6, <2>1, Moved
  <2>3. Status(c) = "undone"
    BY <2>1, StatusIs DEF StatusInv, Redoable
  <2>4. Status(c)' = "applied"
    BY <1>6, <2>1, <2>2, StatusIsNext DEF StatusInv, Stacked
  <2>5. ASSUME NEW d \in Commands, d # c PROVE Status(d)' = Status(d)
    BY <1>1, <1>2, <1>6, <2>1, <2>2, <2>5, SameStatus DEF Redoable, submitter
  <2>6. Log!Redo(c)
    BY <2>3, <2>4, <2>5, OneBecomes DEF Log!Redo
  <2> QED BY <2>6 DEF Simulated, Log!Next
<1> QED BY <1>4, <1>5, <1>6 DEF UndoLastCommand, RedoCommand

\* Steps that begin and end no command.
LEMMA QuietSimulated ==
    ASSUME UNCHANGED <<queues, stacks, submitter, applied>>,
           loop' # "execute", loop # "execute"
    PROVE  Simulated
<1>1. \A d \in Commands : (Awaits(d)' <=> Awaits(d)) /\ (Runs(d)' <=> Runs(d))
  BY DEF Awaits, Runs, Queued, queues, submitter
<1> QED BY <1>1, SameStatus, Stutters DEF Redoable, stacks, submitter

LEMMA SwitchSimulated ==
    ASSUME OneThread,
           \/ Stop \/ StopNotify \/ StopJoin \/ Start \/ Pause \/ Resume
           \/ ResumeNotify \/ ClearHistory
    PROVE  Simulated
<1> USE DEF Stop, StopNotify, StopJoin, Start, Pause, Resume, ResumeNotify, ClearHistory,
            Notify
<1>1. UNCHANGED <<queues, stacks, submitter, applied>>
  OBVIOUS
<1>2. \/ UNCHANGED processor \/ (loop' # "execute" /\ loop # "execute")
  BY DEF processor, OneThread
<1>3. CASE UNCHANGED processor
  <2>1. \A d \in Commands : (Awaits(d)' <=> Awaits(d)) /\ (Runs(d)' <=> Runs(d))
    BY <1>1, <1>3 DEF Awaits, Runs, Queued, queues, submitter, processor
  <2> QED BY <1>1, <2>1, SameStatus, Stutters DEF Redoable, stacks, submitter
<1> QED BY <1>1, <1>2, <1>3, QuietSimulated

\* The processor implements the safety part of CommandLog: no command runs
\* twice on its own account, is undone without having taken effect, or is
\* redone without having been undone.
THEOREM RefinesCommandLog == Spec => Log!Spec
<1>1. Init => Log!Init
  BY DEF Init, Log!Init, Status
<1>2. ASSUME IInv, IInv', OneThread, [Next]_vars
      PROVE  [Log!Next]_[c \in Commands |-> Status(c)]
  <2> SUFFICES Simulated
    BY DEF Simulated
  <2>1. ASSUME NEW s \in Submitters, NEW c \in Commands,
               \/ EnqueueCommand(s, c) \/ EnqueueCommandWithPriority(s, c)
               \/ ExecuteImmediate(s, c)
        PROVE  Simulated
    BY <1>2, <2>1, OfferSimulated
       DEF EnqueueCommand, EnqueueCommandWithPriority, ExecuteImmediate
  <2>2. ASSUME NEW s \in Submitters, Submission(s) PROVE Simulated
    BY <1>2, <2>2, SubmissionSimulated
  <2>3. CASE ProcessingLoop \/ SpuriousWakeup
    <3>1. CASE LoopTop \/ TestPredicate \/ Sleep \/ SpuriousWakeup \/ RecordCurrent
      BY <3>1, QuietSimulated DEF LoopTop, TestPredicate, Sleep, SpuriousWakeup, RecordCurrent
    <3> QED BY <1>2, <2>3, <3>1, TakeSimulated, ExecuteSimulated, PushUndoSimulated
            DEF ProcessingLoop
  <2>4. CASE UndoLastCommand \/ RedoCommand
    BY <1>2, <2>4, UndoRedoSimulated
  <2>5. CASE ClearHistory \/ Start \/ Stop \/ Pause \/ Resume \/ Control
    BY <1>2, <2>5, SwitchSimulated, StopClearSimulated DEF Control
  <2>6. CASE UNCHANGED vars
    <3>1. UNCHANGED <<queues, stacks, submitter, processor, applied>>
      BY <2>6 DEF vars
    <3>2. \A d \in Commands : (Awaits(d)' <=> Awaits(d)) /\ (Runs(d)' <=> Runs(d))
      BY <3>1 DEF Awaits, Runs, Queued, queues, submitter, processor
    <3> QED BY <3>1, <3>2, SameStatus, Stutters DEF Redoable, stacks, submitter
  <2> QED BY <1>2, <2>1, <2>2, <2>3, <2>4, <2>5, <2>6 DEF Next
<1> QED BY <1>1, <1>2, Invariance, OneThreadInv, PTL DEF Spec, Log!Spec
=============================================================================
