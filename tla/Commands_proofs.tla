--------------------------- MODULE Commands_proofs ---------------------------
(***************************************************************************)
(* Proofs about module Commands, for any tubes, messages, commands and     *)
(* size of the stacks.                                                     *)
(***************************************************************************)
EXTENDS Commands, SequenceLemmas

----------------------------------------------------------------------------
(* The types of what a job keeps *)

\* What a route can be: none, or what was made of a message.
AnyRoute ==
    {<<>>} \cup {ExtractWaypointsFromMessage(m) : m \in Messages}
           \cup {MessageWaypoints(m) : m \in Messages}

Request ==
    [ask : {"state"}, to : States] \cup [ask : {"stop", "unassign", "initialize"}]
    \cup [ask : {"assign"}, weapon : Kinds] \cup [ask : {"route"}, route : AnyRoute]

Wants == UNION {[D -> Request] : D \in SUBSET Tubes}
Recordings == UNION {[D -> States \cup AnyRoute] : D \in SUBSET Tubes}
Modes == {"idle", "execute", "undo", "redo", "direct"}

Job ==
    [mode : Modes, cmd : Command \cup {NoCommand}, previous : Recordings,
     want : Wants, ok : BOOLEAN]

\* What is recorded fits the command.
Shaped(e) ==
    /\ e.cmd.kind \in {"assign", "waypoints", "control"} =>
          DOMAIN e.previous = {e.cmd.tube}
    /\ \A t \in DOMAIN e.previous :
          e.previous[t] \in IF e.cmd.kind = "waypoints" THEN AnyRoute ELSE States

Entries == {e \in [cmd : Command, previous : Recordings] : Shaped(e)}

----------------------------------------------------------------------------
(* The inductive invariant, with any number of calls at a time *)

TubesType ==
    /\ weapon \in [Tubes -> States] /\ route \in [Tubes -> AnyRoute]
    /\ launched \in SUBSET Tubes /\ holder \in [Tubes -> Workers \cup {Nobody}]
    /\ queued \in Command \cup {NoCommand}

\* Each thread does jobs of its own kind.
JobsInv ==
    /\ job \in [Workers -> Job]
    /\ job["processor"].mode \in {"idle", "execute"}
    /\ job["api"].mode \in {"idle", "undo", "redo"}
    /\ job["console"].mode \in {"idle", "direct"}
    /\ \A w \in Workers :
          /\ job[w].mode = "idle" => job[w].want = <<>>
          /\ job[w].mode # "idle" => job[w].cmd \in Command
          /\ job[w].mode \in {"execute", "undo", "redo"} => Shaped(job[w])

\* There is room for the command that is undone or redone to come back.
StacksInv ==
    /\ undoStack \in Seq(Entries) /\ Len(undoStack) <= MaxUndo
    /\ redoStack \in Seq(Entries) /\ Len(redoStack) <= MaxUndo
    /\ job["api"].mode = "undo" => Len(undoStack) < MaxUndo
    /\ job["api"].mode = "redo" => Len(redoStack) < MaxUndo

\* Who holds the mutex of a weapon is asking it to switch on or to launch; what the
\* periodic thread has stored into the weapon meanwhile does not matter to it.
HoldInv ==
    /\ \A t \in Tubes : weapon[t] \in {"POC", "LAUNCH"} => holder[t] # Nobody
    /\ \A t \in Tubes : holder[t] # Nobody =>
          /\ t \in DOMAIN job[holder[t]].want
          /\ job[holder[t]].want[t] \in {State("ON"), State("LAUNCH")}

EmptyInv == \A t \in Tubes : weapon[t] = "NONE" => route[t] = <<>> /\ t \notin launched

\* What the periodic thread has read, and the history of who was disturbed.
BesideInv ==
    /\ update \in [tube : Tubes, seen : {"ON", "RTL"}] \cup {NoUpdate}
    /\ touched \in [Workers -> SUBSET Tubes]

IInv == TubesType /\ JobsInv /\ StacksInv /\ HoldInv /\ EmptyInv

----------------------------------------------------------------------------
(* What a command wants and records *)

LEMMA EmptyFunction ==
    /\ <<>> \in Wants /\ <<>> \in Recordings /\ DOMAIN <<>> = {}
    /\ \A f \in Wants : f = <<>> <=> DOMAIN f = {}
<1>1. \A S : <<>> \in [{} -> S] /\ DOMAIN <<>> = {}
  OBVIOUS
<1>2. <<>> \in Wants /\ <<>> \in Recordings
  BY <1>1 DEF Wants, Recordings
<1>3. \A f \in Wants : DOMAIN f = {} => f = <<>>
  BY DEF Wants
<1> QED BY <1>1, <1>2, <1>3

\* The shape of a function of Wants and of Recordings.
LEMMA WantsShape ==
    \A f : f \in Wants <=> /\ DOMAIN f \subseteq Tubes /\ f = [t \in DOMAIN f |-> f[t]]
                           /\ \A t \in DOMAIN f : f[t] \in Request
BY DEF Wants

LEMMA RecordingsShape ==
    \A f : f \in Recordings <=>
        /\ DOMAIN f \subseteq Tubes /\ f = [t \in DOMAIN f |-> f[t]]
        /\ \A t \in DOMAIN f : f[t] \in States \cup AnyRoute
BY DEF Recordings

LEMMA OnlyType ==
    ASSUME NEW t \in Tubes, NEW value
    PROVE  /\ DOMAIN Only(t, value) = {t} /\ Only(t, value)[t] = value
           /\ value \in Request => Only(t, value) \in Wants
           /\ value \in States \cup AnyRoute => Only(t, value) \in Recordings
<1>1. DOMAIN Only(t, value) = {t} /\ Only(t, value)[t] = value
      /\ \A S : value \in S => Only(t, value) \in [{t} -> S]
  BY DEF Only
<1>2. {t} \in SUBSET Tubes
  OBVIOUS
<1> QED BY <1>1, <1>2 DEF Wants, Recordings

LEMMA RequestTypes ==
    /\ \A s \in States : State(s) \in Request
    /\ [ask |-> "stop"] \in Request /\ [ask |-> "unassign"] \in Request
    /\ [ask |-> "initialize"] \in Request
    /\ \A k \in Kinds : [ask |-> "assign", weapon |-> k] \in Request
    /\ \A r \in AnyRoute : [ask |-> "route", route |-> r] \in Request
BY DEF Request, State

\* Requests of different kinds differ.
LEMMA RequestKinds ==
    /\ \A s, r : State(s) = State(r) <=> s = r
    /\ \A s : State(s).ask = "state" /\ State(s).to = s
    /\ \A r \in Request : r.ask \in Asking
BY DEF Request, State, Asking

\* What concerns every assigned tube.
LEMMA OfAllType ==
    ASSUME NEW request \in Request
    PROVE  /\ OfAll(request) \in Wants /\ DOMAIN OfAll(request) = Assigned
           /\ \A t \in Assigned : OfAll(request)[t] = request
<1>1. Assigned \in SUBSET Tubes
  BY DEF Assigned
<1> QED BY <1>1 DEF OfAll, Wants

\* The kind of a command says what it is made of.
LEMMA CommandKinds ==
    ASSUME NEW c \in Command
    PROVE  /\ c.kind \in {"assign", "unassign", "waypoints", "control", "all", "stop"}
           /\ c.kind \in {"assign", "unassign", "waypoints", "control"} => c.tube \in Tubes
           /\ c.kind = "assign" => c.weapon \in Kinds
           /\ c.kind = "waypoints" => c.message \in Messages
           /\ c.kind \in {"control", "all"} => c.target \in Targets
BY DEF Command

\* What a command object may hold before Execute.
Fits(c, old) ==
    /\ old \in Recordings
    /\ c.kind \in {"waypoints", "control"} =>
          /\ DOMAIN old = {c.tube}
          /\ old[c.tube] \in IF c.kind = "waypoints" THEN AnyRoute ELSE States

LEMMA FreshlyMadeFits ==
    ASSUME NEW c \in Command
    PROVE  Fits(c, FreshlyMade(c))
<1>1. CASE c.kind = "waypoints"
  <2>1. c.tube \in Tubes /\ <<>> \in AnyRoute /\ FreshlyMade(c) = Only(c.tube, <<>>)
    BY <1>1, CommandKinds DEF FreshlyMade, AnyRoute
  <2>2. PICK t \in Tubes, none \in AnyRoute : t = c.tube /\ none = <<>>
    BY <2>1
  <2>3. Only(t, none) \in Recordings /\ DOMAIN Only(t, none) = {t}
        /\ Only(t, none)[t] = none
    BY OnlyType
  <2> QED BY <1>1, <2>1, <2>2, <2>3 DEF Fits
<1>2. CASE c.kind = "control"
  <2>1. c.tube \in Tubes /\ "OFF" \in States /\ FreshlyMade(c) = Only(c.tube, "OFF")
    BY <1>2, CommandKinds DEF FreshlyMade, States
  <2>2. Only(c.tube, "OFF") \in Recordings /\ DOMAIN Only(c.tube, "OFF") = {c.tube}
        /\ Only(c.tube, "OFF")[c.tube] = "OFF"
    BY <2>1, OnlyType
  <2> QED BY <1>2, <2>1, <2>2 DEF Fits
<1>3. CASE c.kind \notin {"waypoints", "control"}
  <2>1. FreshlyMade(c) = <<>>
    BY <1>3 DEF FreshlyMade
  <2> QED BY <1>3, <2>1, EmptyFunction DEF Fits
<1> QED BY <1>1, <1>2, <1>3

LEMMA EntryFits ==
    ASSUME NEW e \in Entries
    PROVE  Fits(e.cmd, e.previous)
<1>1. e.cmd \in Command /\ e.previous \in Recordings /\ Shaped(e)
  BY DEF Entries
<1>2. CASE e.cmd.kind \in {"waypoints", "control"}
  BY <1>1, <1>2 DEF Shaped, Fits
<1>3. CASE e.cmd.kind \notin {"waypoints", "control"}
  BY <1>1, <1>3 DEF Fits
<1> QED BY <1>2, <1>3

\* The present state of a tube can be recorded.
LEMMA Records ==
    ASSUME TubesType, NEW t \in Tubes
    PROVE  /\ Only(t, weapon[t]) \in Recordings /\ weapon[t] \in States
           /\ Only(t, route[t]) \in Recordings /\ route[t] \in AnyRoute
<1>1. weapon[t] \in States /\ route[t] \in AnyRoute
  BY DEF TubesType
<1> QED BY <1>1, OnlyType

\* Every assigned tube is recorded.
LEMMA RecordsAll ==
    ASSUME TubesType
    PROVE  /\ [t \in Assigned |-> weapon[t]] \in Recordings
           /\ \A t \in Assigned : t \in Tubes /\ weapon[t] \in States
<1>1. Assigned \in SUBSET Tubes /\ \A t \in Assigned : weapon[t] \in States
  BY DEF TubesType, Assigned
<1>2. [t \in Assigned |-> weapon[t]] \in [Assigned -> States \cup AnyRoute]
  BY <1>1
<1> QED BY <1>1, <1>2 DEF Recordings

\* What Execute records and wants, by the kind of the command.
LEMMA Executed ==
    ASSUME TubesType, NEW c \in Command, NEW old, Fits(c, old)
    PROVE  /\ Execute(c, old).want \in Wants
           /\ Execute(c, old).previous \in Recordings
           /\ Shaped([cmd |-> c, previous |-> Execute(c, old).previous])
<1> DEFINE recorded == Execute(c, old).previous
           wanted == Execute(c, old).want
           shaped ==
             /\ c.kind \in {"assign", "waypoints", "control"} => DOMAIN recorded = {c.tube}
             /\ \A t \in DOMAIN recorded :
                   recorded[t] \in IF c.kind = "waypoints" THEN AnyRoute ELSE States
<1> SUFFICES wanted \in Wants /\ recorded \in Recordings /\ shaped
  BY DEF Shaped
<1> HIDE DEF recorded, wanted
<1>k. /\ c.kind \in {"assign", "unassign", "waypoints", "control", "all", "stop"}
      /\ c.kind \in {"assign", "unassign", "waypoints", "control"} => c.tube \in Tubes
      /\ c.kind = "assign" => c.weapon \in Kinds
      /\ c.kind = "waypoints" => c.message \in Messages
      /\ c.kind \in {"control", "all"} => c.target \in Targets
  BY CommandKinds
<1>s. Targets \subseteq States
  BY DEF Targets, States
<1>1. CASE c.kind = "assign"
  <2>1. /\ recorded = Only(c.tube, weapon[c.tube])
        /\ wanted = Only(c.tube, [ask |-> "assign", weapon |-> c.weapon])
    BY <1>1 DEF recorded, wanted, Execute, AssignExecute
  <2>2. wanted \in Wants
    BY <1>1, <1>k, <2>1, OnlyType, RequestTypes
  <2> QED BY <1>1, <1>k, <2>1, <2>2, OnlyType, Records
<1>2. CASE c.kind = "unassign"
  <2>1. /\ recorded = Only(c.tube, weapon[c.tube])
        /\ wanted = Only(c.tube, [ask |-> "unassign"])
    BY <1>2 DEF recorded, wanted, Execute, UnassignExecute
  <2>2. wanted \in Wants
    BY <1>2, <1>k, <2>1, OnlyType, RequestTypes
  <2>3. recorded \in Recordings /\ DOMAIN recorded = {c.tube}
        /\ recorded[c.tube] \in States
    BY <1>2, <1>k, <2>1, OnlyType, Records
  <2> QED BY <1>2, <2>2, <2>3
<1>3. CASE c.kind = "waypoints"
  <2> DEFINE asked == ExtractWaypointsFromMessage(c.message)
  <2>1. /\ recorded = IF c.tube \in Assigned THEN Only(c.tube, route[c.tube]) ELSE old
        /\ wanted = Only(c.tube, [ask |-> "route", route |-> asked])
    BY <1>3 DEF recorded, wanted, Execute, WaypointsExecute
  <2>2. asked \in AnyRoute
    BY <1>3, <1>k DEF AnyRoute
  <2> HIDE DEF asked
  <2>3. wanted \in Wants
    BY <1>3, <1>k, <2>1, <2>2, OnlyType, RequestTypes
  <2>4. recorded \in Recordings /\ DOMAIN recorded = {c.tube}
        /\ recorded[c.tube] \in AnyRoute
    BY <1>3, <1>k, <2>1, OnlyType, Records DEF Fits
  <2> QED BY <1>3, <2>3, <2>4
<1>4. CASE c.kind = "control"
  <2>1. /\ recorded = IF c.tube \in Assigned THEN Only(c.tube, weapon[c.tube]) ELSE old
        /\ wanted = Only(c.tube, State(c.target))
    BY <1>4 DEF recorded, wanted, Execute, ControlExecute
  <2>3. wanted \in Wants
    BY <1>4, <1>k, <1>s, <2>1, OnlyType, RequestTypes
  <2>4. recorded \in Recordings /\ DOMAIN recorded = {c.tube}
        /\ recorded[c.tube] \in States
    BY <1>4, <1>k, <2>1, OnlyType, Records DEF Fits
  <2> QED BY <1>4, <2>3, <2>4
<1>5. CASE c.kind = "all"
  <2>1. recorded = [t \in Assigned |-> weapon[t]] /\ wanted = OfAll(State(c.target))
    BY <1>5 DEF recorded, wanted, Execute, AllExecute
  <2>2. wanted \in Wants
    BY <1>5, <1>k, <1>s, <2>1, OfAllType, RequestTypes
  <2> QED BY <1>5, <2>1, <2>2, RecordsAll
<1>6. CASE c.kind = "stop"
  <2>1. recorded = [t \in Assigned |-> weapon[t]] /\ wanted = OfAll([ask |-> "stop"])
    BY <1>6 DEF recorded, wanted, Execute, StopExecute
  <2>2. wanted \in Wants
    BY <2>1, OfAllType, RequestTypes
  <2> QED BY <1>6, <2>1, <2>2, RecordsAll
<1> QED BY <1>k, <1>1, <1>2, <1>3, <1>4, <1>5, <1>6

\* What Undo asks of tube t.
Undoes(e, t) ==
    CASE e.cmd.kind = "assign" -> [ask |-> "unassign"]
      [] e.cmd.kind = "waypoints" -> [ask |-> "route", route |-> e.previous[t]]
      [] OTHER -> State(e.previous[t])

\* Undo asks exactly the tubes that are recorded, but for an UnassignCommand.
LEMMA Undone ==
    ASSUME NEW e \in Entries
    PROVE  /\ Undo(e) \in Wants
           /\ DOMAIN Undo(e) = IF e.cmd.kind = "unassign" THEN {} ELSE DOMAIN e.previous
           /\ \A t \in DOMAIN Undo(e) : Undo(e)[t] = Undoes(e, t)
<1>1. e.cmd \in Command /\ e.previous \in Recordings /\ Shaped(e)
  BY DEF Entries
<1>k. /\ e.cmd.kind \in {"assign", "unassign", "waypoints", "control", "all", "stop"}
      /\ e.cmd.kind \in {"assign", "unassign", "waypoints", "control"} =>
            e.cmd.tube \in Tubes
  BY <1>1, CommandKinds
<1>2. CASE e.cmd.kind = "assign"
  <2>1. Undo(e) = Only(e.cmd.tube, [ask |-> "unassign"])
    BY <1>2 DEF Undo, AssignUndo
  <2>2. Undoes(e, e.cmd.tube) = [ask |-> "unassign"] /\ DOMAIN e.previous = {e.cmd.tube}
    BY <1>1, <1>2 DEF Undoes, Shaped
  <2>3. PICK t \in Tubes, request \in Request :
           t = e.cmd.tube /\ request = [ask |-> "unassign"]
    BY <1>2, <1>k, RequestTypes
  <2>4. Undo(e) = Only(t, request)
    BY <2>1, <2>3
  <2>5. Undo(e) \in Wants /\ DOMAIN Undo(e) = {t} /\ Undo(e)[t] = request
    BY <2>4, OnlyType
  <2>6. Undo(e) \in Wants /\ DOMAIN Undo(e) = {e.cmd.tube}
        /\ Undo(e)[e.cmd.tube] = [ask |-> "unassign"]
    BY <2>3, <2>5
  <2> QED BY <1>2, <2>2, <2>6
<1>3. CASE e.cmd.kind = "unassign"
  BY <1>3, EmptyFunction DEF Undo, UnassignUndo
<1>4. CASE e.cmd.kind = "waypoints"
  <2> DEFINE r == e.previous[e.cmd.tube]
  <2>1. Undo(e) = Only(e.cmd.tube, [ask |-> "route", route |-> r])
    BY <1>4 DEF Undo, WaypointsUndo
  <2>2. /\ Undoes(e, e.cmd.tube) = [ask |-> "route", route |-> r]
        /\ DOMAIN e.previous = {e.cmd.tube} /\ r \in AnyRoute
    BY <1>1, <1>4 DEF Undoes, Shaped
  <2> HIDE DEF r
  <2>3. PICK t \in Tubes, request \in Request :
           t = e.cmd.tube /\ request = [ask |-> "route", route |-> r]
    BY <1>4, <1>k, <2>2, RequestTypes
  <2>4. Undo(e) = Only(t, request)
    BY <2>1, <2>3
  <2>5. Undo(e) \in Wants /\ DOMAIN Undo(e) = {t} /\ Undo(e)[t] = request
    BY <2>4, OnlyType
  <2>6. Undo(e) \in Wants /\ DOMAIN Undo(e) = {e.cmd.tube}
        /\ Undo(e)[e.cmd.tube] = [ask |-> "route", route |-> r]
    BY <2>3, <2>5
  <2> QED BY <1>4, <2>2, <2>6
<1>5. CASE e.cmd.kind = "control"
  <2> DEFINE s == e.previous[e.cmd.tube]
  <2>1. Undo(e) = Only(e.cmd.tube, State(s))
    BY <1>5 DEF Undo, ControlUndo
  <2>2. /\ Undoes(e, e.cmd.tube) = State(s)
        /\ DOMAIN e.previous = {e.cmd.tube} /\ s \in States
    BY <1>1, <1>5 DEF Undoes, Shaped
  <2> HIDE DEF s
  <2>3. State(s) \in Request /\ e.cmd.tube \in Tubes
    BY <1>5, <1>k, <2>2, RequestTypes
  <2>4. /\ Undo(e) \in Wants /\ DOMAIN Undo(e) = {e.cmd.tube}
        /\ Undo(e)[e.cmd.tube] = State(s)
    BY <2>1, <2>3, OnlyType
  <2> QED BY <1>5, <2>2, <2>4
<1>6. CASE e.cmd.kind \in {"all", "stop"}
  <2>1. Undo(e) = [t \in DOMAIN e.previous |-> State(e.previous[t])]
    BY <1>6 DEF Undo, AllUndo, StopUndo
  <2>2. \A t \in DOMAIN e.previous : e.previous[t] \in States
    BY <1>1, <1>6 DEF Shaped
  <2>3. DOMAIN e.previous \in SUBSET Tubes
    BY <1>1, RecordingsShape
  <2>4. Undo(e) \in [DOMAIN e.previous -> Request]
    BY <2>1, <2>2, RequestTypes
  <2>5. \A t \in DOMAIN e.previous : Undoes(e, t) = State(e.previous[t])
    BY <1>6 DEF Undoes
  <2> QED BY <1>6, <2>1, <2>3, <2>4, <2>5 DEF Wants
<1> QED BY <1>k, <1>2, <1>3, <1>4, <1>5, <1>6

----------------------------------------------------------------------------
(* How a job goes on *)

\* The job of w goes on, those of the other threads are not touched.
GoesOn(w) ==
    /\ job' \in [Workers -> Job] /\ \A v \in Workers \ {w} : job'[v] = job[v]
    /\ job'[w].mode = job[w].mode /\ job'[w].cmd = job[w].cmd
    /\ job'[w].previous = job[w].previous

\* Tube t is no longer asked.
HasAnswered(w, t, success) ==
    /\ GoesOn(w)
    /\ DOMAIN job'[w].want = DOMAIN job[w].want \ {t}
    /\ \A u \in DOMAIN job[w].want \ {t} : job'[w].want[u] = job[w].want[u]
    /\ job'[w].ok <=> job[w].ok /\ success

\* Tube t is asked for something else.
HasChanged(w, t, request) ==
    /\ GoesOn(w)
    /\ DOMAIN job'[w].want = DOMAIN job[w].want
    /\ \A u \in DOMAIN job[w].want \ {t} : job'[w].want[u] = job[w].want[u]
    /\ job'[w].want[t] = request
    /\ job'[w].ok = job[w].ok

\* A worker that still asks a tube is not idle.
LEMMA Asked ==
    ASSUME JobsInv, NEW w \in Workers, NEW t \in DOMAIN job[w].want
    PROVE  /\ t \in Tubes /\ job[w] \in Job /\ job[w].want \in Wants
           /\ job[w].want[t] \in Request
           /\ job[w].mode # "idle" /\ job[w].cmd \in Command
<1>1. job[w] \in Job
  BY DEF JobsInv
<1>2. job[w].want \in Wants
  BY <1>1 DEF Job
<1>3. t \in Tubes /\ job[w].want[t] \in Request
  BY <1>2, WantsShape
<1>4. job[w].want # <<>>
  BY EmptyFunction
<1> QED BY <1>1, <1>2, <1>3, <1>4 DEF JobsInv

LEMMA FewerWants ==
    ASSUME NEW f \in Wants, NEW t
    PROVE  [u \in DOMAIN f \ {t} |-> f[u]] \in Wants
<1>1. /\ DOMAIN f \ {t} \in SUBSET Tubes
      /\ [u \in DOMAIN f \ {t} |-> f[u]] \in [DOMAIN f \ {t} -> Request]
  BY WantsShape
<1> QED BY <1>1 DEF Wants

LEMMA OtherWant ==
    ASSUME NEW f \in Wants, NEW t \in DOMAIN f, NEW request \in Request
    PROVE  [f EXCEPT ![t] = request] \in Wants
<1>1. DOMAIN f \in SUBSET Tubes /\ f \in [DOMAIN f -> Request]
  BY WantsShape
<1>2. [f EXCEPT ![t] = request] \in [DOMAIN f -> Request]
  BY <1>1
<1> QED BY <1>1, <1>2 DEF Wants

LEMMA AnsweredJob ==
    ASSUME JobsInv, NEW w \in Workers, NEW t \in DOMAIN job[w].want,
           NEW success \in BOOLEAN, Answered(w, t, success)
    PROVE  HasAnswered(w, t, success)
<1> DEFINE rest == [u \in DOMAIN job[w].want \ {t} |-> job[w].want[u]]
           new == [job[w] EXCEPT !.want = rest, !.ok = job[w].ok /\ success]
<1>1. job \in [Workers -> Job] /\ job[w] \in Job /\ job[w].want \in Wants
      /\ job[w].ok \in BOOLEAN
  BY DEF JobsInv, Job
<1>2. rest \in Wants /\ DOMAIN rest = DOMAIN job[w].want \ {t}
      /\ \A u \in DOMAIN job[w].want \ {t} : rest[u] = job[w].want[u]
  BY <1>1, FewerWants
<1>3. job' = [job EXCEPT ![w] = new]
  BY <1>1 DEF Answered
<1> HIDE DEF rest
<1>4. PICK both \in BOOLEAN : both <=> job[w].ok /\ success
  BY <1>1
<1>5. new = [job[w] EXCEPT !.want = rest, !.ok = both]
  BY <1>1, <1>4
<1> HIDE DEF new
<1>6. /\ new \in Job /\ new.want = rest /\ new.ok = both /\ new.mode = job[w].mode
      /\ new.cmd = job[w].cmd /\ new.previous = job[w].previous
  BY <1>1, <1>2, <1>5 DEF Job
<1>7. /\ job' \in [Workers -> Job] /\ job'[w] = new
      /\ \A v \in Workers \ {w} : job'[v] = job[v]
  BY <1>1, <1>3, <1>6
<1> QED BY <1>2, <1>4, <1>6, <1>7 DEF HasAnswered, GoesOn

\* The answer is whether the tube is assigned.
LEMMA AnsweredIfAssigned ==
    ASSUME NEW w \in Workers, NEW t \in Tubes, Answered(w, t, t \in Assigned)
    PROVE  \E success \in BOOLEAN :
              (success <=> t \in Assigned) /\ Answered(w, t, success)
<1>1. CASE t \in Assigned
  <2>1. Answered(w, t, TRUE)
    BY <1>1 DEF Answered
  <2> QED BY <1>1, <2>1
<1>2. CASE t \notin Assigned
  <2>1. Answered(w, t, FALSE)
    BY <1>2 DEF Answered
  <2> QED BY <1>2, <2>1
<1> QED BY <1>1, <1>2

LEMMA ChangedJob ==
    ASSUME JobsInv, NEW w \in Workers, NEW t \in DOMAIN job[w].want,
           NEW request \in Request, job' = [job EXCEPT ![w].want[t] = request]
    PROVE  HasChanged(w, t, request)
<1> DEFINE wants == [job[w].want EXCEPT ![t] = request]
           new == [job[w] EXCEPT !.want = wants]
<1>1. job \in [Workers -> Job] /\ job[w] \in Job /\ job[w].want \in Wants
  BY DEF JobsInv, Job
<1>2. wants \in Wants /\ DOMAIN wants = DOMAIN job[w].want /\ wants[t] = request
      /\ \A u \in DOMAIN job[w].want \ {t} : wants[u] = job[w].want[u]
  <2>1. PICK f \in Wants : f = job[w].want
    BY <1>1
  <2>2. wants = [f EXCEPT ![t] = request] /\ t \in DOMAIN f
    BY <2>1
  <2>3. wants \in Wants
    BY <2>2, OtherWant
  <2>4. f = [u \in DOMAIN f |-> f[u]]
    BY WantsShape
  <2> QED BY <2>1, <2>2, <2>3, <2>4
<1>3. job' = [job EXCEPT ![w] = new]
  BY <1>1
<1> HIDE DEF wants
<1>4. /\ new \in Job /\ new.want = wants /\ new.ok = job[w].ok /\ new.mode = job[w].mode
      /\ new.cmd = job[w].cmd /\ new.previous = job[w].previous
  BY <1>1, <1>2 DEF Job
<1> HIDE DEF new
<1>5. /\ job' \in [Workers -> Job] /\ job'[w] = new
      /\ \A v \in Workers \ {w} : job'[v] = job[v]
  BY <1>1, <1>3, <1>4
<1> QED BY <1>2, <1>4, <1>5 DEF HasChanged, GoesOn

\* While a job goes on, what holds of jobs and stacks is not disturbed.
LEMMA GoingOnJobs ==
    ASSUME JobsInv, NEW w \in Workers, job[w].mode # "idle", GoesOn(w)
    PROVE  JobsInv'
<1>1. /\ job' \in [Workers -> Job]
      /\ job'["processor"].mode \in {"idle", "execute"}
      /\ job'["api"].mode \in {"idle", "undo", "redo"}
      /\ job'["console"].mode \in {"idle", "direct"}
  BY DEF JobsInv, GoesOn, Workers
<1>2. ASSUME NEW v \in Workers
      PROVE  /\ job'[v].mode = "idle" => job'[v].want = <<>>
             /\ job'[v].mode # "idle" => job'[v].cmd \in Command
             /\ job'[v].mode \in {"execute", "undo", "redo"} => Shaped(job'[v])
  <2>1. CASE v # w
    BY <2>1 DEF JobsInv, GoesOn
  <2>2. CASE v = w
    BY <2>2 DEF JobsInv, GoesOn, Shaped
  <2> QED BY <2>1, <2>2
<1> QED BY <1>1, <1>2 DEF JobsInv

LEMMA GoingOnStacks ==
    ASSUME StacksInv, NEW w \in Workers, GoesOn(w), UNCHANGED stacks
    PROVE  StacksInv'
<1>1. job'["api"].mode = job["api"].mode
  BY DEF GoesOn, Workers
<1> QED BY <1>1 DEF StacksInv, stacks

----------------------------------------------------------------------------
(* The invariant is preserved: a request at a tube *)

\* Of the requests of w at most the one at t is another one, or no more.
OnlyAt(w, t) ==
    /\ GoesOn(w)
    /\ DOMAIN job'[w].want \subseteq DOMAIN job[w].want
    /\ \A u \in DOMAIN job[w].want \ {t} :
          u \in DOMAIN job'[w].want /\ job'[w].want[u] = job[w].want[u]

LEMMA HasIsOnlyAt ==
    \A w, t, x : HasAnswered(w, t, x) \/ HasChanged(w, t, x) => OnlyAt(w, t)
BY DEF HasAnswered, HasChanged, OnlyAt

\* A step of w at a tube whose mutex it does not hold, after which no other weapon
\* than before is being switched on or launched.
LEMMA HoldStays ==
    ASSUME TubesType, HoldInv, NEW w \in Workers, NEW t \in Tubes, OnlyAt(w, t),
           holder[t] # w, holder' = holder,
           \A u \in Tubes : weapon'[u] \in {"POC", "LAUNCH"} => weapon'[u] = weapon[u]
    PROVE  HoldInv'
<1>1. \A u \in Tubes : weapon'[u] \in {"POC", "LAUNCH"} => holder'[u] # Nobody
  BY DEF HoldInv
<1>2. ASSUME NEW u \in Tubes, holder[u] # Nobody
      PROVE  /\ u \in DOMAIN job'[holder[u]].want
             /\ job'[holder[u]].want[u] = job[holder[u]].want[u]
  <2>1. u \in DOMAIN job[holder[u]].want /\ holder[u] \in Workers
    BY <1>2 DEF HoldInv, TubesType
  <2>2. CASE holder[u] = w
    BY <2>1, <2>2 DEF OnlyAt
  <2>3. CASE holder[u] # w
    BY <2>1, <2>3 DEF OnlyAt, GoesOn
  <2> QED BY <2>2, <2>3
<1> QED BY <1>1, <1>2 DEF HoldInv

\* What w does at a tube whose mutex it holds is to switch on or to launch.
LEMMA HeldIsAsked ==
    ASSUME TubesType, HoldInv, NEW w \in Workers, NEW t \in Tubes, holder[t] = w
    PROVE  /\ t \in DOMAIN job[w].want
           /\ job[w].want[t] \in {State("ON"), State("LAUNCH")}
           /\ job[w].want[t].ask = "state"
<1>1. Nobody \notin Workers
  BY DEF Nobody, Workers
<1> QED BY <1>1, RequestKinds DEF HoldInv

LEMMA EmergencyStopDoes ==
    ASSUME IInv, NEW w \in Workers, NEW t \in Tubes, EmergencyStop(w, t)
    PROVE  /\ t \in DOMAIN job[w].want /\ job[w].want[t].ask = "stop"
           /\ \E to \in {"OFF", "ABORT"} : HasChanged(w, t, State(to))
           /\ UNCHANGED <<tubes, queued, touched, stacks>>
<1>1. /\ t \in DOMAIN job[w].want /\ job[w].want[t].ask = "stop"
      /\ UNCHANGED <<tubes, queued, touched, stacks>>
  BY DEF EmergencyStop, NextTube
<1>2. PICK to \in {"OFF", "ABORT"} : to = IF weapon[t] = "LAUNCH" THEN "ABORT" ELSE "OFF"
  OBVIOUS
<1>3. PICK request \in Request : request = State(to)
  BY RequestTypes DEF States
<1>4. job' = [job EXCEPT ![w].want[t] = request]
  BY <1>2, <1>3 DEF EmergencyStop
<1>5. HasChanged(w, t, request)
  BY <1>1, <1>4, ChangedJob DEF IInv
<1> QED BY <1>1, <1>3, <1>5

LEMMA EmergencyStopInv ==
    ASSUME IInv, NEW w \in Workers, NEW t \in Tubes, EmergencyStop(w, t)
    PROVE  IInv'
<1> USE DEF IInv
<1>1. PICK request : HasChanged(w, t, request)
  BY EmergencyStopDoes
<1>2. /\ t \in DOMAIN job[w].want /\ job[w].want[t].ask = "stop"
      /\ UNCHANGED <<tubes, queued, stacks>>
  BY EmergencyStopDoes
<1>3. OnlyAt(w, t) /\ GoesOn(w) /\ job[w].mode # "idle"
  BY <1>1, <1>2, HasIsOnlyAt, Asked DEF HasChanged
<1>4. holder[t] # w
  BY <1>2, HeldIsAsked
<1>5. HoldInv'
  BY <1>2, <1>3, <1>4, HoldStays DEF tubes, HoldInv
<1>6. TubesType' /\ EmptyInv'
  BY <1>2 DEF tubes, TubesType, EmptyInv
<1> QED BY <1>2, <1>3, <1>5, <1>6, GoingOnJobs, GoingOnStacks

LEMMA AssignWeaponDoes ==
    ASSUME IInv, NEW w \in Workers, NEW t \in Tubes, AssignWeapon(w, t)
    PROVE  /\ t \in DOMAIN job[w].want /\ job[w].want[t].ask = "assign"
           /\ UNCHANGED <<route, launched, holder, queued, stacks>>
           /\ \/ /\ HasChanged(w, t, [ask |-> "initialize"])
                 /\ weapon[t] = "NONE" /\ weapon' \in [Tubes -> States]
                 /\ weapon'[t] = "OFF" /\ \A u \in Tubes \ {t} : weapon'[u] = weapon[u]
                 /\ Touch(w, t)
              \/ HasAnswered(w, t, FALSE) /\ UNCHANGED <<weapon, touched>>
<1>1. /\ t \in DOMAIN job[w].want /\ job[w].want[t].ask = "assign"
      /\ UNCHANGED <<route, launched, holder, queued, stacks>>
  BY DEF AssignWeapon, NextTube
<1>2. CASE CanAssignWeapon(t, job[w].want[t].weapon)
  <2>1. PICK request \in Request : request = [ask |-> "initialize"]
    BY RequestTypes
  <2>2. /\ weapon' = [weapon EXCEPT ![t] = "OFF"] /\ Touch(w, t)
        /\ job' = [job EXCEPT ![w].want[t] = request]
    BY <1>2, <2>1 DEF AssignWeapon
  <2>3. HasChanged(w, t, request)
    BY <1>1, <2>2, ChangedJob DEF IInv
  <2>4. weapon[t] = "NONE"
    BY <1>2 DEF CanAssignWeapon, Assigned
  <2>5. /\ weapon' \in [Tubes -> States] /\ weapon'[t] = "OFF"
        /\ \A u \in Tubes \ {t} : weapon'[u] = weapon[u]
    BY <2>2 DEF IInv, TubesType, States
  <2> QED BY <1>1, <2>1, <2>2, <2>3, <2>4, <2>5
<1>3. CASE ~CanAssignWeapon(t, job[w].want[t].weapon)
  <2>1. Answered(w, t, FALSE) /\ UNCHANGED <<weapon, touched>>
    BY <1>3 DEF AssignWeapon
  <2>2. HasAnswered(w, t, FALSE)
    BY <1>1, <2>1, AnsweredJob DEF IInv
  <2> QED BY <1>1, <2>1, <2>2
<1> QED BY <1>2, <1>3

LEMMA AssignWeaponInv ==
    ASSUME IInv, NEW w \in Workers, NEW t \in Tubes, AssignWeapon(w, t)
    PROVE  IInv'
<1> USE DEF IInv
<1>1. /\ t \in DOMAIN job[w].want /\ job[w].want[t].ask = "assign"
      /\ UNCHANGED <<route, launched, holder, queued, stacks>>
  BY AssignWeaponDoes
<1>2. PICK request, success : HasChanged(w, t, request) \/ HasAnswered(w, t, success)
  BY AssignWeaponDoes
<1>3. OnlyAt(w, t) /\ GoesOn(w) /\ job[w].mode # "idle"
  BY <1>1, <1>2, HasIsOnlyAt, Asked DEF HasAnswered, HasChanged
<1>4. /\ weapon' \in [Tubes -> States]
      /\ \A u \in Tubes : weapon'[u] = weapon[u] \/ (weapon[u] = "NONE" /\ weapon'[u] = "OFF")
  BY AssignWeaponDoes DEF TubesType
<1>5. HoldInv'
  BY <1>1, <1>3, <1>4, HeldIsAsked, HoldStays
<1>6. TubesType' /\ EmptyInv'
  BY <1>1, <1>4 DEF TubesType, EmptyInv
<1> QED BY <1>1, <1>3, <1>5, <1>6, GoingOnJobs, GoingOnStacks

LEMMA InitializeWeaponDoes ==
    ASSUME IInv, NEW w \in Workers, NEW t \in Tubes, InitializeWeapon(w, t)
    PROVE  /\ t \in DOMAIN job[w].want /\ job[w].want[t].ask = "initialize"
           /\ holder[t] = Nobody /\ HasAnswered(w, t, TRUE) /\ Touch(w, t)
           /\ weapon' \in [Tubes -> States] /\ weapon'[t] = "OFF"
           /\ \A u \in Tubes \ {t} : weapon'[u] = weapon[u]
           /\ launched' = launched \ {t}
           /\ UNCHANGED <<route, holder, queued, stacks>>
<1>1. /\ t \in DOMAIN job[w].want /\ job[w].want[t].ask = "initialize"
      /\ holder[t] = Nobody /\ Answered(w, t, TRUE) /\ Touch(w, t)
      /\ weapon' = [weapon EXCEPT ![t] = "OFF"] /\ launched' = launched \ {t}
      /\ UNCHANGED <<route, holder, queued, stacks>>
  BY DEF InitializeWeapon, NextTube
<1>2. HasAnswered(w, t, TRUE)
  BY <1>1, AnsweredJob DEF IInv
<1>3. /\ weapon' \in [Tubes -> States] /\ weapon'[t] = "OFF"
      /\ \A u \in Tubes \ {t} : weapon'[u] = weapon[u]
  BY <1>1 DEF IInv, TubesType, States
<1> QED BY <1>1, <1>2, <1>3

LEMMA InitializeWeaponInv ==
    ASSUME IInv, NEW w \in Workers, NEW t \in Tubes, InitializeWeapon(w, t)
    PROVE  IInv'
<1> USE DEF IInv
<1>1. /\ t \in DOMAIN job[w].want /\ holder[t] = Nobody /\ HasAnswered(w, t, TRUE)
      /\ weapon' \in [Tubes -> States] /\ weapon'[t] = "OFF"
      /\ \A u \in Tubes \ {t} : weapon'[u] = weapon[u]
      /\ launched' = launched \ {t}
      /\ UNCHANGED <<route, holder, queued, stacks>>
  BY InitializeWeaponDoes
<1>2. OnlyAt(w, t) /\ GoesOn(w) /\ job[w].mode # "idle"
  BY <1>1, HasIsOnlyAt, Asked DEF HasAnswered
<1>3. holder[t] # w
  BY <1>1 DEF Nobody, Workers
<1>4. HoldInv'
  BY <1>1, <1>2, <1>3, HoldStays
<1>5. TubesType' /\ EmptyInv'
  BY <1>1 DEF TubesType, EmptyInv
<1> QED BY <1>1, <1>2, <1>4, <1>5, GoingOnJobs, GoingOnStacks

LEMMA UnassignWeaponDoes ==
    ASSUME IInv, NEW w \in Workers, NEW t \in Tubes, UnassignWeapon(w, t)
    PROVE  /\ t \in DOMAIN job[w].want /\ job[w].want[t].ask = "unassign"
           /\ holder[t] = Nobody
           /\ \E success \in BOOLEAN : HasAnswered(w, t, success)
           /\ weapon' \in [Tubes -> States] /\ weapon'[t] = "NONE"
           /\ \A u \in Tubes \ {t} : weapon'[u] = weapon[u]
           /\ route' \in [Tubes -> AnyRoute] /\ route'[t] = <<>>
           /\ \A u \in Tubes \ {t} : route'[u] = route[u]
           /\ launched' = launched \ {t} /\ Touch(w, t)
           /\ UNCHANGED <<holder, queued, stacks>>
<1>1. PICK success \in BOOLEAN : Answered(w, t, success)
  <2>1. Answered(w, t, t \in Assigned)
    BY DEF UnassignWeapon
  <2> QED BY <2>1, AnsweredIfAssigned
<1>2. /\ t \in DOMAIN job[w].want /\ job[w].want[t].ask = "unassign" /\ holder[t] = Nobody
      /\ weapon' = [weapon EXCEPT ![t] = "NONE"] /\ route' = [route EXCEPT ![t] = <<>>]
      /\ launched' = launched \ {t} /\ Touch(w, t)
      /\ UNCHANGED <<holder, queued, stacks>>
  BY DEF UnassignWeapon, NextTube
<1>3. HasAnswered(w, t, success)
  BY <1>1, <1>2, AnsweredJob DEF IInv
<1>4. /\ weapon' \in [Tubes -> States] /\ weapon'[t] = "NONE"
      /\ \A u \in Tubes \ {t} : weapon'[u] = weapon[u]
      /\ route' \in [Tubes -> AnyRoute] /\ route'[t] = <<>>
      /\ \A u \in Tubes \ {t} : route'[u] = route[u]
  BY <1>2 DEF IInv, TubesType, States, AnyRoute
<1> QED BY <1>2, <1>3, <1>4

LEMMA UnassignWeaponInv ==
    ASSUME IInv, NEW w \in Workers, NEW t \in Tubes, UnassignWeapon(w, t)
    PROVE  IInv'
<1> USE DEF IInv
<1>1. PICK success \in BOOLEAN : HasAnswered(w, t, success)
  BY UnassignWeaponDoes
<1>2. /\ t \in DOMAIN job[w].want /\ holder[t] = Nobody
      /\ weapon' \in [Tubes -> States] /\ weapon'[t] = "NONE"
      /\ \A u \in Tubes \ {t} : weapon'[u] = weapon[u]
      /\ route' \in [Tubes -> AnyRoute] /\ route'[t] = <<>>
      /\ \A u \in Tubes \ {t} : route'[u] = route[u]
      /\ launched' = launched \ {t}
      /\ UNCHANGED <<holder, queued, stacks>>
  BY UnassignWeaponDoes
<1>3. OnlyAt(w, t) /\ GoesOn(w) /\ job[w].mode # "idle"
  BY <1>1, <1>2, HasIsOnlyAt, Asked DEF HasAnswered
<1>4. holder[t] # w
  BY <1>2 DEF Nobody, Workers
<1>5. HoldInv'
  BY <1>2, <1>3, <1>4, HoldStays DEF HoldInv
<1>6. TubesType' /\ EmptyInv'
  BY <1>2 DEF TubesType, EmptyInv
<1> QED BY <1>2, <1>3, <1>5, <1>6, GoingOnJobs, GoingOnStacks

LEMMA UpdateWaypointsDoes ==
    ASSUME IInv, NEW w \in Workers, NEW t \in Tubes, UpdateWaypoints(w, t)
    PROVE  /\ t \in DOMAIN job[w].want /\ job[w].want[t].ask = "route"
           /\ \E success \in BOOLEAN :
                 /\ success <=> t \in Assigned
                 /\ HasAnswered(w, t, success)
           /\ route' \in [Tubes -> AnyRoute]
           /\ route'[t] = IF t \in Assigned THEN job[w].want[t].route ELSE route[t]
           /\ \A u \in Tubes \ {t} : route'[u] = route[u]
           /\ Touch(w, t) /\ UNCHANGED <<weapon, launched, holder, queued, stacks>>
<1>1. PICK success \in BOOLEAN :
        /\ success <=> t \in Assigned
        /\ Answered(w, t, success)
  <2>1. Answered(w, t, t \in Assigned)
    BY DEF UpdateWaypoints
  <2> QED BY <2>1, AnsweredIfAssigned
<1>2. /\ t \in DOMAIN job[w].want /\ job[w].want[t].ask = "route"
      /\ route' = [route EXCEPT ![t] = IF t \in Assigned THEN job[w].want[t].route ELSE @]
      /\ Touch(w, t) /\ UNCHANGED <<weapon, launched, holder, queued, stacks>>
  BY DEF UpdateWaypoints, NextTube
<1>3. HasAnswered(w, t, success)
  BY <1>1, <1>2, AnsweredJob DEF IInv
<1>4. job[w].want[t].route \in AnyRoute
  <2>1. job[w].want[t] \in Request
    BY <1>2, Asked DEF IInv
  <2> QED BY <1>2, <2>1 DEF Request
<1>5. /\ route' \in [Tubes -> AnyRoute]
      /\ route'[t] = IF t \in Assigned THEN job[w].want[t].route ELSE route[t]
      /\ \A u \in Tubes \ {t} : route'[u] = route[u]
  BY <1>2, <1>4 DEF IInv, TubesType
<1> QED BY <1>1, <1>2, <1>3, <1>5

LEMMA UpdateWaypointsInv ==
    ASSUME IInv, NEW w \in Workers, NEW t \in Tubes, UpdateWaypoints(w, t)
    PROVE  IInv'
<1> USE DEF IInv
<1>1. PICK success \in BOOLEAN : HasAnswered(w, t, success)
  BY UpdateWaypointsDoes
<1>2. /\ t \in DOMAIN job[w].want /\ job[w].want[t].ask = "route"
      /\ route' \in [Tubes -> AnyRoute] /\ \A u \in Tubes \ {t} : route'[u] = route[u]
      /\ t \notin Assigned => route'[t] = route[t]
      /\ UNCHANGED <<weapon, launched, holder, queued, stacks>>
  BY UpdateWaypointsDoes
<1>3. OnlyAt(w, t) /\ GoesOn(w) /\ job[w].mode # "idle"
  BY <1>1, <1>2, HasIsOnlyAt, Asked DEF HasAnswered
<1>4. holder[t] # w
  BY <1>2, HeldIsAsked
<1>5. HoldInv'
  BY <1>2, <1>3, <1>4, HoldStays DEF HoldInv
<1>6. TubesType' /\ EmptyInv'
  BY <1>2 DEF TubesType, EmptyInv, Assigned
<1> QED BY <1>2, <1>3, <1>5, <1>6, GoingOnJobs, GoingOnStacks

LEMMA RequestRefusedDoes ==
    ASSUME IInv, NEW w \in Workers, NEW t \in Tubes, RequestRefused(w, t)
    PROVE  /\ t \in DOMAIN job[w].want /\ holder[t] = Nobody
           /\ job[w].want[t].ask = "state"
           /\ HasAnswered(w, t, FALSE)
           /\ UNCHANGED <<tubes, queued, touched, stacks>>
<1>1. /\ t \in DOMAIN job[w].want /\ holder[t] = Nobody /\ Answered(w, t, FALSE)
      /\ job[w].want[t].ask = "state" /\ UNCHANGED <<tubes, queued, touched, stacks>>
  BY RequestKinds DEF RequestRefused, Asks, NextTube
<1> QED BY <1>1, AnsweredJob DEF IInv

LEMMA RequestRefusedInv ==
    ASSUME IInv, NEW w \in Workers, NEW t \in Tubes, RequestRefused(w, t)
    PROVE  IInv'
<1> USE DEF IInv
<1>1. /\ t \in DOMAIN job[w].want /\ holder[t] = Nobody /\ HasAnswered(w, t, FALSE)
      /\ UNCHANGED <<tubes, queued, stacks>>
  BY RequestRefusedDoes
<1>2. OnlyAt(w, t) /\ GoesOn(w) /\ job[w].mode # "idle"
  BY <1>1, HasIsOnlyAt, Asked DEF HasAnswered
<1>3. holder[t] # w
  BY <1>1 DEF Nobody, Workers
<1>4. HoldInv'
  BY <1>1, <1>2, <1>3, HoldStays DEF tubes, HoldInv
<1>5. TubesType' /\ EmptyInv'
  BY <1>1 DEF tubes, TubesType, EmptyInv
<1> QED BY <1>1, <1>2, <1>4, <1>5, GoingOnJobs, GoingOnStacks

LEMMA TurnOffDoes ==
    ASSUME IInv, NEW w \in Workers, NEW t \in Tubes, TurnOff(w, t)
    PROVE  /\ t \in DOMAIN job[w].want /\ job[w].want[t] = State("OFF")
           /\ holder[t] = Nobody /\ weapon[t] # "NONE"
           /\ HasAnswered(w, t, TRUE) /\ Touch(w, t)
           /\ weapon' \in [Tubes -> States] /\ weapon'[t] = "OFF"
           /\ \A u \in Tubes \ {t} : weapon'[u] = weapon[u]
           /\ UNCHANGED <<route, launched, holder, queued, stacks>>
<1>1. /\ t \in DOMAIN job[w].want /\ job[w].want[t] = State("OFF")
      /\ holder[t] = Nobody /\ weapon[t] # "NONE" /\ Answered(w, t, TRUE) /\ Touch(w, t)
      /\ weapon' = [weapon EXCEPT ![t] = "OFF"]
      /\ UNCHANGED <<route, launched, holder, queued, stacks>>
  BY DEF TurnOff, Asks, NextTube, CanChangeState, Assigned
<1>2. /\ weapon' \in [Tubes -> States] /\ weapon'[t] = "OFF"
      /\ \A u \in Tubes \ {t} : weapon'[u] = weapon[u]
  BY <1>1 DEF IInv, TubesType, States
<1> QED BY <1>1, <1>2, AnsweredJob DEF IInv

LEMMA TurnOffInv ==
    ASSUME IInv, NEW w \in Workers, NEW t \in Tubes, TurnOff(w, t)
    PROVE  IInv'
<1> USE DEF IInv
<1>1. /\ t \in DOMAIN job[w].want /\ holder[t] = Nobody /\ HasAnswered(w, t, TRUE)
      /\ weapon' \in [Tubes -> States] /\ weapon'[t] = "OFF"
      /\ \A u \in Tubes \ {t} : weapon'[u] = weapon[u]
      /\ UNCHANGED <<route, launched, holder, queued, stacks>>
  BY TurnOffDoes
<1>2. OnlyAt(w, t) /\ GoesOn(w) /\ job[w].mode # "idle"
  BY <1>1, HasIsOnlyAt, Asked DEF HasAnswered
<1>3. holder[t] # w
  BY <1>1 DEF Nobody, Workers
<1>4. HoldInv'
  BY <1>1, <1>2, <1>3, HoldStays DEF HoldInv
<1>5. TubesType' /\ EmptyInv'
  BY <1>1 DEF TubesType, EmptyInv
<1> QED BY <1>1, <1>2, <1>4, <1>5, GoingOnJobs, GoingOnStacks

LEMMA BeginRequestDoes ==
    ASSUME IInv, NEW w \in Workers, NEW t \in Tubes, BeginRequest(w, t)
    PROVE  /\ t \in DOMAIN job[w].want /\ holder[t] = Nobody /\ weapon[t] # "NONE"
           /\ \E to \in {"ON", "LAUNCH"} :
                 /\ job[w].want[t] = State(to)
                 /\ weapon'[t] = IF to = "ON" THEN "POC" ELSE "LAUNCH"
           /\ weapon' \in [Tubes -> States]
           /\ holder' \in [Tubes -> Workers \cup {Nobody}] /\ holder'[t] = w
           /\ \A u \in Tubes \ {t} : weapon'[u] = weapon[u] /\ holder'[u] = holder[u]
           /\ Touch(w, t) /\ UNCHANGED <<route, launched, queued, job, stacks>>
<1>1. PICK to \in {"ON", "LAUNCH"} :
        /\ t \in DOMAIN job[w].want /\ job[w].want[t] = State(to) /\ holder[t] = Nobody
        /\ weapon[t] # "NONE"
        /\ weapon' = [weapon EXCEPT ![t] = IF to = "ON" THEN "POC" ELSE "LAUNCH"]
  BY DEF BeginRequest, Asks, NextTube, CanChangeState, Assigned
<1>2. holder' = [holder EXCEPT ![t] = w] /\ Touch(w, t)
      /\ UNCHANGED <<route, launched, queued, job, stacks>>
  BY DEF BeginRequest
<1>3. /\ weapon' \in [Tubes -> States]
      /\ weapon'[t] = IF to = "ON" THEN "POC" ELSE "LAUNCH"
      /\ \A u \in Tubes \ {t} : weapon'[u] = weapon[u] /\ holder'[u] = holder[u]
      /\ holder' \in [Tubes -> Workers \cup {Nobody}] /\ holder'[t] = w
  BY <1>1, <1>2 DEF IInv, TubesType, States
<1> QED BY <1>1, <1>2, <1>3

LEMMA BeginRequestInv ==
    ASSUME IInv, NEW w \in Workers, NEW t \in Tubes, BeginRequest(w, t)
    PROVE  IInv'
<1> USE DEF IInv
<1>1. PICK to \in {"ON", "LAUNCH"} :
        job[w].want[t] = State(to) /\ weapon'[t] = IF to = "ON" THEN "POC" ELSE "LAUNCH"
  BY BeginRequestDoes
<1>2. t \in DOMAIN job[w].want /\ UNCHANGED <<route, launched, queued, job, stacks>>
  BY BeginRequestDoes
<1>3. /\ weapon' \in [Tubes -> States]
      /\ weapon'[t] = IF to = "ON" THEN "POC" ELSE "LAUNCH"
      /\ \A u \in Tubes \ {t} : weapon'[u] = weapon[u] /\ holder'[u] = holder[u]
      /\ holder' \in [Tubes -> Workers \cup {Nobody}] /\ holder'[t] = w
  BY <1>1, BeginRequestDoes
<1>4. w # Nobody
  BY DEF Workers, Nobody
<1>5. HoldInv'
  <2>1. \A u \in Tubes : weapon'[u] \in {"POC", "LAUNCH"} => holder'[u] # Nobody
    BY <1>3, <1>4 DEF HoldInv
  <2>2. ASSUME NEW u \in Tubes, holder'[u] # Nobody
        PROVE  /\ u \in DOMAIN job'[holder'[u]].want
               /\ job'[holder'[u]].want[u] \in {State("ON"), State("LAUNCH")}
    <3>1. CASE u = t
      BY <1>1, <1>2, <1>3, <3>1
    <3>2. CASE u # t
      BY <1>2, <1>3, <2>2, <3>2 DEF HoldInv
    <3> QED BY <3>1, <3>2
  <2> QED BY <2>1, <2>2 DEF HoldInv
<1>6. TubesType' /\ EmptyInv'
  BY <1>2, <1>3 DEF TubesType, EmptyInv
<1>7. JobsInv' /\ StacksInv'
  BY <1>2 DEF JobsInv, StacksInv, stacks
<1> QED BY <1>5, <1>6, <1>7

LEMMA FinishRequestDoes ==
    ASSUME IInv, NEW w \in Workers, NEW t \in Tubes, FinishRequest(w, t)
    PROVE  /\ holder[t] = w /\ t \in DOMAIN job[w].want
           /\ \/ job[w].want[t] = State("ON") /\ weapon'[t] = "ON"
              \/ job[w].want[t] = State("LAUNCH") /\ weapon'[t] = "POST"
           /\ HasAnswered(w, t, TRUE) /\ Touch(w, t)
           /\ weapon' \in [Tubes -> States]
           /\ holder' \in [Tubes -> Workers \cup {Nobody}] /\ holder'[t] = Nobody
           /\ \A u \in Tubes \ {t} : weapon'[u] = weapon[u] /\ holder'[u] = holder[u]
           /\ launched' \in SUBSET Tubes /\ launched' \ {t} = launched \ {t}
           /\ UNCHANGED <<route, queued, stacks>>
<1>1. /\ holder[t] = w /\ Answered(w, t, TRUE) /\ Touch(w, t)
      /\ weapon' = [weapon EXCEPT ![t] =
                       IF job[w].want[t] = State("LAUNCH") THEN "POST" ELSE "ON"]
      /\ launched' = IF job[w].want[t] = State("LAUNCH") THEN launched \cup {t} ELSE launched
      /\ holder' = [holder EXCEPT ![t] = Nobody]
      /\ UNCHANGED <<route, queued, stacks>>
  BY DEF FinishRequest
<1>2. /\ t \in DOMAIN job[w].want
      /\ job[w].want[t] \in {State("ON"), State("LAUNCH")}
  BY <1>1, HeldIsAsked DEF IInv
<1>3. HasAnswered(w, t, TRUE)
  BY <1>1, <1>2, AnsweredJob DEF IInv
<1>4. PICK final \in {"ON", "POST"} :
        final = IF job[w].want[t] = State("LAUNCH") THEN "POST" ELSE "ON"
  OBVIOUS
<1>5. /\ weapon' \in [Tubes -> States] /\ weapon'[t] = final
      /\ \A u \in Tubes \ {t} : weapon'[u] = weapon[u] /\ holder'[u] = holder[u]
      /\ holder' \in [Tubes -> Workers \cup {Nobody}] /\ holder'[t] = Nobody
  BY <1>1, <1>4 DEF IInv, TubesType, States
<1>6. launched' \in SUBSET Tubes /\ launched' \ {t} = launched \ {t}
  BY <1>1 DEF IInv, TubesType
<1> QED BY <1>1, <1>2, <1>3, <1>4, <1>5, <1>6

LEMMA FinishRequestInv ==
    ASSUME IInv, NEW w \in Workers, NEW t \in Tubes, FinishRequest(w, t)
    PROVE  IInv'
<1> USE DEF IInv
<1>1. /\ holder[t] = w /\ launched' \in SUBSET Tubes /\ launched' \ {t} = launched \ {t}
      /\ UNCHANGED <<route, queued, stacks>>
  BY FinishRequestDoes
<1>2. t \in DOMAIN job[w].want /\ HasAnswered(w, t, TRUE)
  BY FinishRequestDoes
<1>3. OnlyAt(w, t) /\ GoesOn(w) /\ job[w].mode # "idle"
  BY <1>2, HasIsOnlyAt, Asked DEF HasAnswered
<1>4. /\ weapon' \in [Tubes -> States] /\ weapon'[t] \in {"ON", "POST"}
      /\ \A u \in Tubes \ {t} : weapon'[u] = weapon[u] /\ holder'[u] = holder[u]
      /\ holder' \in [Tubes -> Workers \cup {Nobody}] /\ holder'[t] = Nobody
  BY FinishRequestDoes
<1>5. HoldInv'
  <2>1. \A u \in Tubes : weapon'[u] \in {"POC", "LAUNCH"} => holder'[u] # Nobody
    BY <1>4 DEF HoldInv
  <2>2. ASSUME NEW u \in Tubes, holder'[u] # Nobody
        PROVE  /\ u \in DOMAIN job'[holder'[u]].want
               /\ job'[holder'[u]].want[u] \in {State("ON"), State("LAUNCH")}
    <3>1. u # t /\ holder[u] # Nobody /\ holder[u] \in Workers /\ holder'[u] = holder[u]
      BY <1>4, <2>2 DEF TubesType
    <3>2. /\ u \in DOMAIN job[holder[u]].want
          /\ job[holder[u]].want[u] \in {State("ON"), State("LAUNCH")}
      BY <3>1 DEF HoldInv
    <3>3. CASE holder[u] = w
      BY <1>3, <3>1, <3>2, <3>3 DEF OnlyAt
    <3>4. CASE holder[u] # w
      BY <1>3, <3>1, <3>2, <3>4 DEF GoesOn
    <3> QED BY <3>3, <3>4
  <2> QED BY <2>1, <2>2 DEF HoldInv
<1>6. TubesType'
  BY <1>1, <1>4 DEF TubesType
<1>7. EmptyInv'
  BY <1>1, <1>4 DEF EmptyInv
<1> QED BY <1>1, <1>3, <1>5, <1>6, <1>7, GoingOnJobs, GoingOnStacks

LEMMA UpdateReadInv ==
    ASSUME IInv, NEW t \in Tubes, UpdateRead(t)
    PROVE  IInv'
BY DEF UpdateRead, IInv, TubesType, JobsInv, StacksInv, HoldInv, EmptyInv, Assigned, tubes,
   stacks

\* The periodic thread stores ON or RTL, whatever the weapon has become, or nothing.
LEMMA UpdateStoreDoes ==
    ASSUME IInv, BesideInv, UpdateStore
    PROVE  /\ update.tube \in Tubes /\ weapon' \in [Tubes -> States]
           /\ \A u \in Tubes \ {update.tube} : weapon'[u] = weapon[u]
           /\ \/ UNCHANGED <<weapon, touched>>
              \/ /\ weapon'[update.tube] \in {"ON", "RTL"}
                 /\ \/ weapon[update.tube] \in {"ON", "RTL"} /\ UNCHANGED touched
                    \/ Touch("periodic", update.tube)
           /\ UNCHANGED <<route, launched, holder, queued, job, stacks>>
<1>1. PICK t \in Tubes : t = update.tube /\ update.seen \in {"ON", "RTL"}
  BY DEF UpdateStore, BesideInv
<1>2. UNCHANGED <<route, launched, holder, queued, job, stacks>>
  BY DEF UpdateStore
<1>3. CASE UNCHANGED <<weapon, touched>>
  BY <1>1, <1>2, <1>3 DEF IInv, TubesType
<1>4. CASE /\ weapon' = [weapon EXCEPT ![t] = IF update.seen = "ON" THEN "RTL" ELSE "ON"]
           /\ IF weapon[t] = update.seen THEN UNCHANGED touched ELSE Touch("periodic", t)
  <2>1. PICK new \in {"ON", "RTL"} : new = IF update.seen = "ON" THEN "RTL" ELSE "ON"
    OBVIOUS
  <2>2. /\ weapon' \in [Tubes -> States] /\ weapon'[t] = new
        /\ \A u \in Tubes \ {t} : weapon'[u] = weapon[u]
    BY <1>4, <2>1 DEF IInv, TubesType, States
  <2>3. \/ weapon[t] \in {"ON", "RTL"} /\ UNCHANGED touched
        \/ Touch("periodic", t)
    BY <1>1, <1>4
  <2> QED BY <1>1, <1>2, <2>2, <2>3
<1> QED BY <1>1, <1>3, <1>4 DEF UpdateStore

LEMMA UpdateStoreInv ==
    ASSUME IInv, BesideInv, UpdateStore
    PROVE  IInv'
<1> USE DEF IInv
<1>1. /\ weapon' \in [Tubes -> States]
      /\ \A u \in Tubes : weapon'[u] = weapon[u] \/ weapon'[u] \in {"ON", "RTL"}
      /\ UNCHANGED <<route, launched, holder, queued, job, stacks>>
  BY UpdateStoreDoes
<1>2. HoldInv'
  BY <1>1 DEF HoldInv
<1>3. TubesType' /\ EmptyInv'
  BY <1>1 DEF TubesType, EmptyInv
<1>4. JobsInv' /\ StacksInv'
  BY <1>1 DEF JobsInv, StacksInv, stacks
<1> QED BY <1>2, <1>3, <1>4

----------------------------------------------------------------------------
(* The invariant is preserved: the beginning and the end of a job *)

\* w begins a job.
HasBegun(w, j) ==
    /\ job[w].mode = "idle" /\ Starts(w, j)
    /\ j \in Job /\ j.mode # "idle" /\ j.cmd \in Command
    /\ j.mode \in {"execute", "undo", "redo"} => Shaped(j)
    /\ j.mode \in CASE w = "processor" -> {"execute"}
                    [] w = "api" -> {"undo", "redo"}
                    [] w = "console" -> {"direct"}

LEMMA BegunJob ==
    ASSUME JobsInv, NEW w \in Workers, NEW j, HasBegun(w, j)
    PROVE  JobsInv' /\ job'[w] = j /\ \A v \in Workers \ {w} : job'[v] = job[v]
<1>1. /\ job' \in [Workers -> Job] /\ job'[w] = j
      /\ \A v \in Workers \ {w} : job'[v] = job[v]
  BY DEF HasBegun, JobsInv, Starts
<1>2. /\ job'["processor"].mode \in {"idle", "execute"}
      /\ job'["api"].mode \in {"idle", "undo", "redo"}
      /\ job'["console"].mode \in {"idle", "direct"}
  BY <1>1 DEF HasBegun, JobsInv, Workers
<1>3. ASSUME NEW v \in Workers
      PROVE  /\ job'[v].mode = "idle" => job'[v].want = <<>>
             /\ job'[v].mode # "idle" => job'[v].cmd \in Command
             /\ job'[v].mode \in {"execute", "undo", "redo"} => Shaped(job'[v])
  BY <1>1 DEF HasBegun, JobsInv
<1> QED BY <1>1, <1>2, <1>3 DEF JobsInv

\* An idle thread holds no mutex, and gets none by beginning a job.
LEMMA BegunHold ==
    ASSUME TubesType, JobsInv, HoldInv, NEW w \in Workers, NEW j, HasBegun(w, j),
           UNCHANGED tubes
    PROVE  HoldInv'
<1>1. \A v \in Workers \ {w} : job'[v] = job[v]
  BY BegunJob
<1>2. \A u \in Tubes : holder[u] # w
  <2>1. job[w].want = <<>> /\ DOMAIN <<>> = {}
    BY EmptyFunction DEF HasBegun, JobsInv
  <2>2. w # Nobody
    BY DEF Workers, Nobody
  <2> QED BY <2>1, <2>2 DEF HoldInv
<1>3. \A u \in Tubes : holder[u] # Nobody => holder[u] \in Workers \ {w}
  BY <1>2 DEF TubesType
<1> QED BY <1>1, <1>3 DEF HoldInv, tubes

LEMMA ExecuteJobType ==
    ASSUME TubesType, NEW c \in Command, NEW old, Fits(c, old),
           NEW mode \in {"execute", "redo"}
    PROVE  /\ ExecuteJob(mode, c, old) \in Job /\ Shaped(ExecuteJob(mode, c, old))
           /\ ExecuteJob(mode, c, old).mode = mode /\ ExecuteJob(mode, c, old).cmd = c
           /\ ExecuteJob(mode, c, old).previous = Execute(c, old).previous
           /\ ExecuteJob(mode, c, old).want = Execute(c, old).want
<1>1. /\ Execute(c, old).want \in Wants /\ Execute(c, old).previous \in Recordings
      /\ Shaped([cmd |-> c, previous |-> Execute(c, old).previous])
  BY Executed
<1>2. PICK wanted \in Wants, recorded \in Recordings :
        wanted = Execute(c, old).want /\ recorded = Execute(c, old).previous
  BY <1>1
<1>3. ExecuteJob(mode, c, old) =
        [mode |-> mode, cmd |-> c, previous |-> recorded, want |-> wanted, ok |-> TRUE]
  BY <1>2 DEF ExecuteJob
<1>4. Shaped(ExecuteJob(mode, c, old))
  BY <1>1, <1>2, <1>3 DEF Shaped
<1> QED BY <1>2, <1>3, <1>4 DEF Job, Modes

LEMMA UndoJobType ==
    ASSUME NEW e \in Entries
    PROVE  /\ UndoJob(e) \in Job /\ Shaped(UndoJob(e))
           /\ UndoJob(e).mode = "undo" /\ UndoJob(e).cmd = e.cmd
           /\ UndoJob(e).previous = e.previous /\ UndoJob(e).want = Undo(e)
<1>1. e.cmd \in Command /\ e.previous \in Recordings /\ Shaped(e)
  BY DEF Entries
<1>2. PICK wanted \in Wants : wanted = Undo(e)
  BY Undone
<1>3. UndoJob(e) =
        [mode |-> "undo", cmd |-> e.cmd, previous |-> e.previous, want |-> wanted, ok |-> TRUE]
  BY <1>2 DEF UndoJob
<1>4. Shaped(UndoJob(e))
  BY <1>1, <1>3 DEF Shaped
<1> QED BY <1>1, <1>2, <1>3, <1>4 DEF Job, Modes

\* What is wanted does not depend on what was recorded before.
LEMMA DirectType ==
    ASSUME TubesType, NEW c \in Direct
    PROVE  DirectRequests(c) \in Wants /\ c \in Command
<1>1. c \in Command
  BY IssuedAssumption
<1>2. CASE c.kind = "waypoints"
  <2> DEFINE asked == MessageWaypoints(c.message)
  <2>1. asked \in AnyRoute /\ c.tube \in Tubes
    BY <1>1, <1>2, CommandKinds DEF AnyRoute
  <2> HIDE DEF asked
  <2>2. PICK t \in Tubes, request \in Request :
          t = c.tube /\ request = [ask |-> "route", route |-> asked]
    BY <2>1, RequestTypes
  <2>3. DirectRequests(c) = Only(t, request)
    BY <1>2, <2>2 DEF DirectRequests, asked
  <2> QED BY <1>1, <2>3, OnlyType
<1>3. CASE c.kind # "waypoints"
  <2>1. DirectRequests(c) = Execute(c, <<>>).want
    BY <1>3 DEF DirectRequests
  <2>2. c.kind \in {"assign", "unassign", "control", "stop"}
    BY <1>3, IssuedAssumption
  <2>3. Execute(c, <<>>).want = Execute(c, FreshlyMade(c)).want
    <3>1. CASE c.kind = "assign"
      BY <3>1 DEF Execute, AssignExecute
    <3>2. CASE c.kind = "unassign"
      BY <3>2 DEF Execute, UnassignExecute
    <3>3. CASE c.kind = "control"
      BY <3>3 DEF Execute, ControlExecute
    <3>4. CASE c.kind = "stop"
      BY <3>4 DEF Execute, StopExecute
    <3> QED BY <2>2, <3>1, <3>2, <3>3, <3>4
  <2>4. Fits(c, FreshlyMade(c))
    BY <1>1, FreshlyMadeFits
  <2>5. Execute(c, FreshlyMade(c)).want \in Wants
    BY <1>1, <2>4, Executed
  <2> QED BY <1>1, <2>1, <2>3, <2>5
<1> QED BY <1>2, <1>3

LEMMA EnqueueCommandInv ==
    ASSUME IInv, EnqueueCommand
    PROVE  IInv'
<1>1. queued' \in Command /\ UNCHANGED <<tubes, job, stacks>>
  BY IssuedAssumption DEF EnqueueCommand
<1>2. TubesType' /\ HoldInv' /\ EmptyInv'
  BY <1>1 DEF IInv, TubesType, HoldInv, EmptyInv, tubes
<1>3. JobsInv' /\ StacksInv'
  BY <1>1 DEF IInv, JobsInv, StacksInv, stacks
<1> QED BY <1>2, <1>3 DEF IInv

LEMMA ExecuteCommandDoes ==
    ASSUME IInv, ExecuteCommand
    PROVE  /\ \E c \in Command, j \in Job :
                 /\ HasBegun("processor", j) /\ j.mode = "execute" /\ j.cmd = c
                 /\ j.previous = Execute(c, FreshlyMade(c)).previous
                 /\ j.want = Execute(c, FreshlyMade(c)).want
           /\ queued' = NoCommand /\ UNCHANGED <<tubes, stacks>>
<1>1. PICK c \in Command : c = queued
  BY DEF ExecuteCommand, IInv, TubesType
<1>2. PICK old : old = FreshlyMade(c)
  OBVIOUS
<1>3. PICK mode \in {"execute", "redo"} : mode = "execute"
  OBVIOUS
<1> DEFINE j == ExecuteJob(mode, c, old)
<1>4. /\ job["processor"].mode = "idle" /\ Starts("processor", j)
      /\ queued' = NoCommand /\ UNCHANGED <<tubes, stacks>>
  BY <1>1, <1>2, <1>3 DEF ExecuteCommand, MayStart
<1>5. TubesType /\ Fits(c, old)
  BY <1>2, FreshlyMadeFits DEF IInv
<1>6. /\ j \in Job /\ Shaped(j) /\ j.mode = mode /\ j.cmd = c
      /\ j.previous = Execute(c, old).previous /\ j.want = Execute(c, old).want
  BY <1>5, ExecuteJobType
<1> HIDE DEF j
<1>7. HasBegun("processor", j)
  BY <1>3, <1>4, <1>6 DEF HasBegun
<1> QED BY <1>2, <1>3, <1>4, <1>6, <1>7

LEMMA ExecuteCommandInv ==
    ASSUME IInv, ExecuteCommand
    PROVE  IInv'
<1>1. PICK j : HasBegun("processor", j)
  BY ExecuteCommandDoes
<1>2. queued' = NoCommand /\ UNCHANGED <<tubes, stacks>>
  BY ExecuteCommandDoes
<1>3. JobsInv' /\ HoldInv' /\ job'["api"] = job["api"]
  BY <1>1, <1>2, BegunJob, BegunHold DEF IInv, Workers
<1>4. TubesType' /\ EmptyInv'
  BY <1>2 DEF IInv, TubesType, EmptyInv, tubes
<1>5. StacksInv'
  BY <1>2, <1>3 DEF IInv, StacksInv, stacks
<1> QED BY <1>3, <1>4, <1>5 DEF IInv

LEMMA UndoLastCommandDoes ==
    ASSUME IInv, UndoLastCommand
    PROVE  /\ \E e \in Entries : e = Last(undoStack) /\ HasBegun("api", UndoJob(e))
           /\ undoStack' = Front(undoStack)
           /\ Front(undoStack) \in Seq(Entries) /\ Len(Front(undoStack)) = Len(undoStack) - 1
           /\ Range(undoStack) = {Last(undoStack)} \cup Range(Front(undoStack))
           /\ UNCHANGED <<tubes, queued, redoStack>>
<1>1. /\ Last(undoStack) \in Entries /\ Front(undoStack) \in Seq(Entries)
      /\ Len(Front(undoStack)) = Len(undoStack) - 1
      /\ Range(undoStack) = {Last(undoStack)} \cup Range(Front(undoStack))
  BY Fronted DEF UndoLastCommand, IInv, StacksInv
<1>2. PICK e \in Entries : e = Last(undoStack)
  BY <1>1
<1>3. /\ job["api"].mode = "idle" /\ Starts("api", UndoJob(e))
      /\ undoStack' = Front(undoStack) /\ UNCHANGED <<tubes, queued, redoStack>>
  BY <1>2 DEF UndoLastCommand, MayStart
<1>4. HasBegun("api", UndoJob(e))
  BY <1>3, UndoJobType DEF HasBegun, Entries
<1> QED BY <1>1, <1>2, <1>3, <1>4

LEMMA UndoLastCommandInv ==
    ASSUME IInv, UndoLastCommand
    PROVE  IInv'
<1>1. PICK e \in Entries : HasBegun("api", UndoJob(e))
  BY UndoLastCommandDoes
<1>2. /\ undoStack' \in Seq(Entries) /\ Len(undoStack') = Len(undoStack) - 1
      /\ UNCHANGED <<tubes, queued, redoStack>>
  BY UndoLastCommandDoes
<1>3. JobsInv' /\ HoldInv' /\ job'["api"].mode = "undo"
  <2>1. PICK j : j = UndoJob(e)
    OBVIOUS
  <2>2. JobsInv' /\ HoldInv' /\ job'["api"] = j
    BY <1>1, <1>2, <2>1, BegunJob, BegunHold DEF IInv, Workers
  <2> QED BY <2>1, <2>2, UndoJobType
<1>4. TubesType' /\ EmptyInv'
  BY <1>2 DEF IInv, TubesType, EmptyInv, tubes
<1>5. StacksInv'
  <2>1. Len(undoStack) \in Nat /\ Len(undoStack) <= MaxUndo /\ MaxUndo \in Nat
    BY MaxUndoAssumption, LenProperties DEF IInv, StacksInv
  <2> QED BY <1>2, <1>3, <2>1 DEF IInv, StacksInv
<1> QED BY <1>3, <1>4, <1>5 DEF IInv

LEMMA RedoCommandDoes ==
    ASSUME IInv, RedoCommand
    PROVE  /\ \E e \in Entries, j \in Job :
                 /\ e = Last(redoStack)
                 /\ HasBegun("api", j) /\ j.mode = "redo" /\ j.cmd = e.cmd
                 /\ j.previous = Execute(e.cmd, e.previous).previous
                 /\ j.want = Execute(e.cmd, e.previous).want
           /\ redoStack' = Front(redoStack)
           /\ Front(redoStack) \in Seq(Entries) /\ Len(Front(redoStack)) = Len(redoStack) - 1
           /\ Range(redoStack) = {Last(redoStack)} \cup Range(Front(redoStack))
           /\ UNCHANGED <<tubes, queued, undoStack>>
<1>1. /\ Last(redoStack) \in Entries /\ Front(redoStack) \in Seq(Entries)
      /\ Len(Front(redoStack)) = Len(redoStack) - 1
      /\ Range(redoStack) = {Last(redoStack)} \cup Range(Front(redoStack))
  BY Fronted DEF RedoCommand, IInv, StacksInv
<1>2. PICK e \in Entries : e = Last(redoStack)
  BY <1>1
<1>3. PICK c \in Command, old \in Recordings : c = e.cmd /\ old = e.previous
  BY DEF Entries
<1>4. PICK mode \in {"execute", "redo"} : mode = "redo"
  OBVIOUS
<1> DEFINE j == ExecuteJob(mode, c, old)
<1>5. /\ job["api"].mode = "idle" /\ Starts("api", j)
      /\ redoStack' = Front(redoStack) /\ UNCHANGED <<tubes, queued, undoStack>>
  BY <1>2, <1>3, <1>4 DEF RedoCommand, MayStart
<1>6. TubesType /\ Fits(c, old)
  BY <1>3, EntryFits DEF IInv
<1>7. /\ j \in Job /\ Shaped(j) /\ j.mode = mode /\ j.cmd = c
      /\ j.previous = Execute(c, old).previous /\ j.want = Execute(c, old).want
  BY <1>6, ExecuteJobType
<1> HIDE DEF j
<1>8. HasBegun("api", j)
  BY <1>4, <1>5, <1>7 DEF HasBegun
<1> QED BY <1>1, <1>2, <1>3, <1>4, <1>5, <1>7, <1>8

LEMMA RedoCommandInv ==
    ASSUME IInv, RedoCommand
    PROVE  IInv'
<1>1. PICK j : HasBegun("api", j) /\ j.mode = "redo"
  BY RedoCommandDoes
<1>2. /\ redoStack' \in Seq(Entries) /\ Len(redoStack') = Len(redoStack) - 1
      /\ UNCHANGED <<tubes, queued, undoStack>>
  BY RedoCommandDoes
<1>3. JobsInv' /\ HoldInv' /\ job'["api"].mode = "redo"
  BY <1>1, <1>2, BegunJob, BegunHold DEF IInv, Workers
<1>4. TubesType' /\ EmptyInv'
  BY <1>2 DEF IInv, TubesType, EmptyInv, tubes
<1>5. StacksInv'
  <2>1. Len(redoStack) \in Nat /\ Len(redoStack) <= MaxUndo /\ MaxUndo \in Nat
    BY MaxUndoAssumption, LenProperties DEF IInv, StacksInv
  <2> QED BY <1>2, <1>3, <2>1 DEF IInv, StacksInv
<1> QED BY <1>3, <1>4, <1>5 DEF IInv

LEMMA DirectCallDoes ==
    ASSUME IInv, DirectCall
    PROVE  /\ \E c \in Direct, j \in Job :
                 /\ HasBegun("console", j) /\ j.mode = "direct" /\ j.cmd = c
                 /\ j.want = DirectRequests(c)
           /\ UNCHANGED <<tubes, queued, stacks>>
<1>1. PICK c \in Direct :
        Starts("console", [mode |-> "direct", cmd |-> c, previous |-> <<>>,
                           want |-> DirectRequests(c), ok |-> TRUE])
  BY DEF DirectCall
<1>2. PICK wanted \in Wants : wanted = DirectRequests(c) /\ c \in Command
  BY DirectType DEF IInv
<1> DEFINE j == [mode |-> "direct", cmd |-> c, previous |-> <<>>, want |-> wanted, ok |-> TRUE]
<1>3. job["console"].mode = "idle" /\ Starts("console", j)
      /\ UNCHANGED <<tubes, queued, stacks>>
  BY <1>1, <1>2 DEF DirectCall, MayStart
<1>4. j \in Job /\ j.mode = "direct" /\ j.cmd \in Command /\ j.cmd = c /\ j.want = wanted
  BY <1>2, EmptyFunction DEF Job, Modes
<1> HIDE DEF j
<1>5. HasBegun("console", j)
  BY <1>3, <1>4 DEF HasBegun
<1> QED BY <1>2, <1>3, <1>4, <1>5

LEMMA DirectCallInv ==
    ASSUME IInv, DirectCall
    PROVE  IInv'
<1>1. PICK j : HasBegun("console", j)
  BY DirectCallDoes
<1>2. UNCHANGED <<tubes, queued, stacks>>
  BY DirectCallDoes
<1>3. JobsInv' /\ HoldInv' /\ job'["api"] = job["api"]
  BY <1>1, <1>2, BegunJob, BegunHold DEF IInv, Workers
<1>4. TubesType' /\ EmptyInv'
  BY <1>2 DEF IInv, TubesType, EmptyInv, tubes
<1>5. StacksInv'
  BY <1>2, <1>3 DEF IInv, StacksInv, stacks
<1> QED BY <1>3, <1>4, <1>5 DEF IInv

\* What comes on a stack.
LEMMA EntryType ==
    ASSUME JobsInv, NEW w \in Workers, job[w].mode \in {"execute", "undo", "redo"}
    PROVE  EntryOf(w) \in Entries
<1>1. job[w] \in Job /\ job[w].cmd \in Command /\ Shaped(job[w])
  BY DEF JobsInv
<1> QED BY <1>1 DEF EntryOf, Entries, Shaped, Job

LEMMA PushedStack ==
    ASSUME NEW S, NEW stack \in Seq(S), Len(stack) <= MaxUndo, NEW w, EntryOf(w) \in S
    PROVE  /\ Pushed(stack, w) \in Seq(S) /\ Len(Pushed(stack, w)) <= MaxUndo
           /\ Range(Pushed(stack, w)) \subseteq Range(stack) \cup {EntryOf(w)}
<1>1. PICK e \in S : e = EntryOf(w)
  OBVIOUS
<1>2. /\ Append(stack, e) \in Seq(S) /\ Len(Append(stack, e)) = Len(stack) + 1
      /\ Range(Append(stack, e)) = Range(stack) \cup {e}
  BY Appended
<1>3. PICK longer \in Seq(S) : longer = Append(stack, e)
  BY <1>2
<1>4. Len(longer) = Len(stack) + 1 /\ Range(longer) = Range(stack) \cup {e}
      /\ Len(stack) \in Nat /\ MaxUndo \in Nat
      /\ Pushed(stack, w) = IF Len(longer) > MaxUndo THEN Tail(longer) ELSE longer
  BY <1>1, <1>2, <1>3, MaxUndoAssumption, LenProperties DEF Pushed
<1>5. CASE Len(longer) > MaxUndo
  <2>1. longer # <<>>
    BY <1>4, EmptySeq
  <2>2. /\ Tail(longer) \in Seq(S) /\ Len(Tail(longer)) = Len(longer) - 1
        /\ Range(longer) = {Head(longer)} \cup Range(Tail(longer))
    BY <2>1, Tailed
  <2> QED BY <1>1, <1>4, <1>5, <2>2
<1>6. CASE ~(Len(longer) > MaxUndo)
  BY <1>1, <1>4, <1>6
<1> QED BY <1>5, <1>6

\* w is idle again.
HasReturned(w) ==
    job[w].want = <<>> /\ job[w].mode # "idle" /\ Starts(w, Idle)

LEMMA ReturnedJob ==
    ASSUME TubesType, JobsInv, HoldInv, NEW w \in Workers, HasReturned(w),
           UNCHANGED <<tubes, queued>>
    PROVE  /\ JobsInv' /\ HoldInv' /\ TubesType'
           /\ job'[w] = Idle /\ \A v \in Workers \ {w} : job'[v] = job[v]
<1>1. Idle \in Job /\ Idle.mode = "idle" /\ Idle.want = <<>>
  BY EmptyFunction DEF Idle, Job, Modes
<1>2. /\ job' \in [Workers -> Job] /\ job'[w] = Idle
      /\ \A v \in Workers \ {w} : job'[v] = job[v]
  BY <1>1 DEF HasReturned, JobsInv, Starts
<1>3. JobsInv'
  <2>1. /\ job'["processor"].mode \in {"idle", "execute"}
        /\ job'["api"].mode \in {"idle", "undo", "redo"}
        /\ job'["console"].mode \in {"idle", "direct"}
    BY <1>1, <1>2 DEF JobsInv, Workers
  <2>2. ASSUME NEW v \in Workers
        PROVE  /\ job'[v].mode = "idle" => job'[v].want = <<>>
               /\ job'[v].mode # "idle" => job'[v].cmd \in Command
               /\ job'[v].mode \in {"execute", "undo", "redo"} => Shaped(job'[v])
    BY <1>1, <1>2 DEF JobsInv
  <2> QED BY <1>2, <2>1, <2>2 DEF JobsInv
<1>4. \A u \in Tubes : holder[u] # w
  <2>1. job[w].want = <<>> /\ DOMAIN <<>> = {}
    BY EmptyFunction DEF HasReturned
  <2>2. w # Nobody
    BY DEF Workers, Nobody
  <2> QED BY <2>1, <2>2 DEF HoldInv
<1>5. \A u \in Tubes : holder[u] # Nobody => holder[u] \in Workers \ {w}
  BY <1>4 DEF TubesType
<1>6. HoldInv' /\ TubesType'
  BY <1>2, <1>5 DEF HoldInv, TubesType, tubes
<1> QED BY <1>2, <1>3, <1>6

LEMMA ReturnFromExecuteInv ==
    ASSUME IInv, ReturnFromExecute
    PROVE  IInv'
<1>1. HasReturned("processor") /\ UNCHANGED <<tubes, queued>>
  BY DEF ReturnFromExecute, Done, HasReturned
<1>2. JobsInv' /\ HoldInv' /\ TubesType' /\ job'["api"] = job["api"]
  BY <1>1, ReturnedJob DEF IInv, Workers
<1>3. EmptyInv'
  BY <1>1 DEF IInv, EmptyInv, tubes
<1>4. StacksInv'
  <2>1. CASE UNCHANGED stacks
    BY <1>2, <2>1 DEF IInv, StacksInv, stacks
  <2>2. CASE /\ job["api"].mode = "idle"
             /\ undoStack' = Pushed(undoStack, "processor") /\ redoStack' = <<>>
    <3>1. job["processor"].mode \in {"execute", "undo", "redo"}
      BY DEF IInv, JobsInv, ReturnFromExecute, Done
    <3>2. EntryOf("processor") \in Entries
      BY <3>1, EntryType DEF IInv, Workers
    <3>3. undoStack' \in Seq(Entries) /\ Len(undoStack') <= MaxUndo
      BY <2>2, <3>2, PushedStack DEF IInv, StacksInv
    <3>4. redoStack' \in Seq(Entries) /\ Len(redoStack') <= MaxUndo
      BY <2>2, EmptySeq, MaxUndoAssumption
    <3> QED BY <1>2, <2>2, <3>3, <3>4 DEF StacksInv
  <2> QED BY <2>1, <2>2 DEF ReturnFromExecute
<1> QED BY <1>2, <1>3, <1>4 DEF IInv

\* A command that could not be undone, or redone, comes back where it was.
LEMMA PutBack ==
    ASSUME NEW stack \in Seq(Entries), Len(stack) < MaxUndo, NEW w, EntryOf(w) \in Entries
    PROVE  /\ Append(stack, EntryOf(w)) \in Seq(Entries)
           /\ Len(Append(stack, EntryOf(w))) <= MaxUndo
           /\ Range(Append(stack, EntryOf(w))) = Range(stack) \cup {EntryOf(w)}
<1>1. PICK e \in Entries : e = EntryOf(w)
  OBVIOUS
<1>2. /\ Append(stack, e) \in Seq(Entries) /\ Len(Append(stack, e)) = Len(stack) + 1
      /\ Range(Append(stack, e)) = Range(stack) \cup {e}
  BY Appended
<1>3. Len(stack) \in Nat /\ MaxUndo \in Nat
  BY MaxUndoAssumption, LenProperties
<1> QED BY <1>1, <1>2, <1>3

LEMMA ReturnFromUndoInv ==
    ASSUME IInv, ReturnFromUndo
    PROVE  IInv'
<1>1. HasReturned("api") /\ job["api"].mode = "undo" /\ UNCHANGED <<tubes, queued>>
  BY DEF ReturnFromUndo, Done, HasReturned
<1>2. JobsInv' /\ HoldInv' /\ TubesType' /\ job'["api"] = Idle
  BY <1>1, ReturnedJob DEF IInv, Workers
<1>3. EmptyInv'
  BY <1>1 DEF IInv, EmptyInv, tubes
<1>4. EntryOf("api") \in Entries
  BY <1>1, EntryType DEF IInv, Workers
<1>5. StacksInv'
  <2>1. job'["api"].mode = "idle"
    BY <1>2 DEF Idle
  <2>2. CASE redoStack' = Pushed(redoStack, "api") /\ UNCHANGED undoStack
    <3>1. redoStack' \in Seq(Entries) /\ Len(redoStack') <= MaxUndo
      BY <1>4, <2>2, PushedStack DEF IInv, StacksInv
    <3> QED BY <2>1, <2>2, <3>1 DEF IInv, StacksInv
  <2>3. CASE undoStack' = Append(undoStack, EntryOf("api")) /\ UNCHANGED redoStack
    <3>1. undoStack' \in Seq(Entries) /\ Len(undoStack') <= MaxUndo
      BY <1>1, <1>4, <2>3, PutBack DEF IInv, StacksInv
    <3> QED BY <2>1, <2>3, <3>1 DEF IInv, StacksInv
  <2> QED BY <2>2, <2>3 DEF ReturnFromUndo
<1> QED BY <1>2, <1>3, <1>5 DEF IInv

LEMMA ReturnFromRedoInv ==
    ASSUME IInv, ReturnFromRedo
    PROVE  IInv'
<1>1. HasReturned("api") /\ job["api"].mode = "redo" /\ UNCHANGED <<tubes, queued>>
  BY DEF ReturnFromRedo, Done, HasReturned
<1>2. JobsInv' /\ HoldInv' /\ TubesType' /\ job'["api"] = Idle
  BY <1>1, ReturnedJob DEF IInv, Workers
<1>3. EmptyInv'
  BY <1>1 DEF IInv, EmptyInv, tubes
<1>4. EntryOf("api") \in Entries
  BY <1>1, EntryType DEF IInv, Workers
<1>5. StacksInv'
  <2>1. job'["api"].mode = "idle"
    BY <1>2 DEF Idle
  <2>2. CASE undoStack' = Pushed(undoStack, "api") /\ UNCHANGED redoStack
    <3>1. undoStack' \in Seq(Entries) /\ Len(undoStack') <= MaxUndo
      BY <1>4, <2>2, PushedStack DEF IInv, StacksInv
    <3> QED BY <2>1, <2>2, <3>1 DEF IInv, StacksInv
  <2>3. CASE redoStack' = Append(redoStack, EntryOf("api")) /\ UNCHANGED undoStack
    <3>1. redoStack' \in Seq(Entries) /\ Len(redoStack') <= MaxUndo
      BY <1>1, <1>4, <2>3, PutBack DEF IInv, StacksInv
    <3> QED BY <2>1, <2>3, <3>1 DEF IInv, StacksInv
  <2> QED BY <2>2, <2>3 DEF ReturnFromRedo
<1> QED BY <1>2, <1>3, <1>5 DEF IInv

LEMMA ReturnFromDirectInv ==
    ASSUME IInv, ReturnFromDirect
    PROVE  IInv'
<1>1. HasReturned("console") /\ UNCHANGED <<tubes, queued, stacks>>
  BY DEF ReturnFromDirect, Done, HasReturned
<1>2. JobsInv' /\ HoldInv' /\ TubesType' /\ job'["api"] = job["api"]
  BY <1>1, ReturnedJob DEF IInv, Workers
<1>3. EmptyInv' /\ StacksInv'
  BY <1>1, <1>2 DEF IInv, EmptyInv, StacksInv, tubes, stacks
<1> QED BY <1>2, <1>3 DEF IInv

----------------------------------------------------------------------------
(* The types *)

LEMMA InitInv == Init => IInv
<1> SUFFICES ASSUME Init PROVE IInv
  OBVIOUS
<1>1. Idle \in Job /\ Idle.mode = "idle" /\ Idle.want = <<>>
  BY EmptyFunction DEF Idle, Job, Modes
<1>2. job \in [Workers -> Job] /\ \A w \in Workers : job[w] = Idle
  BY <1>1 DEF Init
<1>3. JobsInv
  BY <1>1, <1>2 DEF JobsInv, Workers
<1>4. StacksInv
  BY <1>1, <1>2, EmptySeq, MaxUndoAssumption DEF Init, StacksInv, Workers
<1>5. TubesType /\ HoldInv /\ EmptyInv
  BY DEF Init, TubesType, HoldInv, EmptyInv, States, AnyRoute
<1> QED BY <1>3, <1>4, <1>5 DEF IInv

\* The tubes that others have changed.
LEMMA TouchType ==
    ASSUME BesideInv, NEW w, NEW t \in Tubes, Touch(w, t)
    PROVE  touched' \in [Workers -> SUBSET Tubes]
BY DEF BesideInv, Touch

LEMMA StartsType ==
    ASSUME BesideInv, NEW w \in Workers, NEW j, Starts(w, j)
    PROVE  touched' \in [Workers -> SUBSET Tubes]
BY DEF BesideInv, Starts

LEMMA NextBeside == IInv /\ BesideInv /\ [Next]_vars => BesideInv'
<1> SUFFICES ASSUME IInv, BesideInv, [Next]_vars PROVE BesideInv'
  OBVIOUS
<1>1. CASE EnqueueCommand
  BY <1>1 DEF EnqueueCommand, BesideInv
<1>2. CASE ExecuteCommand \/ UndoLastCommand \/ RedoCommand \/ DirectCall \/ Return
  <2>1. \E w \in Workers : \E j : Starts(w, j)
    BY <1>2 DEF ExecuteCommand, UndoLastCommand, RedoCommand, DirectCall, Return,
       ReturnFromExecute, ReturnFromUndo, ReturnFromRedo, ReturnFromDirect, Workers
  <2>2. update' = update
    BY <1>2 DEF ExecuteCommand, UndoLastCommand, RedoCommand, DirectCall, Return,
       ReturnFromExecute, ReturnFromUndo, ReturnFromRedo, ReturnFromDirect
  <2> QED BY <2>1, <2>2, StartsType DEF BesideInv
<1>3. ASSUME NEW w \in Workers, NEW t \in Tubes,
             \/ EmergencyStop(w, t) \/ AssignWeapon(w, t) \/ InitializeWeapon(w, t)
             \/ UnassignWeapon(w, t)
             \/ UpdateWaypoints(w, t) \/ RequestRefused(w, t) \/ TurnOff(w, t)
             \/ BeginRequest(w, t) \/ FinishRequest(w, t)
      PROVE  BesideInv'
  <2>1. UNCHANGED touched \/ Touch(w, t)
    BY <1>3 DEF EmergencyStop, AssignWeapon, InitializeWeapon, UnassignWeapon,
       UpdateWaypoints, RequestRefused, TurnOff, BeginRequest, FinishRequest
  <2>2. UNCHANGED update \/ update' = NoUpdate
    BY <1>3 DEF EmergencyStop, AssignWeapon, InitializeWeapon, UnassignWeapon,
       UpdateWaypoints, RequestRefused, TurnOff, BeginRequest, FinishRequest, Forget
  <2> QED BY <2>1, <2>2, TouchType DEF BesideInv
<1>4. ASSUME NEW t \in Tubes, UpdateRead(t)
      PROVE  BesideInv'
  BY <1>4 DEF UpdateRead, BesideInv
<1>5. CASE UpdateStore
  <2>1. update.tube \in Tubes /\ (UNCHANGED touched \/ Touch("periodic", update.tube))
    BY <1>5, UpdateStoreDoes
  <2> QED BY <1>5, <2>1, TouchType DEF UpdateStore, BesideInv
<1>6. CASE UNCHANGED vars
  BY <1>6 DEF vars, BesideInv
<1> QED BY <1>1, <1>2, <1>3, <1>4, <1>5, <1>6 DEF Next

LEMMA NextInv == IInv /\ BesideInv /\ [Next]_vars => IInv'
<1> SUFFICES ASSUME IInv, BesideInv, [Next]_vars PROVE IInv'
  OBVIOUS
<1>1. CASE EnqueueCommand
  BY <1>1, EnqueueCommandInv
<1>2. CASE ExecuteCommand
  BY <1>2, ExecuteCommandInv
<1>3. CASE UndoLastCommand
  BY <1>3, UndoLastCommandInv
<1>4. CASE RedoCommand
  BY <1>4, RedoCommandInv
<1>5. CASE DirectCall
  BY <1>5, DirectCallInv
<1>6. ASSUME NEW w \in Workers, NEW t \in Tubes,
             \/ EmergencyStop(w, t) \/ AssignWeapon(w, t) \/ InitializeWeapon(w, t)
             \/ UnassignWeapon(w, t)
             \/ UpdateWaypoints(w, t) \/ RequestRefused(w, t) \/ TurnOff(w, t)
             \/ BeginRequest(w, t) \/ FinishRequest(w, t)
      PROVE  IInv'
  BY <1>6, EmergencyStopInv, AssignWeaponInv, InitializeWeaponInv, UnassignWeaponInv,
     UpdateWaypointsInv, RequestRefusedInv, TurnOffInv, BeginRequestInv, FinishRequestInv
<1>7. CASE UpdateStore \/ \E t \in Tubes : UpdateRead(t)
  BY <1>7, UpdateStoreInv, UpdateReadInv
<1>8. CASE Return
  BY <1>8, ReturnFromExecuteInv, ReturnFromUndoInv, ReturnFromRedoInv, ReturnFromDirectInv
     DEF Return
<1>9. CASE UNCHANGED vars
  BY <1>9 DEF IInv, TubesType, JobsInv, StacksInv, HoldInv, EmptyInv, vars, tubes, stacks
<1> QED BY <1>1, <1>2, <1>3, <1>4, <1>5, <1>6, <1>7, <1>8, <1>9 DEF Next

\* In every run, however many calls there are at a time, IInv holds.
THEOREM Invariance == Spec => [](IInv /\ BesideInv)
<1>1. Init => BesideInv
  BY DEF Init, BesideInv
<1> QED BY <1>1, InitInv, NextInv, NextBeside, PTL DEF Spec

\* What is made of the waypoints of a message is made of waypoints.
ConversionsTyped ==
    \A m \in Messages :
        ExtractWaypointsFromMessage(m) \in Seq(Waypoint) /\ MessageWaypoints(m) \in Seq(Waypoint)

LEMMA TypesFollow ==
    ASSUME ConversionsTyped, IInv, BesideInv
    PROVE  TypeOK
<1>1. \A r \in AnyRoute : r \in Seq(Waypoint)
  BY EmptySeq DEF AnyRoute, ConversionsTyped
<1>2. \A t \in Tubes : route[t] \in Seq(Waypoint)
  BY <1>1 DEF IInv, TubesType
<1>3. ASSUME NEW w \in Workers
      PROVE  /\ job[w].mode \in {"idle", "execute", "undo", "redo", "direct"}
             /\ \A t \in DOMAIN job[w].want : job[w].want[t].ask \in Asking
  BY RequestKinds, WantsShape DEF IInv, JobsInv, Job, Modes
<1>4. ASSUME NEW e \in Entries
      PROVE  Entry(e)
  <2>1. e.cmd \in Command /\ e.previous \in Recordings /\ Shaped(e)
    BY DEF Entries
  <2>2. DOMAIN e.previous \subseteq Tubes
    BY <2>1, RecordingsShape
  <2>3. \A t \in DOMAIN e.previous : e.previous[t] \in Recorded(e)
    BY <1>1, <2>1 DEF Shaped, Recorded
  <2> QED BY <2>1, <2>2, <2>3 DEF Entry
<1>5. /\ Len(undoStack) <= MaxUndo /\ \A i \in DOMAIN undoStack : Entry(undoStack[i])
      /\ Len(redoStack) <= MaxUndo /\ \A i \in DOMAIN redoStack : Entry(redoStack[i])
  <2>1. /\ \A i \in DOMAIN undoStack : undoStack[i] \in Entries
        /\ \A i \in DOMAIN redoStack : redoStack[i] \in Entries
    BY ElementOfSeq, LenProperties DEF IInv, StacksInv
  <2> QED BY <1>4, <2>1 DEF IInv, StacksInv
<1> QED BY <1>2, <1>3, <1>5 DEF IInv, BesideInv, TubesType, HoldInv, EmptyInv, TypeOK

\* The types of the variables, provided that filtering the waypoints of a message
\* gives waypoints.
THEOREM TypeCorrect ==
    ASSUME ConversionsTyped
    PROVE  Spec => []TypeOK
<1>1. IInv /\ BesideInv => TypeOK
  BY TypesFollow
<1> QED BY <1>1, Invariance, PTL

----------------------------------------------------------------------------
(* What an undo and an emergency stop have done so far, whatever runs beside them *)

Restored(w, t) ==
    CASE job[w].cmd.kind = "waypoints" -> route[t] = job[w].previous[t]
      [] job[w].cmd.kind = "assign" -> weapon[t] = "NONE"
      [] OTHER -> job[w].previous[t] # "LAUNCH" =>
                     Up(weapon[t]) = Up(job[w].previous[t])

\* An undo asks for what was recorded; where it no longer asks, that is what there
\* is, if none of its requests failed and nobody else has been there.
UndoOf(w) ==
    job[w].mode = "undo" =>
        /\ \A t \in DOMAIN job[w].want :
              /\ t \in DOMAIN job[w].previous /\ job[w].want[t] = Undoes(job[w], t)
              /\ job[w].cmd.kind # "unassign"
        /\ job[w].ok /\ job[w].cmd.kind # "unassign" =>
              \A t \in DOMAIN job[w].previous \ (DOMAIN job[w].want \cup touched[w]) :
                  Restored(w, t)

\* An emergency stop asks every assigned tube; where it no longer asks, the weapon
\* is off, if none of its requests failed and nobody else has been there.
HaltOf(w) ==
    job[w].mode \in {"execute", "redo", "direct"} /\ job[w].cmd.kind = "stop" =>
        /\ \A t \in DOMAIN job[w].want :
              job[w].want[t] \in {[ask |-> "stop"], State("OFF"), State("ABORT")}
        /\ job[w].ok =>
              \A t \in Assigned \ (DOMAIN job[w].want \cup touched[w]) : weapon[t] = "OFF"

CallInv == \A w \in Workers : UndoOf(w) /\ HaltOf(w)

\* What a step of w changes at a tube, the other threads count as touched.
Elsewhere(w) ==
    \A v \in Workers \ {w} : job[v].mode # "idle" =>
        /\ touched[v] \subseteq touched'[v]
        /\ \A u \in Tubes \ touched'[v] : weapon'[u] = weapon[u] /\ route'[u] = route[u]

LEMMA TouchIsElsewhere ==
    ASSUME NEW w \in Workers, NEW t \in Tubes, BesideInv, Touch(w, t),
           \A u \in Tubes \ {t} : weapon'[u] = weapon[u] /\ route'[u] = route[u]
    PROVE  Elsewhere(w) /\ touched'[w] = touched[w]
BY DEF Touch, BesideInv, Elsewhere

LEMMA NothingIsElsewhere ==
    ASSUME NEW w \in Workers, UNCHANGED <<weapon, route, touched>>
    PROVE  Elsewhere(w) /\ touched'[w] = touched[w]
BY DEF Elsewhere

LEMMA OthersStay ==
    ASSUME IInv, CallInv, NEW w \in Workers, Elsewhere(w),
           NEW v \in Workers \ {w}, job'[v] = job[v]
    PROVE  (UndoOf(v) /\ HaltOf(v))'
<1>1. UndoOf(v) /\ HaltOf(v) /\ DOMAIN job[v].previous \subseteq Tubes
  BY RecordingsShape DEF CallInv, IInv, JobsInv, Job
<1>2. ASSUME job[v].mode # "idle"
      PROVE  /\ touched[v] \subseteq touched'[v]
             /\ \A u \in Tubes \ touched'[v] : weapon'[u] = weapon[u] /\ route'[u] = route[u]
  BY <1>2 DEF Elsewhere
<1>3. UndoOf(v)'
  <2> SUFFICES ASSUME job[v].mode = "undo" PROVE UndoOf(v)'
    BY DEF UndoOf
  <2>1. \A u : Undoes(job'[v], u) = Undoes(job[v], u)
    OBVIOUS
  <2>2. \A u \in DOMAIN job[v].previous \ touched'[v] : Restored(v, u) => Restored(v, u)'
    BY <1>1, <1>2 DEF Restored
  <2> QED BY <1>1, <1>2, <2>1, <2>2 DEF UndoOf
<1>4. HaltOf(v)'
  <2> SUFFICES ASSUME job[v].mode \in {"execute", "redo", "direct"} PROVE HaltOf(v)'
    BY DEF HaltOf
  <2>1. \A u \in Assigned' \ touched'[v] :
           u \in Assigned \ touched[v] /\ weapon'[u] = weapon[u]
    BY <1>2 DEF Assigned
  <2> QED BY <1>1, <2>1 DEF HaltOf
<1> QED BY <1>3, <1>4

LEMMA CallGoesOn ==
    ASSUME IInv, CallInv, NEW w \in Workers, Elsewhere(w),
           \A v \in Workers \ {w} : job'[v] = job[v], (UndoOf(w) /\ HaltOf(w))'
    PROVE  CallInv'
BY OthersStay DEF CallInv

----------------------------------------------------------------------------
(* They are preserved: a request at a tube *)

\* A tube that has answered an undo is as it was recorded, unless the request failed.
LEMMA UndoGoesOn ==
    ASSUME NEW w \in Workers, NEW t \in DOMAIN job[w].want, NEW success,
           HasAnswered(w, t, success), UndoOf(w), touched'[w] = touched[w],
           \A u \in Tubes \ {t} : weapon'[u] = weapon[u] /\ route'[u] = route[u],
           DOMAIN job[w].previous \subseteq Tubes,
           job[w].mode = "undo" /\ success => Restored(w, t)'
    PROVE  UndoOf(w)'
<1> SUFFICES ASSUME job'[w].mode = "undo" PROVE UndoOf(w)'
  BY DEF UndoOf
<1>1. /\ job[w].mode = "undo" /\ job'[w].cmd = job[w].cmd
      /\ job'[w].previous = job[w].previous
      /\ DOMAIN job'[w].want = DOMAIN job[w].want \ {t}
      /\ \A u \in DOMAIN job[w].want \ {t} : job'[w].want[u] = job[w].want[u]
      /\ job'[w].ok => job[w].ok /\ success
  BY DEF HasAnswered, GoesOn
<1>2. \A u : Undoes(job'[w], u) = Undoes(job[w], u)
  BY <1>1 DEF Undoes
<1>3. \A u \in DOMAIN job'[w].want :
        /\ u \in DOMAIN job'[w].previous /\ job'[w].want[u] = Undoes(job'[w], u)
        /\ job'[w].cmd.kind # "unassign"
  BY <1>1, <1>2 DEF UndoOf
<1>4. ASSUME job'[w].ok, job'[w].cmd.kind # "unassign",
             NEW u \in DOMAIN job'[w].previous \ (DOMAIN job'[w].want \cup touched'[w])
      PROVE  Restored(w, u)'
  <2>1. CASE u = t
    BY <1>1, <1>4, <2>1
  <2>2. CASE u # t
    <3>1. Restored(w, u) /\ u \in Tubes
      BY <1>1, <1>4, <2>2 DEF UndoOf
    <3> QED BY <1>1, <2>2, <3>1 DEF Restored
  <2> QED BY <2>1, <2>2
<1> QED BY <1>3, <1>4 DEF UndoOf

\* What an undo asks.
LEMMA UndoAsks ==
    ASSUME IInv, CallInv, NEW w \in Workers, NEW t \in DOMAIN job[w].want,
           job[w].mode = "undo"
    PROVE  \/ job[w].want[t].ask = "unassign" /\ job[w].cmd.kind = "assign"
           \/ /\ job[w].want[t].ask = "route" /\ job[w].cmd.kind = "waypoints"
              /\ job[w].want[t].route = job[w].previous[t]
           \/ /\ job[w].want[t] = State(job[w].previous[t])
              /\ job[w].want[t].ask = "state"
              /\ job[w].cmd.kind \notin {"assign", "waypoints"}
<1>1. job[w].want[t] = Undoes(job[w], t)
  BY DEF CallInv, UndoOf
<1>2. CASE job[w].cmd.kind = "assign"
  BY <1>1, <1>2 DEF Undoes
<1>3. CASE job[w].cmd.kind = "waypoints"
  BY <1>1, <1>3 DEF Undoes
<1>4. CASE job[w].cmd.kind \notin {"assign", "waypoints"}
  <2>1. job[w].want[t] = State(job[w].previous[t])
    BY <1>1, <1>4 DEF Undoes
  <2> QED BY <1>4, <2>1, RequestKinds
<1> QED BY <1>2, <1>3, <1>4

\* An emergency stop asks for nothing but to stop, switch off or abort.
LEMMA HaltAsks ==
    ASSUME CallInv, NEW w \in Workers, NEW t \in DOMAIN job[w].want,
           job[w].mode \in {"execute", "redo", "direct"}, job[w].cmd.kind = "stop"
    PROVE  /\ job[w].want[t].ask \in {"stop", "state"}
           /\ job[w].want[t] \notin {State("ON"), State("LAUNCH")}
<1>1. job[w].want[t] \in {[ask |-> "stop"], State("OFF"), State("ABORT")}
  BY DEF CallInv, HaltOf
<1>2. /\ \A s \in {"OFF", "ABORT"} : State(s).ask = "state"
      /\ \A s \in {"OFF", "ABORT"}, r \in {"ON", "LAUNCH"} : State(s) # State(r)
      /\ \A r \in {"ON", "LAUNCH"} : [ask |-> "stop"].ask # State(r).ask
  BY RequestKinds
<1> QED BY <1>1, <1>2

LEMMA HaltsNot ==
    ASSUME CallInv, NEW w \in Workers, NEW t \in DOMAIN job[w].want, GoesOn(w),
           \/ job[w].want[t].ask \notin {"stop", "state"}
           \/ job[w].want[t] \in {State("ON"), State("LAUNCH")}
    PROVE  HaltOf(w)'
BY HaltAsks DEF HaltOf, GoesOn

LEMMA UndoesNot ==
    ASSUME IInv, CallInv, NEW w \in Workers, NEW t \in DOMAIN job[w].want, GoesOn(w),
           job[w].want[t].ask \in {"stop", "assign", "initialize"}
    PROVE  UndoOf(w)'
BY UndoAsks DEF UndoOf, GoesOn

\* An emergency stop has its answer from tube t: a failure, or the weapon is off.
LEMMA HaltGoesOn ==
    ASSUME IInv, CallInv, NEW w \in Workers, NEW t \in DOMAIN job[w].want, NEW success,
           HasAnswered(w, t, success), success => weapon'[t] = "OFF",
           touched'[w] = touched[w], \A u \in Tubes \ {t} : weapon'[u] = weapon[u]
    PROVE  HaltOf(w)'
<1> SUFFICES ASSUME job'[w].mode \in {"execute", "redo", "direct"}, job'[w].cmd.kind = "stop"
             PROVE  /\ \A u \in DOMAIN job'[w].want : job'[w].want[u] \in
                          {[ask |-> "stop"], State("OFF"), State("ABORT")}
                    /\ job'[w].ok =>
                          \A u \in Assigned' \ (DOMAIN job'[w].want \cup touched'[w]) :
                              weapon'[u] = "OFF"
  BY DEF HaltOf
<1>1. /\ job[w].mode \in {"execute", "redo", "direct"} /\ job[w].cmd.kind = "stop"
      /\ DOMAIN job'[w].want = DOMAIN job[w].want \ {t}
      /\ \A u \in DOMAIN job[w].want \ {t} : job'[w].want[u] = job[w].want[u]
      /\ job'[w].ok => job[w].ok /\ success
  BY DEF HasAnswered, GoesOn
<1>2. /\ \A u \in DOMAIN job[w].want : job[w].want[u] \in
             {[ask |-> "stop"], State("OFF"), State("ABORT")}
      /\ job[w].ok =>
            \A u \in Assigned \ (DOMAIN job[w].want \cup touched[w]) : weapon[u] = "OFF"
  BY <1>1 DEF CallInv, HaltOf
<1>3. ASSUME job'[w].ok, NEW u \in Assigned' \ (DOMAIN job'[w].want \cup touched'[w])
      PROVE  weapon'[u] = "OFF"
  <2>1. CASE u = t
    BY <1>1, <1>3, <2>1
  <2>2. CASE u # t
    <3>1. u \in Assigned \ (DOMAIN job[w].want \cup touched[w]) /\ weapon'[u] = weapon[u]
      BY <1>1, <2>2 DEF Assigned
    <3> QED BY <1>1, <1>2, <1>3, <3>1
  <2> QED BY <2>1, <2>2
<1> QED BY <1>1, <1>2, <1>3

\* Tube t has answered w.
LEMMA AnsweredCall ==
    ASSUME IInv, CallInv, NEW w \in Workers, NEW t \in DOMAIN job[w].want, NEW success,
           HasAnswered(w, t, success), Elsewhere(w), touched'[w] = touched[w],
           \A u \in Tubes \ {t} : weapon'[u] = weapon[u] /\ route'[u] = route[u],
           job[w].mode = "undo" /\ success => Restored(w, t)', HaltOf(w)'
    PROVE  CallInv'
<1>1. \A v \in Workers \ {w} : job'[v] = job[v]
  BY DEF HasAnswered, GoesOn
<1>2. DOMAIN job[w].previous \subseteq Tubes /\ UndoOf(w)
  BY RecordingsShape DEF IInv, JobsInv, Job, CallInv
<1>3. UndoOf(w)'
  BY <1>2, UndoGoesOn
<1> QED BY <1>1, <1>3, CallGoesOn

LEMMA EmergencyStopCall ==
    ASSUME IInv, CallInv, NEW w \in Workers, NEW t \in Tubes, EmergencyStop(w, t)
    PROVE  CallInv'
<1>1. /\ t \in DOMAIN job[w].want /\ job[w].want[t].ask = "stop"
      /\ UNCHANGED <<tubes, queued, touched, stacks>>
  BY EmergencyStopDoes
<1>2. PICK request \in {State("OFF"), State("ABORT")} : HasChanged(w, t, request)
  BY EmergencyStopDoes
<1>3. GoesOn(w) /\ \A v \in Workers \ {w} : job'[v] = job[v]
  BY <1>2 DEF HasChanged, GoesOn
<1>4. UndoOf(w)'
  BY <1>1, <1>3, UndoesNot
<1>5. HaltOf(w)'
  <2>1. HaltOf(w) /\ weapon' = weapon /\ touched' = touched /\ Assigned' = Assigned
    BY <1>1 DEF CallInv, tubes, Assigned
  <2>2. /\ job'[w].mode = job[w].mode /\ job'[w].cmd = job[w].cmd
        /\ job'[w].ok = job[w].ok /\ DOMAIN job'[w].want = DOMAIN job[w].want
        /\ \A u \in DOMAIN job[w].want : IF u = t THEN job'[w].want[u] = request
                                                  ELSE job'[w].want[u] = job[w].want[u]
    BY <1>1, <1>2 DEF HasChanged, GoesOn
  <2> QED BY <2>1, <2>2 DEF HaltOf
<1>6. Elsewhere(w)
  BY <1>1, NothingIsElsewhere DEF tubes
<1> QED BY <1>3, <1>4, <1>5, <1>6, CallGoesOn

LEMMA AssignWeaponCall ==
    ASSUME IInv, BesideInv, CallInv, NEW w \in Workers, NEW t \in Tubes, AssignWeapon(w, t)
    PROVE  CallInv'
<1>1. t \in DOMAIN job[w].want /\ job[w].want[t].ask = "assign" /\ route' = route
  BY AssignWeaponDoes
<1>2. PICK request, success : HasChanged(w, t, request) \/ HasAnswered(w, t, success)
  BY AssignWeaponDoes
<1>3. GoesOn(w) /\ \A v \in Workers \ {w} : job'[v] = job[v]
  BY <1>2 DEF HasChanged, HasAnswered, GoesOn
<1>4. Elsewhere(w)
  <2>1. CASE UNCHANGED <<weapon, touched>>
    BY <1>1, <2>1, NothingIsElsewhere
  <2>2. CASE Touch(w, t) /\ \A u \in Tubes \ {t} : weapon'[u] = weapon[u]
    BY <1>1, <2>2, TouchIsElsewhere
  <2> QED BY <2>1, <2>2, AssignWeaponDoes
<1>5. UndoOf(w)' /\ HaltOf(w)'
  BY <1>1, <1>3, UndoesNot, HaltsNot
<1> QED BY <1>3, <1>4, <1>5, CallGoesOn

LEMMA InitializeWeaponCall ==
    ASSUME IInv, BesideInv, CallInv, NEW w \in Workers, NEW t \in Tubes,
           InitializeWeapon(w, t)
    PROVE  CallInv'
<1>1. /\ t \in DOMAIN job[w].want /\ job[w].want[t].ask = "initialize" /\ route' = route
      /\ \A u \in Tubes \ {t} : weapon'[u] = weapon[u]
  BY InitializeWeaponDoes
<1>2. GoesOn(w) /\ \A v \in Workers \ {w} : job'[v] = job[v]
  BY InitializeWeaponDoes DEF HasAnswered, GoesOn
<1>3. Elsewhere(w)
  <2>1. Touch(w, t)
    BY InitializeWeaponDoes
  <2> QED BY <1>1, <2>1, TouchIsElsewhere
<1>4. UndoOf(w)' /\ HaltOf(w)'
  BY <1>1, <1>2, UndoesNot, HaltsNot
<1> QED BY <1>2, <1>3, <1>4, CallGoesOn

LEMMA UnassignWeaponCall ==
    ASSUME IInv, BesideInv, CallInv, NEW w \in Workers, NEW t \in Tubes, UnassignWeapon(w, t)
    PROVE  CallInv'
<1>1. PICK success \in BOOLEAN : HasAnswered(w, t, success)
  BY UnassignWeaponDoes
<1>2. /\ t \in DOMAIN job[w].want /\ job[w].want[t].ask = "unassign" /\ weapon'[t] = "NONE"
      /\ \A u \in Tubes \ {t} : weapon'[u] = weapon[u] /\ route'[u] = route[u]
  BY UnassignWeaponDoes
<1>3. Elsewhere(w) /\ touched'[w] = touched[w]
  BY <1>2, UnassignWeaponDoes, TouchIsElsewhere
<1>4. GoesOn(w) /\ HaltOf(w)'
  BY <1>1, <1>2, HaltsNot DEF HasAnswered
<1>5. job[w].mode = "undo" => Restored(w, t)'
  <2> SUFFICES ASSUME job[w].mode = "undo" PROVE Restored(w, t)'
    OBVIOUS
  <2>1. job[w].cmd.kind = "assign"
    BY <1>2, UndoAsks
  <2> QED BY <1>2, <1>4, <2>1 DEF Restored, GoesOn
<1> QED BY <1>1, <1>2, <1>3, <1>4, <1>5, AnsweredCall

LEMMA UpdateWaypointsCall ==
    ASSUME IInv, BesideInv, CallInv, NEW w \in Workers, NEW t \in Tubes, UpdateWaypoints(w, t)
    PROVE  CallInv'
<1>1. PICK success \in BOOLEAN :
        /\ success <=> t \in Assigned
        /\ HasAnswered(w, t, success)
  BY UpdateWaypointsDoes
<1>2. /\ t \in DOMAIN job[w].want /\ job[w].want[t].ask = "route"
      /\ route'[t] = IF t \in Assigned THEN job[w].want[t].route ELSE route[t]
      /\ \A u \in Tubes \ {t} : weapon'[u] = weapon[u] /\ route'[u] = route[u]
  BY UpdateWaypointsDoes
<1>3. Elsewhere(w) /\ touched'[w] = touched[w]
  BY <1>2, UpdateWaypointsDoes, TouchIsElsewhere
<1>4. GoesOn(w) /\ HaltOf(w)'
  BY <1>1, <1>2, HaltsNot DEF HasAnswered
<1>5. job[w].mode = "undo" /\ success => Restored(w, t)'
  <2> SUFFICES ASSUME job[w].mode = "undo", success PROVE Restored(w, t)'
    OBVIOUS
  <2>1. job[w].cmd.kind = "waypoints" /\ job[w].want[t].route = job[w].previous[t]
    BY <1>2, UndoAsks
  <2> QED BY <1>1, <1>2, <1>4, <2>1 DEF Restored, GoesOn
<1> QED BY <1>1, <1>2, <1>3, <1>4, <1>5, AnsweredCall

LEMMA RequestRefusedCall ==
    ASSUME IInv, CallInv, NEW w \in Workers, NEW t \in Tubes, RequestRefused(w, t)
    PROVE  CallInv'
<1>1. /\ t \in DOMAIN job[w].want /\ HasAnswered(w, t, FALSE)
      /\ UNCHANGED <<tubes, queued, touched, stacks>>
  BY RequestRefusedDoes
<1>2. /\ \A u \in Tubes \ {t} : weapon'[u] = weapon[u] /\ route'[u] = route[u]
      /\ Elsewhere(w) /\ touched'[w] = touched[w]
  BY <1>1, NothingIsElsewhere DEF tubes
<1>3. HaltOf(w)'
  BY <1>1, <1>2, HaltGoesOn
<1> QED BY <1>1, <1>2, <1>3, AnsweredCall

LEMMA TurnOffCall ==
    ASSUME IInv, BesideInv, CallInv, NEW w \in Workers, NEW t \in Tubes, TurnOff(w, t)
    PROVE  CallInv'
<1>1. /\ t \in DOMAIN job[w].want /\ job[w].want[t] = State("OFF")
      /\ HasAnswered(w, t, TRUE) /\ weapon'[t] = "OFF"
      /\ \A u \in Tubes \ {t} : weapon'[u] = weapon[u] /\ route'[u] = route[u]
  BY TurnOffDoes
<1>2. Elsewhere(w) /\ touched'[w] = touched[w]
  BY <1>1, TurnOffDoes, TouchIsElsewhere
<1>3. GoesOn(w) /\ job[w].want[t].ask = "state"
  BY <1>1, RequestKinds DEF HasAnswered
<1>4. HaltOf(w)'
  BY <1>1, <1>2, HaltGoesOn
<1>5. job[w].mode = "undo" => Restored(w, t)'
  <2> SUFFICES ASSUME job[w].mode = "undo" PROVE Restored(w, t)'
    OBVIOUS
  <2>1. /\ job[w].cmd.kind \notin {"assign", "waypoints"}
        /\ job[w].want[t] = State(job[w].previous[t])
    BY <1>1, <1>3, UndoAsks
  <2>2. job[w].previous[t] = "OFF"
    BY <1>1, <2>1, RequestKinds
  <2> QED BY <1>1, <1>3, <2>1, <2>2 DEF Restored, GoesOn
<1> QED BY <1>1, <1>2, <1>4, <1>5, AnsweredCall

LEMMA BeginRequestCall ==
    ASSUME IInv, BesideInv, CallInv, NEW w \in Workers, NEW t \in Tubes, BeginRequest(w, t)
    PROVE  CallInv'
<1>1. /\ t \in DOMAIN job[w].want /\ job' = job /\ route' = route
      /\ \A u \in Tubes \ {t} : weapon'[u] = weapon[u]
      /\ job[w].want[t] \in {State("ON"), State("LAUNCH")}
  BY BeginRequestDoes
<1>2. Elsewhere(w) /\ touched'[w] = touched[w]
  BY <1>1, BeginRequestDoes, TouchIsElsewhere
<1>3. HaltOf(w)'
  <2>1. GoesOn(w)
    BY <1>1 DEF GoesOn, IInv, JobsInv
  <2> QED BY <1>1, <2>1, HaltsNot
<1>4. UndoOf(w)'
  <2>1. UndoOf(w) /\ DOMAIN job[w].previous \subseteq Tubes
    BY RecordingsShape DEF CallInv, IInv, JobsInv, Job
  <2>2. \A u : Undoes(job'[w], u) = Undoes(job[w], u)
    BY <1>1
  <2>3. \A u \in DOMAIN job[w].previous \ DOMAIN job[w].want :
          Restored(w, u) => Restored(w, u)'
    BY <1>1, <2>1 DEF Restored
  <2> QED BY <1>1, <1>2, <2>1, <2>2, <2>3 DEF UndoOf
<1> QED BY <1>1, <1>2, <1>3, <1>4, CallGoesOn

LEMMA FinishRequestCall ==
    ASSUME IInv, BesideInv, CallInv, NEW w \in Workers, NEW t \in Tubes, FinishRequest(w, t)
    PROVE  CallInv'
<1>1. /\ t \in DOMAIN job[w].want /\ HasAnswered(w, t, TRUE)
      /\ \A u \in Tubes \ {t} : weapon'[u] = weapon[u] /\ route'[u] = route[u]
  BY FinishRequestDoes
<1>2. \/ job[w].want[t] = State("ON") /\ weapon'[t] = "ON"
      \/ job[w].want[t] = State("LAUNCH") /\ weapon'[t] = "POST"
  BY FinishRequestDoes
<1>3. Elsewhere(w) /\ touched'[w] = touched[w]
  BY <1>1, FinishRequestDoes, TouchIsElsewhere
<1>4. GoesOn(w) /\ job[w].want[t].ask = "state"
  BY <1>1, <1>2, RequestKinds DEF HasAnswered
<1>5. HaltOf(w)'
  BY <1>1, <1>2, <1>4, HaltsNot
<1>6. job[w].mode = "undo" => Restored(w, t)'
  <2> SUFFICES ASSUME job[w].mode = "undo" PROVE Restored(w, t)'
    OBVIOUS
  <2>1. /\ job[w].cmd.kind \notin {"assign", "waypoints"}
        /\ job[w].want[t] = State(job[w].previous[t])
    BY <1>1, <1>4, UndoAsks
  <2>2. \/ job[w].previous[t] = "ON" /\ weapon'[t] = "ON"
        \/ job[w].previous[t] = "LAUNCH"
    BY <1>2, <2>1, RequestKinds
  <2> QED BY <1>4, <2>1, <2>2 DEF Restored, GoesOn
<1> QED BY <1>1, <1>3, <1>5, <1>6, AnsweredCall

\* The periodic thread makes ON and RTL of each other; what else it overwrites counts
\* as touched.
LEMMA UpdateStoreCall ==
    ASSUME IInv, BesideInv, CallInv, UpdateStore
    PROVE  CallInv'
<1> DEFINE t == update.tube
<1>1. t \in Tubes /\ route' = route /\ job' = job
      /\ \A u \in Tubes \ {t} : weapon'[u] = weapon[u]
  BY UpdateStoreDoes
<1>2. CASE UNCHANGED <<weapon, touched>>
  BY <1>1, <1>2 DEF CallInv, UndoOf, HaltOf, Restored, Undoes, Assigned
<1>3. CASE Touch("periodic", t)
  <2>1. ASSUME NEW v \in Workers PROVE (UndoOf(v) /\ HaltOf(v))'
    <3>1. "periodic" # v
      BY DEF Workers
    <3>2. touched'[v] = touched[v] \cup (IF job[v].mode # "idle" THEN {t} ELSE {})
      BY <1>3, <3>1 DEF Touch
    <3>3. PICK w \in Workers \ {v} : TRUE
      BY DEF Workers
    <3>4. (UndoOf(v) /\ HaltOf(v))'
      <4>1. UndoOf(v) /\ HaltOf(v) /\ DOMAIN job[v].previous \subseteq Tubes
        BY RecordingsShape DEF CallInv, IInv, JobsInv, Job
      <4>2. UndoOf(v)'
        <5> SUFFICES ASSUME job[v].mode = "undo" PROVE UndoOf(v)'
          BY <1>1 DEF UndoOf
        <5>1. touched'[v] = touched[v] \cup {t}
          BY <3>2
        <5> HIDE DEF t
        <5>2. \A u \in DOMAIN job[v].previous \ touched'[v] :
                 Restored(v, u) => Restored(v, u)'
          BY <1>1, <4>1, <5>1 DEF Restored
        <5>3. \A u : Undoes(job'[v], u) = Undoes(job[v], u)
          BY <1>1
        <5> QED BY <1>1, <4>1, <5>1, <5>2, <5>3 DEF UndoOf
      <4>3. HaltOf(v)'
        <5> SUFFICES ASSUME job[v].mode \in {"execute", "redo", "direct"} PROVE HaltOf(v)'
          BY <1>1 DEF HaltOf
        <5>1. touched'[v] = touched[v] \cup {t}
          BY <3>2
        <5> HIDE DEF t
        <5>2. \A u \in Assigned' \ touched'[v] :
                 u \in Assigned \ touched[v] /\ weapon'[u] = weapon[u]
          BY <1>1, <5>1 DEF Assigned
        <5> QED BY <1>1, <4>1, <5>2 DEF HaltOf
      <4> QED BY <4>2, <4>3
    <3> QED BY <3>4
  <2> QED BY <2>1 DEF CallInv
<1>4. CASE weapon[t] \in {"ON", "RTL"} /\ weapon'[t] \in {"ON", "RTL"} /\ UNCHANGED touched
  <2>1. ASSUME NEW v \in Workers PROVE (UndoOf(v) /\ HaltOf(v))'
    <3>1. UndoOf(v) /\ HaltOf(v) /\ DOMAIN job[v].previous \subseteq Tubes
      BY RecordingsShape DEF CallInv, IInv, JobsInv, Job
    <3> HIDE DEF t
    <3>2. \A u \in Tubes : /\ Up(weapon'[u]) = Up(weapon[u])
                           /\ weapon'[u] = "NONE" <=> weapon[u] = "NONE"
                           /\ weapon[u] = "OFF" => weapon'[u] = "OFF"
      BY <1>1, <1>4 DEF Up
    <3>3. UndoOf(v)'
      <4>1. \A u \in DOMAIN job[v].previous : Restored(v, u) => Restored(v, u)'
        BY <1>1, <3>1, <3>2 DEF Restored
      <4>2. \A u : Undoes(job'[v], u) = Undoes(job[v], u)
        BY <1>1
      <4> QED BY <1>1, <1>4, <3>1, <4>1, <4>2 DEF UndoOf
    <3>4. HaltOf(v)'
      <4>1. Assigned' = Assigned /\ \A u \in Assigned : u \in Tubes
        BY <3>2 DEF Assigned
      <4> QED BY <1>1, <1>4, <3>1, <3>2, <4>1 DEF HaltOf
    <3> QED BY <3>3, <3>4
  <2> QED BY <2>1 DEF CallInv
<1> QED BY <1>2, <1>3, <1>4, UpdateStoreDoes

----------------------------------------------------------------------------
(* They are preserved: the beginning and the end of a job *)

\* What w begins, or ends, does not concern the others.
LEMMA StartsCall ==
    ASSUME IInv, BesideInv, CallInv, NEW w \in Workers, NEW j, Starts(w, j),
           UNCHANGED tubes, (UndoOf(w) /\ HaltOf(w))'
    PROVE  CallInv'
<1>1. \A v \in Workers \ {w} : job'[v] = job[v] /\ touched'[v] = touched[v]
  BY DEF Starts, BesideInv, IInv, JobsInv
<1>2. Elsewhere(w)
  BY <1>1 DEF Elsewhere, tubes
<1> QED BY <1>1, <1>2, CallGoesOn

\* An emergency stop begins by asking every assigned tube.
LEMMA HaltBegins ==
    ASSUME NEW w \in Workers, UNCHANGED tubes,
           job'[w].cmd.kind = "stop" => job'[w].want = OfAll([ask |-> "stop"])
    PROVE  HaltOf(w)'
<1> SUFFICES ASSUME job'[w].cmd.kind = "stop" PROVE HaltOf(w)'
  BY DEF HaltOf
<1>1. /\ DOMAIN job'[w].want = Assigned
      /\ \A t \in Assigned : job'[w].want[t] = [ask |-> "stop"]
  BY OfAllType, RequestTypes
<1>2. Assigned' = Assigned
  BY DEF Assigned, tubes
<1> QED BY <1>1, <1>2 DEF HaltOf

LEMMA ExecuteCommandCall ==
    ASSUME IInv, BesideInv, CallInv, ExecuteCommand
    PROVE  CallInv'
<1>1. PICK c \in Command, j \in Job :
        /\ HasBegun("processor", j) /\ j.mode = "execute" /\ j.cmd = c
        /\ j.want = Execute(c, FreshlyMade(c)).want
  BY ExecuteCommandDoes
<1>2. PICK w \in Workers : w = "processor"
  BY DEF Workers
<1>3. Starts(w, j) /\ job'[w] = j /\ UNCHANGED tubes
  BY <1>1, <1>2, ExecuteCommandDoes, BegunJob DEF HasBegun, IInv
<1>4. UndoOf(w)'
  BY <1>1, <1>3 DEF UndoOf
<1>5. HaltOf(w)'
  <2>1. c.kind = "stop" => j.want = OfAll([ask |-> "stop"])
    BY <1>1 DEF Execute, StopExecute
  <2> QED BY <1>1, <1>3, <2>1, HaltBegins
<1> QED BY <1>3, <1>4, <1>5, StartsCall

LEMMA RedoCommandCall ==
    ASSUME IInv, BesideInv, CallInv, RedoCommand
    PROVE  CallInv'
<1>1. PICK e \in Entries, j \in Job :
        /\ HasBegun("api", j) /\ j.mode = "redo" /\ j.cmd = e.cmd
        /\ j.want = Execute(e.cmd, e.previous).want
  BY RedoCommandDoes
<1>2. PICK w \in Workers : w = "api"
  BY DEF Workers
<1>3. Starts(w, j) /\ job'[w] = j /\ UNCHANGED tubes
  BY <1>1, <1>2, RedoCommandDoes, BegunJob DEF HasBegun, IInv
<1>4. UndoOf(w)'
  BY <1>1, <1>3 DEF UndoOf
<1>5. HaltOf(w)'
  <2>1. e.cmd.kind = "stop" => j.want = OfAll([ask |-> "stop"])
    BY <1>1 DEF Execute, StopExecute
  <2> QED BY <1>1, <1>3, <2>1, HaltBegins
<1> QED BY <1>3, <1>4, <1>5, StartsCall

LEMMA UndoLastCommandCall ==
    ASSUME IInv, BesideInv, CallInv, UndoLastCommand
    PROVE  CallInv'
<1>1. PICK e \in Entries : HasBegun("api", UndoJob(e))
  BY UndoLastCommandDoes
<1>2. PICK w \in Workers, j \in {UndoJob(e)} : w = "api" /\ j = UndoJob(e)
  BY DEF Workers
<1>3. Starts(w, j) /\ job'[w] = j /\ UNCHANGED tubes
  BY <1>1, <1>2, UndoLastCommandDoes, BegunJob DEF HasBegun, IInv
<1>4. j.mode = "undo" /\ j.cmd = e.cmd /\ j.previous = e.previous /\ j.want = Undo(e)
  BY <1>2, UndoJobType
<1>5. UndoOf(w)'
  <2>1. /\ DOMAIN j.want = IF e.cmd.kind = "unassign" THEN {} ELSE DOMAIN e.previous
        /\ \A t \in DOMAIN j.want : j.want[t] = Undoes(e, t)
    BY <1>4, Undone
  <2>2. \A t : Undoes(e, t) = Undoes(j, t)
    BY <1>4 DEF Undoes
  <2> QED BY <1>3, <1>4, <2>1, <2>2 DEF UndoOf
<1>6. HaltOf(w)'
  BY <1>3, <1>4 DEF HaltOf
<1> QED BY <1>3, <1>5, <1>6, StartsCall

LEMMA DirectCallCall ==
    ASSUME IInv, BesideInv, CallInv, DirectCall
    PROVE  CallInv'
<1>1. PICK c \in Direct, j \in Job :
        /\ HasBegun("console", j) /\ j.mode = "direct" /\ j.cmd = c
        /\ j.want = DirectRequests(c)
  BY DirectCallDoes
<1>2. PICK w \in Workers : w = "console"
  BY DEF Workers
<1>3. Starts(w, j) /\ job'[w] = j /\ UNCHANGED tubes
  BY <1>1, <1>2, DirectCallDoes, BegunJob DEF HasBegun, IInv
<1>4. UndoOf(w)'
  BY <1>1, <1>3 DEF UndoOf
<1>5. HaltOf(w)'
  <2>1. c.kind = "stop" => j.want = OfAll([ask |-> "stop"])
    BY <1>1 DEF DirectRequests, Execute, StopExecute
  <2> QED BY <1>1, <1>3, <2>1, HaltBegins
<1> QED BY <1>3, <1>4, <1>5, StartsCall

LEMMA ReturnCall ==
    ASSUME IInv, BesideInv, CallInv, Return
    PROVE  CallInv'
<1>1. PICK w \in Workers : Starts(w, Idle) /\ UNCHANGED tubes
  BY DEF Return, ReturnFromExecute, ReturnFromUndo, ReturnFromRedo, ReturnFromDirect, Workers
<1>2. job'[w].mode = "idle"
  BY <1>1 DEF Starts, IInv, JobsInv, Idle
<1>3. UndoOf(w)' /\ HaltOf(w)'
  BY <1>2 DEF UndoOf, HaltOf
<1> QED BY <1>1, <1>3, StartsCall

----------------------------------------------------------------------------
(* Undo and emergency stop *)

LEMMA InitCall == Init => CallInv
<1> SUFFICES ASSUME Init PROVE CallInv
  OBVIOUS
<1>1. \A w \in Workers : job[w].mode = "idle"
  BY DEF Init, Idle
<1> QED BY <1>1 DEF CallInv, UndoOf, HaltOf

\* Neither the tubes nor what the threads do are changed.
LEMMA NothingCall ==
    ASSUME CallInv, UNCHANGED <<weapon, route, job, touched>>
    PROVE  CallInv'
BY DEF CallInv, UndoOf, HaltOf, Restored, Undoes, Assigned

LEMMA NextCall == IInv /\ BesideInv /\ CallInv /\ [Next]_vars => CallInv'
<1> SUFFICES ASSUME IInv, BesideInv, CallInv, [Next]_vars PROVE CallInv'
  OBVIOUS
<1>1. CASE EnqueueCommand \/ \E t \in Tubes : UpdateRead(t)
  BY <1>1, NothingCall DEF EnqueueCommand, UpdateRead, tubes
<1>2. CASE ExecuteCommand
  BY <1>2, ExecuteCommandCall
<1>3. CASE UndoLastCommand
  BY <1>3, UndoLastCommandCall
<1>4. CASE RedoCommand
  BY <1>4, RedoCommandCall
<1>5. CASE DirectCall
  BY <1>5, DirectCallCall
<1>6. ASSUME NEW w \in Workers, NEW t \in Tubes,
             \/ EmergencyStop(w, t) \/ AssignWeapon(w, t) \/ InitializeWeapon(w, t)
             \/ UnassignWeapon(w, t)
             \/ UpdateWaypoints(w, t) \/ RequestRefused(w, t) \/ TurnOff(w, t)
             \/ BeginRequest(w, t) \/ FinishRequest(w, t)
      PROVE  CallInv'
  BY <1>6, EmergencyStopCall, AssignWeaponCall, InitializeWeaponCall, UnassignWeaponCall,
     UpdateWaypointsCall, RequestRefusedCall, TurnOffCall, BeginRequestCall,
     FinishRequestCall
<1>7. CASE UpdateStore
  BY <1>7, UpdateStoreCall
<1>8. CASE Return
  BY <1>8, ReturnCall
<1>9. CASE UNCHANGED vars
  BY <1>9, NothingCall DEF vars, tubes
<1> QED BY <1>1, <1>2, <1>3, <1>4, <1>5, <1>6, <1>7, <1>8, <1>9 DEF Next

LEMMA Calls == Spec => [](IInv /\ BesideInv /\ CallInv)
<1>1. IInv /\ BesideInv /\ CallInv /\ [Next]_vars => CallInv'
  BY NextCall
<1> QED BY <1>1, InitCall, Invariance, PTL DEF Spec

\* However many calls run at the same time, an emergency stop that reports success has
\* left every assigned weapon off that no other thread has changed meanwhile.
THEOREM EmergencyStopCompletes == Spec => []EmergencyStopIsComplete
<1>1. IInv /\ CallInv => EmergencyStopIsComplete
  <2> SUFFICES ASSUME IInv, CallInv, NEW w \in Workers, Done(w),
                      job[w].cmd.kind = "stop", job[w].ok, job[w].mode # "undo",
                      NEW t \in Assigned \ touched[w]
               PROVE  weapon[t] = "OFF"
    BY DEF EmergencyStopIsComplete
  <2>1. job[w].mode \in {"execute", "redo", "direct"} /\ DOMAIN job[w].want = {}
    BY EmptyFunction DEF Done, IInv, JobsInv, Job, Modes
  <2> QED BY <2>1 DEF CallInv, HaltOf
<1> QED BY <1>1, Calls, PTL

\* However many calls run at the same time, an undo that reports success has brought
\* back what was recorded at every tube no other thread has changed meanwhile, for any
\* number of tubes, commands and entries of the stacks.
THEOREM UndoDoesRestore == Spec => UndoRestores
<1> DEFINE Restores ==
      \A w \in Workers :
         Done(w) /\ job[w].mode = "undo" /\ job[w].ok /\ job'[w].mode = "idle"
             /\ job[w].cmd.kind # "unassign" =>
         \A t \in DOMAIN job[w].previous \ touched[w] :
             CASE job[w].cmd.kind = "waypoints" -> route[t] = job[w].previous[t]
               [] job[w].cmd.kind = "assign" -> weapon[t] = "NONE"
               [] OTHER -> job[w].previous[t] # "LAUNCH" =>
                              Up(weapon[t]) = Up(job[w].previous[t])
<1>1. IInv /\ CallInv /\ [Next]_vars => [Restores]_vars
  <2> SUFFICES ASSUME CallInv, NEW w \in Workers, Done(w), job[w].mode = "undo",
                      job[w].ok, job[w].cmd.kind # "unassign",
                      NEW t \in DOMAIN job[w].previous \ touched[w]
               PROVE  Restored(w, t)
    BY DEF Restored
  <2>1. DOMAIN job[w].want = {} /\ UndoOf(w)
    BY EmptyFunction DEF Done, CallInv
  <2> QED BY <2>1 DEF UndoOf
<1>2. Spec => [][Restores]_vars
  BY <1>1, Calls, PTL DEF Spec
<1> QED BY <1>2 DEF UndoRestores
=============================================================================
