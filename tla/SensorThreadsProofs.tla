------------------------ MODULE SensorThreadsProofs ------------------------
(***************************************************************************)
(* What holds of the sensors' threads and of startAll and stopAll for any  *)
(* number of sensors, any ports and any number of commands. Last, that a   *)
(* COM port whose handle was lost is shown dead in the end.                *)
(***************************************************************************)
EXTENDS SensorThreads, TLAPS

\* What a job is after Goto.
LEMMA StepExcept ==
    ASSUME NEW j \in Job, NEW step \in Steps
    PROVE  /\ [j EXCEPT !.step = step] = [op |-> j.op, of |-> j.of, step |-> step, last |-> j.last]
           /\ [j EXCEPT !.step = step] \in Job
<1>1. PICK op \in {"rest", "start", "stop"}, of \in 0..NumSensors, st \in Steps,
           last \in 0..NumSensors : j = [op |-> op, of |-> of, step |-> st, last |-> last]
  BY DEF Job
<1>2. [j EXCEPT !.step = step] = [op |-> op, of |-> of, step |-> step, last |-> last]
  BY <1>1
<1> QED
  BY <1>1, <1>2 DEF Job

LEMMA RestIsJob == Rest \in Job
  BY SensorAssumption DEF Rest, Job, Steps

\* NextSensor ends a job or begins with the next sensor.
LEMMA NextSensorEffect ==
    ASSUME TypeOK, NEW c \in Control, NextSensor(c)
    PROVE  LET j    == job[c]
               next == [op |-> j.op, of |-> j.of + 1, step |-> FirstStep(j.op), last |-> j.last]
           IN  /\ job' \in [Control -> Job]
               /\ arrayRunning' \in BOOLEAN
               /\ \A d \in Control \ {c} : job'[d] = job[d]
               /\ j.of < j.last => job'[c] = next /\ arrayRunning' = arrayRunning
               /\ ~(j.of < j.last) => job'[c] = Rest /\ arrayRunning' = (j.op = "start")
<1> DEFINE j == job[c]
           next == [op |-> j.op, of |-> j.of + 1, step |-> FirstStep(j.op), last |-> j.last]
<1>1. job \in [Control -> Job] /\ arrayRunning \in BOOLEAN
  BY DEF TypeOK
<1>2. j \in Job /\ Rest \in Job
  BY <1>1, RestIsJob
<1>3. j.of < j.last => next \in Job
  BY <1>2, SensorAssumption DEF Job, FirstStep, Steps
<1>4. job' = [job EXCEPT ![c] = IF j.of < j.last THEN next ELSE Rest]
  BY DEF NextSensor
<1>5. /\ j.of < j.last => arrayRunning' = arrayRunning
      /\ ~(j.of < j.last) => arrayRunning' = (j.op = "start")
  BY DEF NextSensor
<1>6. arrayRunning' \in BOOLEAN
  BY <1>1, <1>5, Zenon
<1> HIDE DEF next
<1>7. job' \in [Control -> Job]
  BY <1>1, <1>2, <1>3, <1>4
<1>8. \A d \in Control \ {c} : job'[d] = job[d]
  BY <1>1, <1>4
<1>9. job'[c] = IF j.of < j.last THEN next ELSE Rest
  BY <1>1, <1>4
<1> QED
  BY <1>5, <1>6, <1>7, <1>8, <1>9 DEF next

\* Goto stays at the sensor.
LEMMA GotoEffect ==
    ASSUME TypeOK, NEW c \in Control, NEW step \in Steps, Goto(c, step)
    PROVE  LET j == job[c]
           IN  /\ job' \in [Control -> Job]
               /\ arrayRunning' = arrayRunning
               /\ \A d \in Control \ {c} : job'[d] = job[d]
               /\ job'[c] = [op |-> j.op, of |-> j.of, step |-> step, last |-> j.last]
<1>1. job[c] \in Job /\ job \in [Control -> Job]
  BY DEF TypeOK
<1>2. /\ [job[c] EXCEPT !.step = step] \in Job
      /\ [job[c] EXCEPT !.step = step] =
            [op |-> job[c].op, of |-> job[c].of, step |-> step, last |-> job[c].last]
  BY <1>1, StepExcept
<1>3. job' = [job EXCEPT ![c] = [job[c] EXCEPT !.step = step]] /\ arrayRunning' = arrayRunning
  BY DEF Goto
<1> QED
  BY <1>1, <1>2, <1>3

-----------------------------------------------------------------------------
(* Types *)

\* The constants of a sensor's state.
LEMMA Bounds ==
    /\ NumSensors \in Nat /\ SilenceLimit \in Nat /\ MaxCommands \in Nat
    /\ Serial \intersect Tcp = {}
  BY SensorAssumption

LEMMA BeginType ==
    ASSUME TypeOK, NEW c \in Control, NEW op \in {"start", "stop"}, Begin(c, op)
    PROVE  /\ job' \in [Control -> Job] /\ arrayRunning' \in BOOLEAN /\ overlap' \in BOOLEAN
           /\ UNCHANGED <<created, sensorVars, crashed>>
<1> DEFINE new == IF created = 0 THEN Rest
                  ELSE [op |-> op, of |-> 1, step |-> FirstStep(op), last |-> created]
<1>1. new \in Job
  <2>1. created # 0 => 1 \in 0..NumSensors
    BY Bounds DEF TypeOK
  <2> QED
    BY <2>1, RestIsJob DEF TypeOK, Job, FirstStep, Steps
<1>2. job' = [job EXCEPT ![c] = new]
  BY DEF Begin
<1>3. job \in [Control -> Job] /\ arrayRunning \in BOOLEAN /\ overlap \in BOOLEAN
  BY DEF TypeOK
<1> HIDE DEF new
<1>4. job' \in [Control -> Job]
  BY <1>1, <1>2, <1>3
<1>5. arrayRunning' \in BOOLEAN /\ overlap' \in BOOLEAN
  BY <1>3, Zenon DEF Begin
<1> QED
  BY <1>4, <1>5 DEF Begin

\* A step of startAll or stopAll keeps the types.
LEMMA ControlType ==
    ASSUME TypeOK, NEW c \in Control, NEW s \in Sensor, ControlStep(c, s)
    PROVE  TypeOK'
<1> USE DEF ControlStep
<1>1. UNCHANGED <<mainAt, created, commands, overlap>>
  OBVIOUS
<1>2. CASE StartDelete(c, s)
  <2>1. job' \in [Control -> Job] /\ arrayRunning' = arrayRunning
    BY <1>2, GotoEffect DEF StartDelete, Steps
  <2>2. crashed' \in BOOLEAN
    BY <1>2, Zenon DEF StartDelete, Delete, Undefined, TypeOK
  <2> QED
    BY <1>1, <1>2, <2>1, <2>2 DEF StartDelete, Delete, Deleted, Dead, TypeOK
<1>3. CASE StartNew(c, s)
  <2>1. job' \in [Control -> Job] /\ arrayRunning' = arrayRunning
    BY <1>3, GotoEffect DEF StartNew, Steps
  <2> QED
    BY <1>1, <1>3, <2>1 DEF StartNew, Overwrite, TypeOK
<1>4. CASE StartOpen(c, s)
  <2>1. job' \in [Control -> Job] /\ arrayRunning' = arrayRunning
    BY <1>4, GotoEffect DEF StartOpen, Steps
  <2>2. crashed' \in BOOLEAN
    BY <1>4, Zenon DEF StartOpen, Undefined, TypeOK
  <2>3. port' \in [Sensor -> {"closed", "open", "lost"}]
    BY <1>4 DEF StartOpen, Opened, SerialOpened, SocketOpened, TypeOK
  <2> QED
    BY <1>1, <1>4, <2>1, <2>2, <2>3 DEF StartOpen, TypeOK
<1>5. CASE StartRun(c, s)
  <2>1. job' \in [Control -> Job] /\ arrayRunning' \in BOOLEAN
    BY <1>5, NextSensorEffect DEF StartRun
  <2> QED
    BY <1>1, <1>5, <2>1 DEF StartRun, TypeOK
<1>6. CASE StopHalt(c, s)
  <2>1. job' \in [Control -> Job] /\ arrayRunning' \in BOOLEAN
    <3>1. CASE NextSensor(c)
      BY <3>1, NextSensorEffect
    <3>2. CASE Goto(c, "close")
      BY <3>2, GotoEffect, Zenon DEF Steps, TypeOK
    <3> QED
      BY <1>6, <3>1, <3>2 DEF StopHalt
  <2> QED
    BY <1>1, <1>6, <2>1 DEF StopHalt, TypeOK
<1>7. CASE StopClose(c, s)
  <2>1. job' \in [Control -> Job] /\ arrayRunning' = arrayRunning
    BY <1>7, GotoEffect DEF StopClose, Steps
  <2>2. crashed' \in BOOLEAN
    BY <1>7, Zenon DEF StopClose, Undefined, TypeOK
  <2> QED
    BY <1>1, <1>7, <2>1, <2>2 DEF StopClose, Closed, TypeOK
<1>8. CASE StopFree(c, s)
  <2>1. job' \in [Control -> Job] /\ arrayRunning' = arrayRunning
    BY <1>8, GotoEffect DEF StopFree, Steps
  <2>2. crashed' \in BOOLEAN
    BY <1>8, Zenon DEF StopFree, Delete, Undefined, TypeOK
  <2> QED
    BY <1>1, <1>8, <2>1, <2>2 DEF StopFree, Delete, Deleted, Dead, TypeOK
<1>9. CASE StopNull(c, s)
  <2>1. job' \in [Control -> Job] /\ arrayRunning' \in BOOLEAN
    BY <1>9, NextSensorEffect DEF StopNull
  <2> QED
    BY <1>1, <1>9, <2>1 DEF StopNull, Overwrite, TypeOK
<1> QED
  BY <1>2, <1>3, <1>4, <1>5, <1>6, <1>7, <1>8, <1>9

\* A step of a sensor's thread keeps the types.
LEMMA ThreadType ==
    ASSUME TypeOK, NEW s \in Sensor, Thread(s)
    PROVE  TypeOK'
<1> USE DEF threadVars, controlVars
<1>1. CASE ReaderTakes(s)
  <2>1. alive' \in [Sensor -> BOOLEAN]
    <3> DEFINE now == alive[s] /\ quiet[s] <= SilenceLimit
    <3>1. alive' = alive \/ alive' = [alive EXCEPT ![s] = now]
      BY <1>1 DEF ReaderTakes, Unheard
    <3>2. now \in BOOLEAN /\ alive \in [Sensor -> BOOLEAN]
      BY DEF TypeOK
    <3> HIDE DEF now
    <3> QED
      BY <3>1, <3>2
  <2> QED
    BY <1>1, <2>1 DEF ReaderTakes, Unheard, Taken, TypeOK
<1>2. CASE ReaderReads(s)
  <2>1. alive' \in [Sensor -> BOOLEAN]
    <3> DEFINE now == alive[s] /\ quiet[s] <= SilenceLimit
    <3>1. alive' = [alive EXCEPT ![s] = TRUE] \/ alive' = [alive EXCEPT ![s] = now]
      BY <1>2 DEF ReaderReads, Heard, Unheard
    <3>2. now \in BOOLEAN /\ alive \in [Sensor -> BOOLEAN]
      BY DEF TypeOK
    <3> HIDE DEF now
    <3> QED
      BY <3>1, <3>2
  <2>2. queued' \in [Sensor -> BOOLEAN]
    BY <1>2 DEF ReaderReads, TypeOK
  <2>3. quiet' \in [Sensor -> 0..(SilenceLimit + 1)]
    BY <1>2, Bounds DEF ReaderReads, Heard, Unheard, TypeOK
  <2>4. crashed' \in BOOLEAN
    BY <1>2, Zenon DEF ReaderReads, Undefined, TypeOK
  <2> QED
    BY <1>2, <2>1, <2>2, <2>3, <2>4 DEF ReaderReads, TypeOK
<1>3. CASE ProcessorTakes(s)
  BY <1>3 DEF ProcessorTakes, Taken, TypeOK
<1>4. CASE ProcessorPulls(s)
  <2>1. crashed' \in BOOLEAN
    BY <1>4, Zenon DEF ProcessorPulls, Undefined, TypeOK
  <2>2. queued' \in [Sensor -> BOOLEAN]
    BY <1>4 DEF ProcessorPulls, TypeOK
  <2> QED
    BY <1>4, <2>1, <2>2 DEF ProcessorPulls, TypeOK
<1> QED
  BY <1>1, <1>2, <1>3, <1>4 DEF Thread

LEMMA TypeInit == Init => TypeOK
<1> SUFFICES ASSUME Init PROVE TypeOK
  OBVIOUS
<1>1. /\ 0 \in 0..NumSensors /\ 0 \in 0..MaxCommands
      /\ SilenceLimit + 1 \in 0..(SilenceLimit + 1)
  BY Bounds
<1>2. job \in [Control -> Job]
  BY RestIsJob DEF Init
<1> QED
  BY <1>1, <1>2 DEF Init, TypeOK

LEMMA TypeStep == TypeOK /\ [Next]_vars => TypeOK'
<1> SUFFICES ASSUME TypeOK, [Next]_vars
             PROVE  TypeOK'
  OBVIOUS
<1>1. CASE MainCreate
  <2>1. crashed' \in BOOLEAN
    BY <1>1, Zenon DEF MainCreate, Undefined, TypeOK
  <2> QED
    BY <1>1, <2>1, Bounds DEF MainCreate, sensorVars, TypeOK
<1>2. CASE MainStart
  <2>1. Begin("main", "start") /\ mainAt' = "wait" /\ UNCHANGED commands
    BY <1>2 DEF MainStart
  <2> QED
    BY <2>1, BeginType DEF Control, sensorVars, TypeOK
<1>3. ASSUME NEW op \in {"start", "stop"}, Command(op)
      PROVE  TypeOK'
  <2>1. Begin("command", op) /\ UNCHANGED mainAt
    BY <1>3 DEF Command
  <2>2. commands' \in 0..MaxCommands
    BY <1>3, Bounds DEF Command, TypeOK
  <2> QED
    BY <2>1, <2>2, BeginType DEF Control, sensorVars, TypeOK
<1>4. ASSUME NEW c \in Control, NEW s \in Sensor, ControlStep(c, s)
      PROVE  TypeOK'
  BY <1>4, ControlType
<1>5. ASSUME NEW s \in Sensor, Thread(s)
      PROVE  TypeOK'
  BY <1>5, ThreadType
<1>6. CASE Second
  BY <1>6, Bounds DEF Second, threadVars, controlVars, TypeOK
<1>7. CASE UNCHANGED vars
  BY <1>7 DEF vars, sensorVars, TypeOK
<1> QED
  BY <1>1, <1>2, <1>3, <1>4, <1>5, <1>6, <1>7 DEF Next

\* Every variable keeps its type, whatever startAll and stopAll meet.
THEOREM TypeCorrect == Spec => []TypeOK
<1> QED
  BY TypeInit, TypeStep, PTL DEF Spec

-----------------------------------------------------------------------------
(* Dangling pointers *)

\* Thread c is between the deletion of the terminal of s and its overwriting.
Between(c, s) == job[c] # Rest /\ job[c].of = s /\ job[c].step \in {"new", "null"}

\* What c does to its own job is the only thing that can end its being between, and it
\* is at another sensor or has overwritten the pointer.
LEMMA DanglingKept ==
    ASSUME DanglingOnlyInCommand, NEW c \in Control,
           \A d \in Control \ {c} : job'[d] = job[d],
           \A s \in Sensor : term'[s] = "dangling" =>
               \/ Between(c, s)'
               \/ term[s] = "dangling" /\ ~Between(c, s)
    PROVE  DanglingOnlyInCommand'
  BY DEF DanglingOnlyInCommand, Between

LEMMA DanglingControl ==
    ASSUME TypeOK, DanglingOnlyInCommand, NEW c \in Control, NEW s \in Sensor, ControlStep(c, s)
    PROVE  DanglingOnlyInCommand'
<1>1. CASE StartDelete(c, s) \/ StopFree(c, s)
  <2>1. PICK step \in {"new", "null"} : Goto(c, step)
    BY <1>1 DEF StartDelete, StopFree
  <2>2. /\ \A d \in Control \ {c} : job'[d] = job[d]
        /\ job'[c].of = s /\ job'[c].step = step /\ job'[c] # Rest
    <3>1. /\ \A d \in Control \ {c} : job'[d] = job[d]
          /\ job'[c] = [op |-> job[c].op, of |-> job[c].of, step |-> step, last |-> job[c].last]
      BY <2>1, GotoEffect DEF Steps
    <3>2. job[c].of = s
      BY <1>1 DEF StartDelete, StopFree, At
    <3> QED
      BY <3>1, <3>2 DEF Rest
  <2>3. Between(c, s)'
    BY <2>2 DEF Between
  <2>4. \A r \in Sensor \ {s} : term'[r] = term[r] /\ ~Between(c, r)
    BY <1>1 DEF StartDelete, StopFree, Delete, At, Between, TypeOK
  <2> QED
    BY <2>2, <2>3, <2>4, DanglingKept
<1>2. CASE StartNew(c, s) \/ StopNull(c, s)
  <2>1. \A d \in Control \ {c} : job'[d] = job[d]
    BY <1>2, GotoEffect, NextSensorEffect DEF StartNew, StopNull, Steps
  <2>2. term'[s] # "dangling" /\ \A r \in Sensor \ {s} : term'[r] = term[r]
    BY <1>2 DEF StartNew, StopNull, Overwrite, TypeOK
  <2>3. \A r \in Sensor \ {s} : ~Between(c, r)
    BY <1>2 DEF StartNew, StopNull, At, Between
  <2> QED
    BY <2>1, <2>2, <2>3, DanglingKept
<1>3. CASE StartOpen(c, s) \/ StartRun(c, s) \/ StopHalt(c, s) \/ StopClose(c, s)
  <2>1. \A d \in Control \ {c} : job'[d] = job[d]
    BY <1>3, GotoEffect, NextSensorEffect
    DEF StartOpen, StartRun, StopHalt, StopClose, Steps
  <2>2. term' = term /\ \A r \in Sensor : ~Between(c, r)
    BY <1>3 DEF StartOpen, StartRun, StopHalt, StopClose, At, Between
  <2> QED
    BY <2>1, <2>2, DanglingKept
<1> QED
  BY <1>1, <1>2, <1>3 DEF ControlStep

\* A Start or Stop that begins was not between anything.
LEMMA DanglingBegin ==
    ASSUME TypeOK, DanglingOnlyInCommand, NEW c \in Control, NEW op \in {"start", "stop"},
           Begin(c, op)
    PROVE  DanglingOnlyInCommand'
<1>1. \A d \in Control \ {c} : job'[d] = job[d]
  BY DEF Begin, TypeOK
<1>2. term' = term /\ \A s \in Sensor : ~Between(c, s)
  BY DEF Begin, sensorVars, Between
<1> QED
  BY <1>1, <1>2, DanglingKept

\* Sensor::terminal has the address of a deleted terminal only while a thread is inside
\* Sensor::start or Sensor::stop of that sensor, however many of them meet.
THEOREM NoDanglingLeft == Spec => []DanglingOnlyInCommand
<1>1. Init => DanglingOnlyInCommand
  BY DEF Init, DanglingOnlyInCommand
<1>2. TypeOK /\ DanglingOnlyInCommand /\ [Next]_vars => DanglingOnlyInCommand'
  <2> SUFFICES ASSUME TypeOK, DanglingOnlyInCommand, [Next]_vars
               PROVE  DanglingOnlyInCommand'
    OBVIOUS
  <2>1. CASE MainStart
    BY <2>1, DanglingBegin DEF MainStart, Control
  <2>2. ASSUME NEW op \in {"start", "stop"}, Command(op)
        PROVE  DanglingOnlyInCommand'
    BY <2>2, DanglingBegin DEF Command, Control
  <2>3. ASSUME NEW c \in Control, NEW s \in Sensor, ControlStep(c, s)
        PROVE  DanglingOnlyInCommand'
    BY <2>3, DanglingControl
  <2>4. CASE UNCHANGED <<term, job>>
    BY <2>4 DEF DanglingOnlyInCommand
  <2>5. ASSUME NEW s \in Sensor, Thread(s)
        PROVE  UNCHANGED <<term, job>>
    BY <2>5 DEF Thread, ReaderTakes, ReaderReads, ProcessorTakes, ProcessorPulls,
                threadVars, controlVars
  <2>6. MainCreate \/ Second \/ UNCHANGED vars => UNCHANGED <<term, job>>
    BY DEF MainCreate, Second, vars, sensorVars, threadVars, controlVars
  <2> QED
    BY <2>1, <2>2, <2>3, <2>4, <2>5, <2>6 DEF Next
<1> QED
  BY <1>1, <1>2, TypeCorrect, PTL DEF Spec

-----------------------------------------------------------------------------
(* The start-up *)

\* What startAll of the main thread has before it: no terminal where it has not been yet.
Ahead(j) ==
    /\ j.op = "start" /\ j.step \in {"delete", "new", "open", "run"}
    /\ \A s \in Sensor :
         s > j.of \/ (s = j.of /\ j.step \in {"delete", "new"}) => term[s] = "null"

\* No thread of a sensor has a deleted terminal, nor can it get one.
Unharmed ==
    \A s \in Sensor :
        /\ term[s] # "dangling" /\ reader[s] # "dead" /\ processor[s] # "dead"
        /\ reader[s] = "holds" \/ processor[s] = "holds" => term[s] = "cur"

\* StartUpSafe with what makes it inductive.
StartUpInv ==
    commands = 0 =>
        /\ ~crashed
        /\ job["command"] = Rest
        /\ mainAt = "create" => job["main"] = Rest /\ \A s \in Sensor : term[s] = "null"
        /\ job["main"] # Rest => Ahead(job["main"])
        /\ Unharmed

LEMMA StartUpControl ==
    ASSUME TypeOK, StartUpInv, commands = 0, NEW c \in Control, NEW s \in Sensor, ControlStep(c, s)
    PROVE  StartUpInv'
<1>1. /\ c = "main" /\ job["main"] # Rest /\ Ahead(job["main"]) /\ job["main"].of = s
      /\ Unharmed /\ ~crashed /\ job["command"] = Rest
  BY DEF StartUpInv, ControlStep, StartDelete, StartNew, StartOpen, StartRun, StopHalt,
         StopClose, StopFree, StopNull, At, Control
<1>2. mainAt' = "wait" /\ commands' = 0
  BY <1>1 DEF StartUpInv, ControlStep, TypeOK
<1>3. SUFFICES /\ job'["command"] = job["command"]
               /\ job'["main"] # Rest => Ahead(job["main"])'
               /\ Unharmed' /\ ~crashed'
  BY <1>1, <1>2 DEF StartUpInv
<1>4. s \in Nat /\ job["main"] \in Job
  BY Bounds DEF Sensor, TypeOK, Control
<1>5. CASE StartDelete("main", s)
  <2>1. /\ job'["command"] = job["command"]
        /\ job'["main"] = [op |-> "start", of |-> s, step |-> "new", last |-> job["main"].last]
    BY <1>1, <1>5, GotoEffect DEF StartDelete, Steps, Control, Ahead
  <2>2. term[s] = "null" /\ reader[s] # "holds" /\ processor[s] # "holds"
    BY <1>1, <1>5 DEF StartDelete, At, Ahead, Unharmed
  <2>3. term' = term /\ reader' = reader /\ processor' = processor /\ crashed' = crashed
    BY <1>5, <2>2 DEF StartDelete, Delete, Dead, TypeOK
  <2>4. Ahead(job["main"])'
    BY <1>1, <1>5, <2>1, <2>3 DEF StartDelete, At, Ahead
  <2> QED
    BY <1>1, <2>1, <2>3, <2>4 DEF Unharmed
<1>6. CASE StartNew("main", s)
  <2>1. /\ job'["command"] = job["command"]
        /\ job'["main"] = [op |-> "start", of |-> s, step |-> "open", last |-> job["main"].last]
    BY <1>1, <1>6, GotoEffect DEF StartNew, Steps, Control, Ahead
  <2>2. /\ term'[s] = "cur" /\ \A r \in Sensor \ {s} : term'[r] = term[r]
        /\ reader' = reader /\ processor' = processor /\ crashed' = crashed
    BY <1>6 DEF StartNew, Overwrite, TypeOK
  <2>3. Ahead(job["main"])'
    BY <1>1, <1>4, <2>1, <2>2 DEF Ahead, Sensor
  <2> QED
    BY <1>1, <2>1, <2>2, <2>3 DEF Unharmed
<1>7. CASE StartOpen("main", s)
  <2>1. /\ job'["command"] = job["command"]
        /\ job'["main"] = [op |-> "start", of |-> s, step |-> "run", last |-> job["main"].last]
    BY <1>1, <1>7, GotoEffect DEF StartOpen, Steps, Control, Ahead
  <2>2. term' = term /\ reader' = reader /\ processor' = processor /\ crashed' = crashed
    BY <1>1, <1>7 DEF StartOpen, Unharmed
  <2>3. Ahead(job["main"])'
    BY <1>1, <2>1, <2>2 DEF Ahead
  <2> QED
    BY <1>1, <2>1, <2>2, <2>3 DEF Unharmed
<1>8. CASE StartRun("main", s)
  <2>1. /\ job'["command"] = job["command"]
        /\ \/ job'["main"] = Rest
           \/ job'["main"] = [op |-> "start", of |-> s + 1, step |-> "delete",
                              last |-> job["main"].last]
    BY <1>1, <1>8, NextSensorEffect DEF StartRun, Control, Ahead, FirstStep
  <2>2. term' = term /\ reader' = reader /\ processor' = processor /\ crashed' = crashed
    BY <1>8 DEF StartRun
  <2>3. job'["main"] # Rest => Ahead(job["main"])'
    BY <1>1, <1>4, <2>1, <2>2 DEF Ahead, Sensor
  <2> QED
    BY <1>1, <2>1, <2>2, <2>3 DEF Unharmed
<1>9. CASE StopHalt("main", s) \/ StopClose("main", s) \/ StopFree("main", s) \/ StopNull("main", s)
  BY <1>1, <1>9 DEF StopHalt, StopClose, StopFree, StopNull, At, Ahead
<1> QED
  BY <1>1, <1>5, <1>6, <1>7, <1>8, <1>9 DEF ControlStep

LEMMA StartUpThread ==
    ASSUME TypeOK, StartUpInv, commands = 0, NEW s \in Sensor, Thread(s)
    PROVE  StartUpInv'
<1>1. UNCHANGED <<term, mainAt, job, commands>>
  BY DEF Thread, ReaderTakes, ReaderReads, ProcessorTakes, ProcessorPulls,
         threadVars, controlVars
<1>2. Unharmed /\ ~crashed
  BY DEF StartUpInv
<1>3. crashed' = crashed
  BY <1>2 DEF Thread, ReaderTakes, ReaderReads, ProcessorTakes, ProcessorPulls, Unharmed
<1>4. /\ \A r \in Sensor : reader'[r] = reader[r] \/ reader'[r] = "rest"
                            \/ (reader'[r] = "holds" /\ term[r] = "cur")
      /\ \A r \in Sensor : processor'[r] = processor[r] \/ processor'[r] \in {"rest", "loop"}
                            \/ (processor'[r] = "holds" /\ term[r] = "cur")
  <2>1. CASE ReaderTakes(s)
    BY <1>2, <2>1 DEF ReaderTakes, Taken, Unharmed, TypeOK
  <2>2. CASE ReaderReads(s)
    BY <2>2 DEF ReaderReads, TypeOK
  <2>3. CASE ProcessorTakes(s)
    BY <1>2, <2>3 DEF ProcessorTakes, Taken, Unharmed, TypeOK
  <2>4. CASE ProcessorPulls(s)
    BY <2>4 DEF ProcessorPulls, TypeOK
  <2> QED
    BY <2>1, <2>2, <2>3, <2>4 DEF Thread
<1>5. Unharmed'
  BY <1>1, <1>2, <1>4 DEF Unharmed
<1> QED
  BY <1>1, <1>2, <1>3, <1>5 DEF StartUpInv, Ahead

\* Before the first command startAll of the main thread creates and opens terminals while
\* readers and processors already run for the sensors behind it: none of them can get at an
\* object that is deleted, for any number of sensors.
THEOREM StartUp == Spec => []StartUpSafe
<1>1. Init => StartUpInv
  BY DEF Init, StartUpInv, Ahead, Unharmed, Control
<1>2. TypeOK /\ StartUpInv /\ [Next]_vars => StartUpInv'
  <2> SUFFICES ASSUME TypeOK, StartUpInv, [Next]_vars, commands' = 0
               PROVE  StartUpInv'
    BY DEF StartUpInv
  <2>1. commands = 0 /\ ~(\E op \in {"start", "stop"} : Command(op))
    <3>1. ASSUME NEW op \in {"start", "stop"}, Command(op)
          PROVE  FALSE
      BY <3>1 DEF Command, TypeOK
    <3>2. MainCreate \/ MainStart \/ Second \/ UNCHANGED vars => commands' = commands
      BY DEF MainCreate, MainStart, Second, controlVars, vars
    <3>3. ASSUME NEW c \in Control, NEW s \in Sensor, ControlStep(c, s)
          PROVE  commands' = commands
      BY <3>3 DEF ControlStep
    <3>4. ASSUME NEW s \in Sensor, Thread(s)
          PROVE  commands' = commands
      BY <3>4 DEF Thread, ReaderTakes, ReaderReads, ProcessorTakes, ProcessorPulls, controlVars
    <3> QED
      BY <3>1, <3>2, <3>3, <3>4 DEF Next
  <2>2. CASE MainCreate
    BY <2>1, <2>2 DEF MainCreate, sensorVars, StartUpInv, Ahead, Unharmed
  <2>3. CASE MainStart
    <3>1. /\ mainAt = "create" /\ mainAt' = "wait" /\ Begin("main", "start")
          /\ \A s \in Sensor : term[s] = "null"
      BY <2>1, <2>3 DEF MainStart, StartUpInv
    <3>2. UNCHANGED <<term, reader, processor, crashed>>
      BY <3>1 DEF Begin, sensorVars
    <3>3. /\ job'["command"] = job["command"]
          /\ \/ job'["main"] = Rest
             \/ job'["main"] = [op |-> "start", of |-> 1, step |-> "delete", last |-> created]
      BY <3>1 DEF Begin, Control, FirstStep, TypeOK
    <3> QED
      BY <2>1, <3>1, <3>2, <3>3 DEF StartUpInv, Ahead, Unharmed
  <2>4. ASSUME NEW c \in Control, NEW s \in Sensor, ControlStep(c, s)
        PROVE  StartUpInv'
    BY <2>1, <2>4, StartUpControl
  <2>5. ASSUME NEW s \in Sensor, Thread(s)
        PROVE  StartUpInv'
    BY <2>1, <2>5, StartUpThread
  <2>6. CASE Second
    BY <2>6 DEF Second, threadVars, controlVars, StartUpInv, Ahead, Unharmed
  <2>7. CASE UNCHANGED vars
    BY <2>7 DEF vars, sensorVars, StartUpInv, Ahead, Unharmed
  <2> QED
    BY <2>1, <2>2, <2>3, <2>4, <2>5, <2>6, <2>7 DEF Next
<1>3. StartUpInv => StartUpSafe
  BY DEF StartUpInv, StartUpSafe
<1> QED
  BY <1>1, <1>2, <1>3, TypeCorrect, PTL DEF Spec

-----------------------------------------------------------------------------
(* Handles *)

\* startAll is at this sensor and step: those before it run, those after it are closed.
Starting(of, step) ==
    /\ step \in {"delete", "new", "open", "run"}
    /\ \A s \in Sensor :
         /\ s < of => running[s]
         /\ s >= of => ~running[s]
         /\ s > of \/ (s = of /\ step # "run") => port[s] = "closed"

\* stopAll is at this sensor and step: those before it are closed; a TCP port is closed by
\* the deletion only.
Stopping(of, step) ==
    /\ step \in {"halt", "close", "free", "null"}
    /\ \A s \in Sensor :
         /\ s < of \/ (s = of /\ step # "halt") => ~running[s]
         /\ s < of \/ (s = of /\ step = "null") => port[s] = "closed"
         /\ s = of /\ step = "free" => (port[s] = "open" => s \in Tcp)

Busy(c) ==
    /\ mainAt = "wait"
    /\ job[c].of \in Sensor /\ job[c].last = NumSensors
    /\ \/ job[c].op = "start" /\ Starting(job[c].of, job[c].step)
       \/ job[c].op = "stop" /\ Stopping(job[c].of, job[c].step)

\* No startAll or stopAll is under way.
Idle ==
    \A s \in Sensor : running[s] = arrayRunning /\ (~running[s] => port[s] = "closed")

\* An open port belongs to the terminal its sensor points to.
Kept == \A s \in Sensor : port[s] # "lost" /\ (port[s] = "open" => term[s] = "cur")

\* HandleKept with what makes it inductive.
HandleInv ==
    ~overlap =>
        /\ Kept
        /\ mainAt = "wait" => created = NumSensors
        /\ \A c, d \in Control : c # d => job[c] = Rest \/ job[d] = Rest
        /\ \A c \in Control : job[c] # Rest => Busy(c)
        /\ (\A c \in Control : job[c] = Rest) => Idle

\* It is enough that the thread that makes a step leaves its own job in order.
LEMMA HandleJob ==
    ASSUME TypeOK, HandleInv, ~overlap, NEW c \in Control, job[c] # Rest,
           UNCHANGED <<mainAt, created>>, \A d \in Control \ {c} : job'[d] = job[d],
           Kept', job'[c] # Rest => Busy(c)', job'[c] = Rest => Idle'
    PROVE  HandleInv'
<1>1. \A d \in Control \ {c} : job'[d] = Rest
  BY DEF HandleInv
<1>2. mainAt' = "wait" => created' = NumSensors
  BY DEF HandleInv
<1> QED
  BY <1>1, <1>2 DEF HandleInv

\* A step of startAll.
LEMMA HandleStart ==
    ASSUME TypeOK, HandleInv, ~overlap, NEW c \in Control, NEW s \in Sensor,
           StartDelete(c, s) \/ StartNew(c, s) \/ StartOpen(c, s) \/ StartRun(c, s),
           UNCHANGED <<mainAt, created>>
    PROVE  HandleInv'
<1>1. /\ job[c] # Rest /\ job[c].of = s /\ Kept
      /\ mainAt = "wait" /\ job[c].last = NumSensors
      /\ job[c].op = "start" /\ Starting(s, job[c].step)
  BY DEF HandleInv, Busy, StartDelete, StartNew, StartOpen, StartRun, At, Stopping
<1>2. ~running[s] /\ (job[c].step # "run" => port[s] = "closed")
  BY <1>1 DEF Starting, Sensor
<1>3. s \in Nat /\ NumSensors \in Nat /\ s <= NumSensors
  BY Bounds DEF Sensor
<1>4. CASE StartDelete(c, s)
  <2>1. /\ \A d \in Control \ {c} : job'[d] = job[d]
        /\ job'[c] = [op |-> "start", of |-> s, step |-> "new", last |-> NumSensors]
    BY <1>1, <1>4, GotoEffect DEF StartDelete, Steps
  <2>2. /\ running' = running /\ port' = port
        /\ \A r \in Sensor \ {s} : term'[r] = term[r]
    BY <1>2, <1>4 DEF StartDelete, At, Delete, Deleted, TypeOK
  <2>3. job[c].step = "delete"
    BY <1>4 DEF StartDelete, At
  <2>4. Starting(s, "new")'
    BY <1>1, <2>2, <2>3 DEF Starting
  <2>5. Kept'
    BY <1>1, <1>2, <2>2, <2>3 DEF Kept
  <2> QED
    BY <1>1, <2>1, <2>4, <2>5, HandleJob DEF Busy, Rest
<1>5. CASE StartNew(c, s)
  <2>1. /\ \A d \in Control \ {c} : job'[d] = job[d]
        /\ job'[c] = [op |-> "start", of |-> s, step |-> "open", last |-> NumSensors]
    BY <1>1, <1>5, GotoEffect DEF StartNew, Steps
  <2>2. job[c].step = "new"
    BY <1>5 DEF StartNew, At
  <2>3. /\ running' = running /\ port' = port
        /\ \A r \in Sensor \ {s} : term'[r] = term[r]
    BY <1>2, <1>5, <2>2 DEF StartNew, Overwrite, TypeOK
  <2>4. Starting(s, "open")'
    BY <1>1, <2>2, <2>3 DEF Starting
  <2>5. Kept'
    BY <1>1, <1>2, <2>2, <2>3 DEF Kept
  <2> QED
    BY <1>1, <2>1, <2>4, <2>5, HandleJob DEF Busy, Rest
<1>6. CASE StartOpen(c, s)
  <2>1. /\ \A d \in Control \ {c} : job'[d] = job[d]
        /\ job'[c] = [op |-> "start", of |-> s, step |-> "run", last |-> NumSensors]
    BY <1>1, <1>6, GotoEffect DEF StartOpen, Steps
  <2>2. job[c].step = "open"
    BY <1>6 DEF StartOpen, At
  <2>3. /\ running' = running /\ term' = term
        /\ \A r \in Sensor \ {s} : port'[r] = port[r]
        /\ port'[s] \in {"open", "closed"} /\ (term[s] = "cur" \/ port' = port)
    BY <1>2, <1>6, <2>2 DEF StartOpen, Opened, SerialOpened, SocketOpened, TypeOK
  <2>4. Starting(s, "run")'
    BY <1>1, <1>3, <2>2, <2>3 DEF Starting, Sensor
  <2>5. Kept'
    BY <1>1, <2>3 DEF Kept
  <2> QED
    BY <1>1, <2>1, <2>4, <2>5, HandleJob DEF Busy, Rest
<1>7. CASE StartRun(c, s)
  <2>1. running' = [running EXCEPT ![s] = TRUE] /\ UNCHANGED <<term, port>>
    BY <1>7 DEF StartRun
  <2>2. running'[s] /\ \A r \in Sensor \ {s} : running'[r] = running[r]
    BY <2>1 DEF TypeOK
  <2>3. Kept'
    BY <1>1, <2>1 DEF Kept
  <2>4. CASE s < NumSensors
    <3>1. /\ \A d \in Control \ {c} : job'[d] = job[d]
          /\ job'[c] = [op |-> "start", of |-> s + 1, step |-> "delete", last |-> NumSensors]
      BY <1>1, <1>7, <2>4, NextSensorEffect DEF StartRun, FirstStep
    <3>2. Starting(s + 1, "delete")'
      BY <1>1, <1>3, <2>1, <2>2 DEF Starting, Sensor
    <3>3. s + 1 \in Sensor
      BY <1>3, <2>4 DEF Sensor
    <3> QED
      BY <1>1, <2>3, <3>1, <3>2, <3>3, HandleJob DEF Busy, Rest
  <2>5. CASE ~(s < NumSensors)
    <3>1. /\ \A d \in Control \ {c} : job'[d] = job[d]
          /\ job'[c] = Rest /\ arrayRunning'
      BY <1>1, <1>7, <2>5, NextSensorEffect DEF StartRun
    <3>2. \A r \in Sensor : running'[r]
      BY <1>1, <1>3, <2>2, <2>5 DEF Starting, Sensor
    <3>3. \A r \in Sensor : running'[r] \in BOOLEAN /\ arrayRunning' \in BOOLEAN
      BY <2>1, <1>1, <1>7, NextSensorEffect DEF TypeOK, StartRun
    <3>4. Idle'
      BY <3>1, <3>2, <3>3, Zenon DEF Idle
    <3> QED
      BY <1>1, <2>3, <3>1, <3>4, HandleJob
  <2> QED
    BY <2>4, <2>5
<1> QED
  BY <1>4, <1>5, <1>6, <1>7

\* stopAll leaves a sensor that is halted and closed.
LEMMA HandleStopped ==
    ASSUME TypeOK, HandleInv, ~overlap, NEW c \in Control, NEW s \in Sensor,
           job[c] # Rest, job[c].of = s, job[c].op = "stop",
           NextSensor(c), UNCHANGED <<mainAt, created>>, Kept',
           \A r \in Sensor : r # s => running'[r] = running[r] /\ port'[r] = port[r],
           ~running'[s], port'[s] = "closed", running' \in [Sensor -> BOOLEAN]
    PROVE  HandleInv'
<1>1. mainAt = "wait" /\ job[c].last = NumSensors /\ Stopping(s, job[c].step)
  BY DEF HandleInv, Busy
<1>2. s \in Nat /\ NumSensors \in Nat /\ s <= NumSensors
  BY Bounds DEF Sensor
<1>3. \A r \in Sensor : r <= s => ~running'[r] /\ port'[r] = "closed"
  BY <1>1, <1>2 DEF Stopping, Sensor
<1>4. CASE s < NumSensors
  <2>1. /\ \A d \in Control \ {c} : job'[d] = job[d]
        /\ job'[c] = [op |-> "stop", of |-> s + 1, step |-> "halt", last |-> NumSensors]
    BY <1>1, <1>4, NextSensorEffect DEF FirstStep
  <2>2. s + 1 \in Sensor
    BY <1>2, <1>4 DEF Sensor
  <2>3. Stopping(s + 1, "halt")'
    BY <1>2, <1>3 DEF Stopping, Sensor
  <2> QED
    BY <1>1, <2>1, <2>2, <2>3, HandleJob DEF Busy, Rest
<1>5. CASE ~(s < NumSensors)
  <2>1. /\ \A d \in Control \ {c} : job'[d] = job[d]
        /\ job'[c] = Rest /\ arrayRunning' = FALSE
    BY <1>1, <1>5, NextSensorEffect
  <2>2. \A r \in Sensor : ~running'[r] /\ port'[r] = "closed"
    BY <1>2, <1>3, <1>5 DEF Sensor
  <2>3. \A r \in Sensor : running'[r] \in BOOLEAN
    OBVIOUS
  <2>4. Idle'
    BY <2>1, <2>2, <2>3, Zenon DEF Idle
  <2> QED
    BY <1>1, <2>1, <2>4, HandleJob
<1> QED
  BY <1>4, <1>5

\* A step of stopAll.
LEMMA HandleStop ==
    ASSUME TypeOK, HandleInv, ~overlap, NEW c \in Control, NEW s \in Sensor,
           StopHalt(c, s) \/ StopClose(c, s) \/ StopFree(c, s) \/ StopNull(c, s),
           UNCHANGED <<mainAt, created>>
    PROVE  HandleInv'
<1>1. /\ job[c] # Rest /\ job[c].of = s /\ Kept
      /\ mainAt = "wait" /\ job[c].last = NumSensors
      /\ job[c].op = "stop" /\ Stopping(s, job[c].step)
  BY DEF HandleInv, Busy, StopHalt, StopClose, StopFree, StopNull, At, Starting
<1>2. s \in Nat /\ \A r \in Sensor : r \in Nat
  BY Bounds DEF Sensor
<1>3. CASE StopHalt(c, s)
  <2>1. running' = [running EXCEPT ![s] = FALSE] /\ UNCHANGED <<term, port>>
    BY <1>3 DEF StopHalt
  <2>2. /\ ~running'[s] /\ running' \in [Sensor -> BOOLEAN]
        /\ \A r \in Sensor : r # s => running'[r] = running[r]
    BY <2>1 DEF TypeOK
  <2>3. Kept'
    BY <1>1, <2>1 DEF Kept
  <2>4. CASE term[s] = "null"
    <3>1. port'[s] = "closed" /\ NextSensor(c)
      BY <1>1, <1>3, <2>1, <2>4 DEF StopHalt, Kept, TypeOK
    <3> QED
      BY <1>1, <2>1, <2>2, <2>3, <3>1, HandleStopped
  <2>5. CASE term[s] # "null"
    <3>1. /\ \A d \in Control \ {c} : job'[d] = job[d]
          /\ job'[c] = [op |-> "stop", of |-> s, step |-> "close", last |-> NumSensors]
      BY <1>1, <1>3, <2>5, GotoEffect DEF StopHalt, Steps
    <3>2. Stopping(s, "close")'
      BY <1>1, <2>1, <2>2 DEF Stopping
    <3> QED
      BY <1>1, <2>3, <3>1, <3>2, HandleJob DEF Busy, Rest
  <2> QED
    BY <2>4, <2>5
<1>4. CASE StopClose(c, s)
  <2>1. /\ \A d \in Control \ {c} : job'[d] = job[d]
        /\ job'[c] = [op |-> "stop", of |-> s, step |-> "free", last |-> NumSensors]
    BY <1>1, <1>4, GotoEffect DEF StopClose, Steps
  <2>2. /\ running' = running /\ term' = term
        /\ \A r \in Sensor \ {s} : port'[r] = port[r]
        /\ port'[s] = "closed" \/ (port'[s] = "open" /\ term[s] = "cur" /\ s \in Tcp)
    BY <1>1, <1>4 DEF StopClose, Closed, Kept, TypeOK
  <2>3. job[c].step = "close"
    BY <1>4 DEF StopClose, At
  <2>4. Stopping(s, "free")'
    BY <1>1, <1>2, <2>2, <2>3 DEF Stopping
  <2>5. Kept'
    BY <1>1, <2>2 DEF Kept
  <2> QED
    BY <1>1, <2>1, <2>4, <2>5, HandleJob DEF Busy, Rest
<1>5. CASE StopFree(c, s)
  <2>1. /\ \A d \in Control \ {c} : job'[d] = job[d]
        /\ job'[c] = [op |-> "stop", of |-> s, step |-> "null", last |-> NumSensors]
    BY <1>1, <1>5, GotoEffect DEF StopFree, Steps
  <2>2. job[c].step = "free"
    BY <1>5 DEF StopFree, At
  <2>3. port[s] = "closed" \/ (port[s] = "open" /\ term[s] = "cur" /\ s \notin Serial)
    BY <1>1, <2>2, Bounds DEF Stopping, Kept, TypeOK
  <2>4. /\ running' = running /\ port'[s] = "closed"
        /\ \A r \in Sensor \ {s} : port'[r] = port[r] /\ term'[r] = term[r]
    BY <1>5, <2>3 DEF StopFree, Delete, Deleted, TypeOK
  <2>5. Stopping(s, "null")'
    BY <1>1, <1>2, <2>2, <2>4 DEF Stopping
  <2>6. Kept'
    BY <1>1, <2>4 DEF Kept
  <2> QED
    BY <1>1, <2>1, <2>5, <2>6, HandleJob DEF Busy, Rest
<1>6. CASE StopNull(c, s)
  <2>1. job[c].step = "null" /\ NextSensor(c)
    BY <1>6 DEF StopNull, At
  <2>2. ~running[s] /\ port[s] = "closed"
    BY <1>1, <2>1 DEF Stopping
  <2>3. /\ running' = running /\ port' = port
        /\ \A r \in Sensor \ {s} : term'[r] = term[r]
    BY <1>6, <2>2 DEF StopNull, Overwrite, TypeOK
  <2>4. Kept'
    BY <1>1, <2>2, <2>3 DEF Kept
  <2>5. running' \in [Sensor -> BOOLEAN]
    BY <2>3 DEF TypeOK
  <2> QED
    BY <1>1, <2>1, <2>2, <2>3, <2>4, <2>5, HandleStopped
<1> QED
  BY <1>3, <1>4, <1>5, <1>6

\* A command, or the start-up, begins where neither meets the other.
LEMMA HandleBegin ==
    ASSUME TypeOK, HandleInv, ~overlap', NEW c \in Control, NEW op \in {"start", "stop"},
           Begin(c, op), mainAt' = "wait", created = NumSensors
    PROVE  HandleInv'
<1>1. ~overlap /\ (op = "start" => \A s \in Sensor : ~running[s])
  BY DEF Begin
<1>2. \A d \in Control : job[d] = Rest
  BY DEF Begin
<1>3. Kept /\ Idle
  BY <1>1, <1>2 DEF HandleInv
<1>4. UNCHANGED <<term, port, running, created>>
  BY DEF Begin, sensorVars
<1>5. Kept' /\ created' = NumSensors /\ \A d \in Control \ {c} : job'[d] = Rest
  BY <1>2, <1>3, <1>4 DEF Kept, Begin, TypeOK
<1>6. CASE created = 0
  <2>1. Sensor = {} /\ job'[c] = Rest
    BY <1>6 DEF Sensor, Begin, TypeOK
  <2> QED
    BY <1>5, <2>1 DEF HandleInv, Idle
<1>7. CASE created # 0
  <2>1. job'[c] = [op |-> op, of |-> 1, step |-> FirstStep(op), last |-> NumSensors]
    BY <1>7 DEF Begin, TypeOK
  <2>2. 1 \in Sensor /\ \A s \in Sensor : s \in Nat /\ s >= 1
    BY <1>7, Bounds DEF Sensor
  <2>3. op = "start" => Starting(1, "delete")'
    BY <1>1, <1>3, <1>4, <2>2 DEF Starting, Idle
  <2>4. op = "stop" => Stopping(1, "halt")'
    BY <2>2 DEF Stopping
  <2>5. Busy(c)'
    BY <2>1, <2>2, <2>3, <2>4 DEF Busy, FirstStep
  <2>6. job'[c] # Rest
    BY <2>1 DEF Rest
  <2> QED
    BY <1>5, <2>5, <2>6 DEF HandleInv
<1> QED
  BY <1>6, <1>7

\* As long as every Start finds the sensors stopped and no Start or Stop meets another or
\* the start-up, the handle of every COM port stays with the terminal that closes it and
\* SensorArray::running says whether the sensors run; for any sensors and commands.
THEOREM Handles == Spec => []HandleKept
<1>1. Init => HandleInv
  <2> SUFFICES ASSUME Init PROVE HandleInv
    OBVIOUS
  <2>1. mainAt = "create" /\ \A c \in Control : job[c] = Rest
    BY DEF Init
  <2>2. Kept
    BY DEF Init, Kept
  <2>3. Idle
    BY DEF Init, Idle
  <2> QED
    BY <2>1, <2>2, <2>3 DEF HandleInv
<1>2. TypeOK /\ HandleInv /\ [Next]_vars => HandleInv'
  <2> SUFFICES ASSUME TypeOK, HandleInv, [Next]_vars, ~overlap'
               PROVE  HandleInv'
    BY DEF HandleInv
  <2>1. CASE MainCreate
    <3>1. mainAt # "wait" /\ ~overlap
      BY <2>1 DEF MainCreate, HandleInv, TypeOK, Sensor
    <3>2. UNCHANGED <<mainAt, term, port, running, job, arrayRunning, overlap>>
      BY <2>1 DEF MainCreate, sensorVars
    <3>3. Kept' /\ (Idle => Idle')
      BY <3>1, <3>2 DEF HandleInv, Kept, Idle
    <3>4. \A c \in Control : job[c] = Rest
      BY <3>1 DEF HandleInv, Busy
    <3> QED
      BY <3>1, <3>2, <3>3, <3>4 DEF HandleInv
  <2>2. CASE MainStart
    BY <2>2, HandleBegin DEF MainStart, Control
  <2>3. ASSUME NEW op \in {"start", "stop"}, Command(op)
        PROVE  HandleInv'
    <3>1. Begin("command", op) /\ mainAt' = mainAt
      BY <2>3 DEF Command
    <3>2. mainAt = "wait" /\ ~overlap
      BY <3>1 DEF Begin, TypeOK
    <3>3. created = NumSensors
      BY <3>2 DEF HandleInv
    <3> QED
      BY <3>1, <3>2, <3>3, HandleBegin DEF Control
  <2>4. ASSUME NEW c \in Control, NEW s \in Sensor, ControlStep(c, s)
        PROVE  HandleInv'
    <3>1. ~overlap /\ UNCHANGED <<mainAt, created>>
      BY <2>4 DEF ControlStep
    <3> QED
      BY <2>4, <3>1, HandleStart, HandleStop DEF ControlStep
  <2>5. ASSUME UNCHANGED <<mainAt, created, term, port, running, job, arrayRunning, overlap>>
        PROVE  HandleInv'
    BY <2>5 DEF HandleInv, Kept, Busy, Starting, Stopping, Idle
  <2>6. ASSUME NEW s \in Sensor, Thread(s)
        PROVE  HandleInv'
    BY <2>5, <2>6 DEF Thread, ReaderTakes, ReaderReads, ProcessorTakes, ProcessorPulls,
                      threadVars, controlVars
  <2>7. Second \/ UNCHANGED vars => HandleInv'
    BY <2>5 DEF Second, threadVars, controlVars, vars, sensorVars
  <2> QED
    BY <2>1, <2>2, <2>3, <2>4, <2>6, <2>7 DEF Next
<1>3. HandleInv => HandleKept
  BY DEF HandleInv, HandleKept, Kept, Idle
<1> QED
  BY <1>1, <1>2, <1>3, TypeCorrect, PTL DEF Spec

-----------------------------------------------------------------------------
(* Lost handles *)

\* Threads work on sensors that have been pushed.
Pushed ==
    /\ \A c \in Control : job[c].of <= job[c].last /\ job[c].last <= created
    /\ \A s \in Sensor : running[s] => s <= created

LEMMA PushedControl ==
    ASSUME TypeOK, Pushed, NEW c \in Control, NEW s \in Sensor, ControlStep(c, s)
    PROVE  Pushed'
<1>1. created' = created
  BY DEF ControlStep
<1>j. job[c] \in Job
  BY DEF TypeOK
<1>2. \A d \in Control \ {c} : job'[d] = job[d]
  BY GotoEffect, NextSensorEffect
     DEF ControlStep, StartDelete, StartNew, StartOpen, StartRun, StopHalt, StopClose,
         StopFree, StopNull, Steps
<1>3. job'[c].of <= job'[c].last /\ job'[c].last <= created
  <2>1. ASSUME NEW step \in Steps, Goto(c, step)
        PROVE  job'[c].of <= job'[c].last /\ job'[c].last <= created
    <3>1. job'[c] = [op |-> job[c].op, of |-> job[c].of, step |-> step, last |-> job[c].last]
      BY <2>1, GotoEffect
    <3> QED
      BY <3>1 DEF Pushed
  <2>2. ASSUME NextSensor(c)
        PROVE  job'[c].of <= job'[c].last /\ job'[c].last <= created
    <3>1. CASE job[c].of < job[c].last
      <4>1. /\ job'[c].of = job[c].of + 1 /\ job'[c].last = job[c].last
            /\ job[c].of \in Nat /\ job[c].last \in Nat
        <5>1. job'[c] = [op |-> job[c].op, of |-> job[c].of + 1,
                         step |-> FirstStep(job[c].op), last |-> job[c].last]
          BY <2>2, <3>1, NextSensorEffect
        <5> QED
          BY <1>j, <5>1 DEF Job
      <4> QED
        BY <3>1, <4>1 DEF Pushed
    <3>2. CASE ~(job[c].of < job[c].last)
      <4>1. job'[c] = Rest
        BY <2>2, <3>2, NextSensorEffect
      <4> QED
        BY <4>1 DEF Rest, TypeOK
    <3> QED
      BY <3>1, <3>2
  <2> QED
    BY <2>1, <2>2
       DEF ControlStep, StartDelete, StartNew, StartOpen, StartRun, StopHalt, StopClose,
           StopFree, StopNull, Steps
<1>4. \A r \in Sensor : running'[r] => s = r \/ running[r]
  BY DEF ControlStep, StartDelete, StartNew, StartOpen, StartRun, StopHalt, StopClose,
         StopFree, StopNull, Delete, Overwrite, TypeOK
<1>5. s <= created
  <2>1. job[c].of = s
    BY DEF ControlStep, StartDelete, StartNew, StartOpen, StartRun, StopHalt, StopClose,
           StopFree, StopNull, At
  <2>2. s \in Nat /\ job[c].last \in Nat /\ created \in Nat
    BY <1>j DEF Sensor, Job, TypeOK
  <2> QED
    BY <2>1, <2>2 DEF Pushed
<1> QED
  BY <1>1, <1>2, <1>3, <1>4, <1>5 DEF Pushed

LEMMA PushedBegin ==
    ASSUME TypeOK, Pushed, NEW c \in Control, NEW op \in {"start", "stop"}, Begin(c, op)
    PROVE  Pushed'
<1>1. created' = created /\ running' = running /\ \A d \in Control \ {c} : job'[d] = job[d]
  BY DEF Begin, sensorVars, TypeOK
<1>2. created \in Nat
  BY DEF TypeOK
<1>3. CASE created = 0
  BY <1>1, <1>3 DEF Begin, TypeOK, Pushed, Rest
<1>4. CASE created # 0
  <2>1. job'[c].of = 1 /\ job'[c].last = created
    BY <1>4 DEF Begin, TypeOK
  <2> QED
    BY <1>1, <1>2, <1>4, <2>1 DEF Pushed
<1> QED
  BY <1>3, <1>4

LEMMA PushedStep == TypeOK /\ Pushed /\ [Next]_vars => Pushed'
<1> SUFFICES ASSUME TypeOK, Pushed, [Next]_vars PROVE Pushed'
  OBVIOUS
<1>1. CASE MainCreate
  <2>1. /\ created' = created + 1 /\ created \in Nat /\ UNCHANGED <<job, running>>
        /\ \A c \in Control : job[c].last \in Nat
    BY <1>1 DEF MainCreate, sensorVars, TypeOK, Job
  <2>2. \A s \in Sensor : s \in Nat
    BY DEF Sensor
  <2> QED
    BY <2>1, <2>2 DEF Pushed
<1>2. CASE MainStart
  BY <1>2, PushedBegin DEF MainStart, Control
<1>3. ASSUME NEW op \in {"start", "stop"}, Command(op) PROVE Pushed'
  BY <1>3, PushedBegin DEF Command, Control
<1>4. ASSUME NEW c \in Control, NEW s \in Sensor, ControlStep(c, s) PROVE Pushed'
  BY <1>4, PushedControl
<1>5. ASSUME UNCHANGED <<created, job, running>> PROVE Pushed'
  BY <1>5 DEF Pushed
<1>6. ASSUME NEW s \in Sensor, Thread(s) PROVE Pushed'
  BY <1>5, <1>6 DEF Thread, ReaderTakes, ReaderReads, ProcessorTakes, ProcessorPulls,
                    threadVars, controlVars
<1>7. Second \/ UNCHANGED vars => Pushed'
  BY <1>5 DEF Second, threadVars, controlVars, vars, sensorVars
<1> QED
  BY <1>1, <1>2, <1>3, <1>4, <1>6, <1>7 DEF Next

LEMMA PushedAlways == Spec => []Pushed
<1>1. Init => Pushed
  BY DEF Init, Pushed, Rest
<1> QED
  BY <1>1, PushedStep, TypeCorrect, PTL DEF Spec

Lost(s)      == port[s] = "lost"
OutOfTime(s) == quiet[s] > SilenceLimit
Resting(s)   == reader[s] = "rest"

\* No open, close or deletion brings a lost handle back.
LEMMA LostStays ==
    ASSUME TypeOK, NEW s \in Serial, Lost(s), [Next]_vars
    PROVE  Lost(s)'
<1>s. s \in Sensor
  BY SensorAssumption
<1>1. ASSUME NEW c \in Control, NEW r \in Sensor, ControlStep(c, r) PROVE Lost(s)'
  <2>1. CASE StartDelete(c, r) \/ StopFree(c, r)
    BY <1>s, <2>1 DEF StartDelete, StopFree, Delete, Deleted, TypeOK, Lost
  <2>2. CASE StartNew(c, r) \/ StopNull(c, r)
    BY <1>s, <2>2 DEF StartNew, StopNull, Overwrite, TypeOK, Lost
  <2>3. CASE StartOpen(c, r)
    BY <1>s, <2>3 DEF StartOpen, Opened, SerialOpened, TypeOK, Lost
  <2>4. CASE StopClose(c, r)
    BY <1>s, <2>4 DEF StopClose, Closed, TypeOK, Lost
  <2>5. CASE StartRun(c, r) \/ StopHalt(c, r)
    BY <2>5 DEF StartRun, StopHalt, Lost
  <2> QED
    BY <1>1, <2>1, <2>2, <2>3, <2>4, <2>5 DEF ControlStep
<1>2. ASSUME UNCHANGED port PROVE Lost(s)'
  BY <1>2 DEF Lost
<1>3. ASSUME NEW r \in Sensor, Thread(r) PROVE Lost(s)'
  BY <1>2, <1>3 DEF Thread, ReaderTakes, ReaderReads, ProcessorTakes, ProcessorPulls,
                    threadVars, controlVars
<1> QED
  BY <1>1, <1>2, <1>3
     DEF Next, MainCreate, MainStart, Command, Begin, Second, threadVars, vars, sensorVars

\* What a step does to the reader of a sensor whose port is lost: it hears nothing.
LEMMA LostUnheard ==
    ASSUME TypeOK, NEW s \in Sensor, Lost(s), [Next]_vars
    PROVE  /\ alive'[s] => alive[s]
           /\ quiet'[s] >= quiet[s]
           /\ ~Resting(s) /\ Resting(s)' => (OutOfTime(s) => ~alive'[s])
<1>q. quiet[s] \in Nat /\ quiet \in [Sensor -> 0..(SilenceLimit + 1)]
  BY Bounds DEF TypeOK
<1>1. ASSUME UNCHANGED <<alive, quiet>>, Resting(s)' <=> Resting(s)
      PROVE  /\ alive'[s] => alive[s]
             /\ quiet'[s] >= quiet[s]
             /\ ~Resting(s) /\ Resting(s)' => (OutOfTime(s) => ~alive'[s])
  BY <1>q, <1>1
<1>2. ASSUME NEW r \in Sensor, ReaderTakes(r) \/ ReaderReads(r)
      PROVE  /\ alive'[s] => alive[s]
             /\ quiet'[s] >= quiet[s]
             /\ ~Resting(s) /\ Resting(s)' => (OutOfTime(s) => ~alive'[s])
  <2>1. CASE r # s
    <3>1. alive'[s] = alive[s] /\ quiet'[s] = quiet[s]
      BY <1>2, <2>1 DEF ReaderTakes, ReaderReads, Heard, Unheard, TypeOK
    <3>2. reader'[s] = reader[s]
      BY <1>2, <2>1 DEF ReaderTakes, ReaderReads, TypeOK
    <3> QED
      BY <1>q, <3>1, <3>2 DEF Resting
  <2>2. CASE r = s /\ ReaderTakes(s)
    <3>1. Resting(s)
      BY <2>2 DEF ReaderTakes, Resting
    <3>2. quiet'[s] = quiet[s] /\ (alive'[s] => alive[s])
      BY <2>2 DEF ReaderTakes, Unheard, TypeOK
    <3> QED
      BY <1>q, <3>1, <3>2
  <2>3. CASE r = s /\ ReaderReads(s)
    <3>1. Unheard(s)
      BY <2>3 DEF ReaderReads, Lost
    <3>2. quiet'[s] = quiet[s] /\ (alive'[s] <=> alive[s] /\ quiet[s] <= SilenceLimit)
      BY <3>1 DEF Unheard, TypeOK
    <3> QED
      BY <1>q, <3>2, Bounds DEF OutOfTime
  <2> QED
    BY <1>2, <2>1, <2>2, <2>3
<1>3. ASSUME NEW r \in Sensor, ProcessorTakes(r) \/ ProcessorPulls(r)
      PROVE  UNCHANGED <<alive, quiet, reader>>
  BY <1>3 DEF ProcessorTakes, ProcessorPulls
<1>4. ASSUME NEW c \in Control, NEW r \in Sensor, ControlStep(c, r)
      PROVE  UNCHANGED <<alive, quiet>> /\ (Resting(s)' <=> Resting(s))
  <2>1. CASE StartDelete(c, r) \/ StopFree(c, r)
    BY <2>1 DEF StartDelete, StopFree, Delete, Dead, TypeOK, Resting
  <2>2. CASE ~(StartDelete(c, r) \/ StopFree(c, r))
    BY <1>4, <2>2 DEF ControlStep, StartNew, StopNull, Overwrite, StartOpen, StartRun,
                      StopHalt, StopClose, Resting
  <2> QED
    BY <2>1, <2>2
<1>5. ASSUME Second
      PROVE  UNCHANGED <<alive, reader>> /\ quiet'[s] >= quiet[s]
  BY <1>q, <1>5 DEF Second
<1>6. MainCreate \/ MainStart \/ (\E op \in {"start", "stop"} : Command(op)) \/ UNCHANGED vars
        => UNCHANGED <<alive, quiet, reader>>
  BY DEF MainCreate, MainStart, Command, Begin, vars, sensorVars
<1> QED
  BY <1>1, <1>2, <1>3, <1>4, <1>5, <1>6 DEF Next, Thread, Resting

\* Of ENABLED nothing can be proved: that the steps the fairness is about can be taken, and
\* change something, where their guards say so is a hypothesis.
ReaderGuards(s) ==
    /\ ~crashed /\ reader[s] # "rest" => ENABLED <<Reading(s)>>_vars
    /\ /\ ~crashed /\ reader[s] = "rest" /\ running[s] /\ s <= created
       /\ term[s] # "null" \/ (alive[s] /\ quiet[s] > SilenceLimit)
       => ENABLED <<Reading(s)>>_vars
    /\ ~crashed /\ quiet[s] <= SilenceLimit => ENABLED <<SecondPasses>>_vars

ThreadGuards == \A s \in Sensor : ReaderGuards(s)

\* The seconds of a silence add up: it ends, or lasts longer than the limit. This is induction
\* over the seconds, which cannot be made on temporal formulas, and a hypothesis too.
SilenceAddsUp(s) == []<>(crashed \/ quiet[s] = 0 \/ quiet[s] > SilenceLimit)

\* A COM port whose handle was lost is seen by the operator to be dead, for any sensors,
\* commands and limit: no Start opens it, the reader hears nothing, and a pass of the reader
\* over the silence takes the sensor's life.
THEOREM LostIsSeen ==
    FairSpec /\ []ThreadGuards /\ (\A s \in Sensor : SilenceAddsUp(s)) => LostShownDead
<1> SUFFICES ASSUME NEW s \in Serial
             PROVE  FairSpec /\ []ThreadGuards /\ (\A r \in Sensor : SilenceAddsUp(r))
                      => (port[s] = "lost" ~> crashed \/ ~running[s] \/ ~alive[s])
  BY DEF LostShownDead
<1>s. s \in Sensor
  BY SensorAssumption
<1> DEFINE I == TypeOK /\ Pushed
           Seen == crashed \/ ~running[s] \/ ~alive[s]
           Fresh == quiet[s] = 0
<1>1. FairSpec => []I /\ [][Next]_vars
  BY TypeCorrect, PushedAlways, PTL DEF FairSpec, Spec
<1>2. FairSpec => WF_vars(Reading(s)) /\ WF_vars(SecondPasses)
  <2>1. FairSpec => ThreadFairness(s) /\ GlobalFairness
    BY <1>s DEF FairSpec
  <2> QED
    BY <2>1, PTL DEF ThreadFairness, GlobalFairness
<1>3. ThreadGuards => ReaderGuards(s)
  BY <1>s DEF ThreadGuards
<1>4. (\A r \in Sensor : SilenceAddsUp(r)) => SilenceAddsUp(s)
  BY <1>s
<1>5. I /\ [Next]_vars /\ Lost(s) => Lost(s)'
  BY LostStays
<1>6. I /\ [Next]_vars /\ Lost(s) =>
        /\ ~Fresh => ~Fresh'
        /\ OutOfTime(s) => OutOfTime(s)'
        /\ ~Resting(s) => ~Resting(s)' \/ (OutOfTime(s) => Seen')
  <2> SUFFICES ASSUME TypeOK, [Next]_vars, Lost(s)
               PROVE  /\ ~Fresh => ~Fresh'
                      /\ OutOfTime(s) => OutOfTime(s)'
                      /\ ~Resting(s) => ~Resting(s)' \/ (OutOfTime(s) => Seen')
    OBVIOUS
  <2>1. TypeOK'
    BY TypeStep
  <2>2. quiet[s] \in Nat /\ quiet'[s] \in Nat /\ SilenceLimit \in Nat
    BY <1>s, <2>1, Bounds DEF TypeOK
  <2>3. /\ quiet'[s] >= quiet[s]
        /\ ~Resting(s) /\ Resting(s)' => (OutOfTime(s) => ~alive'[s])
    BY <1>s, LostUnheard
  <2> QED
    BY <2>2, <2>3 DEF OutOfTime
<1>7. I /\ <<SecondPasses>>_vars => ~Fresh'
  BY <1>s, Bounds DEF SecondPasses, Second, TypeOK
<1>8. I /\ Lost(s) /\ OutOfTime(s) /\ <<Reading(s)>>_vars => Seen' \/ (Resting(s) /\ ~Resting(s)')
  <2> SUFFICES ASSUME TypeOK, Lost(s), OutOfTime(s), Reading(s), alive'[s]
               PROVE  Resting(s) /\ ~Resting(s)'
    OBVIOUS
  <2>1. ~Unheard(s)
    <3>1. Unheard(s) => (alive'[s] <=> alive[s] /\ quiet[s] <= SilenceLimit)
      BY <1>s DEF Unheard, TypeOK
    <3> QED
      BY <1>s, <3>1, Bounds DEF OutOfTime, TypeOK
  <2>2. ReaderTakes(s)
    BY <2>1 DEF Reading, ReaderReads, Lost
  <2> QED
    BY <1>s, <2>1, <2>2 DEF ReaderTakes, Resting, Taken, TypeOK
<1>9. I /\ ReaderGuards(s) =>
        /\ ~crashed /\ Fresh => ENABLED <<SecondPasses>>_vars
        /\ OutOfTime(s) /\ ~Seen => ENABLED <<Reading(s)>>_vars
  <2>1. Fresh => quiet[s] <= SilenceLimit
    BY Bounds
  <2>2. I /\ OutOfTime(s) /\ ~Seen =>
          /\ ~crashed /\ running[s] /\ s <= created /\ alive[s] /\ quiet[s] > SilenceLimit
          /\ reader[s] # "rest" \/ reader[s] = "rest"
    BY <1>s DEF Pushed, OutOfTime
  <2> QED
    BY <2>1, <2>2, PTL DEF ReaderGuards
<1>10. SilenceAddsUp(s) => []<>(crashed \/ Fresh \/ OutOfTime(s))
  BY PTL DEF SilenceAddsUp, OutOfTime
<1> HIDE DEF I, Seen, Fresh
<1>11. FairSpec /\ []ThreadGuards /\ SilenceAddsUp(s) => (Lost(s) ~> crashed \/ (Lost(s) /\ OutOfTime(s)))
  BY <1>1, <1>2, <1>3, <1>5, <1>6, <1>7, <1>9, <1>10, PTL
<1>12. FairSpec /\ []ThreadGuards => (Lost(s) /\ OutOfTime(s) ~> Seen)
  BY <1>1, <1>2, <1>3, <1>5, <1>6, <1>8, <1>9, PTL
<1>13. crashed => Seen
  BY DEF Seen
<1>14. FairSpec /\ []ThreadGuards /\ SilenceAddsUp(s) => (Lost(s) ~> Seen)
  BY <1>11, <1>12, <1>13, PTL
<1>15. Lost(s) <=> port[s] = "lost"
  BY DEF Lost
<1> QED
  BY <1>4, <1>14, <1>15, PTL DEF Seen

=============================================================================
