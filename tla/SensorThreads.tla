--------------------------- MODULE SensorThreads ---------------------------
(***************************************************************************)
(* The sensors of the daemon: each has a reader and a processor thread     *)
(* that use its terminal (the object that holds the port and the queue of  *)
(* received bytes), while startAll and stopAll, run by the main thread and *)
(* by the command thread, create, open, close and delete it. Sensor::locker *)
(* is taken by the reader thread alone, so nothing orders these steps.     *)
(*                                                                         *)
(* A terminal is seen through Sensor::terminal: "null", "cur" (an object)  *)
(* or "dangling" (deleted, not yet overwritten). A thread that took the    *)
(* pointer "holds" it until it is done, and has it "dead" once the object  *)
(* is deleted. What the use of a deleted object does is undefined: the     *)
(* process ends (crashed), or nothing happens.                             *)
(***************************************************************************)
EXTENDS Naturals

CONSTANTS
    NumSensors,    \* the sensors have the indices 1..NumSensors
    Serial,        \* those on a COM port, which one handle at a time can open
    Tcp,           \* those that connect to a TCP server; the others are on UDP
    Talking,       \* those whose talker may send
    SilenceLimit,  \* seconds without data after which a sensor is not alive
    MaxCommands    \* bound: Start and Stop commands received

Sensor == 1..NumSensors
Control == {"main", "command"}

ASSUME SensorAssumption ==
    /\ NumSensors \in Nat
    /\ Serial \subseteq Sensor
    /\ Tcp \subseteq Sensor \ Serial
    /\ Talking \subseteq Sensor
    /\ SilenceLimit \in Nat
    /\ MaxCommands \in Nat

VARIABLES
    mainAt,     \* mainProc: "create", or "wait" once it has begun its startAll
    created,    \* how many sensors createAll has pushed
    term,       \* Sensor::terminal
    port,       \* the sensor's port: "closed", "open", or "lost": open, but no terminal has the handle
    running,    \* Sensor::running
    alive,      \* Sensor::alive
    quiet,      \* seconds since lastDataAt, up to SilenceLimit + 1
    queued,     \* lines wait in the terminal's queue
    reader,     \* the reader thread: "rest", "holds" or "dead"
    processor,  \* the processor thread, also "loop": between two lines
    job,        \* what startAll or stopAll a thread is in, at which sensor and step
    arrayRunning,  \* SensorArray::running, which the heartbeat reports
    crashed,    \* the process has ended
    commands,   \* how many commands were received (bounds the model)
    overlap     \* startAll and stopAll met, or a started sensor was started (history)

sensorVars == <<term, port, running, alive, quiet, queued, reader, processor>>
vars == <<mainAt, created, sensorVars, job, arrayRunning, crashed, commands, overlap>>

Steps == {"delete", "new", "open", "run", "halt", "close", "free", "null"}
Job == [op : {"rest", "start", "stop"}, of : 0..NumSensors, step : Steps, last : 0..NumSensors]
Rest == [op |-> "rest", of |-> 0, step |-> "delete", last |-> 0]

TypeOK ==
    /\ mainAt \in {"create", "wait"}
    /\ created \in 0..NumSensors
    /\ term \in [Sensor -> {"null", "cur", "dangling"}]
    /\ port \in [Sensor -> {"closed", "open", "lost"}]
    /\ running \in [Sensor -> BOOLEAN]
    /\ alive \in [Sensor -> BOOLEAN]
    /\ quiet \in [Sensor -> 0..(SilenceLimit + 1)]
    /\ queued \in [Sensor -> BOOLEAN]
    /\ reader \in [Sensor -> {"rest", "holds", "dead"}]
    /\ processor \in [Sensor -> {"rest", "loop", "holds", "dead"}]
    /\ job \in [Control -> Job]
    /\ arrayRunning \in BOOLEAN
    /\ crashed \in BOOLEAN
    /\ commands \in 0..MaxCommands
    /\ overlap \in BOOLEAN

Init ==
    /\ mainAt = "create"
    /\ created = 0
    /\ term = [s \in Sensor |-> "null"]
    /\ port = [s \in Sensor |-> "closed"]
    /\ running = [s \in Sensor |-> FALSE]
    /\ alive = [s \in Sensor |-> FALSE]
    /\ quiet = [s \in Sensor |-> SilenceLimit + 1]
    /\ queued = [s \in Sensor |-> FALSE]
    /\ reader = [s \in Sensor |-> "rest"]
    /\ processor = [s \in Sensor |-> "rest"]
    /\ job = [c \in Control |-> Rest]
    /\ arrayRunning = FALSE
    /\ crashed = FALSE
    /\ commands = 0
    /\ overlap = FALSE

-----------------------------------------------------------------------------
(* Terminals *)

\* What the port of sensor s is left as when its terminal is deleted: the serial reader's
\* destructor does not close the handle, and Reader's calls Reader::close; the socket of
\* the other readers is closed with its object.
Deleted(s) == IF port[s] = "open" /\ s \in Serial THEN "lost"
              ELSE IF port[s] = "open" THEN "closed" ELSE port[s]

\* What SerialReader::open may leave the port as. A COM port that is open cannot be opened
\* again; a terminal that tries drops the handle it has.
SerialOpened(s) == IF port[s] = "closed" THEN {"open", "closed"} ELSE {"lost"}

\* UDPReader::open and TCPReader::open make a new socket, which may not be bound or
\* connected; nobody tries again.
SocketOpened(s) == {"open", "closed"}

Opened(s) == IF s \in Serial THEN SerialOpened(s) ELSE SocketOpened(s)

\* What close leaves the port as. TCPReader::open does not set opened, so that its close
\* does nothing.
Closed(s) == IF port[s] = "open" /\ s \notin Tcp THEN "closed" ELSE port[s]

\* Threads that hold the terminal of s when it is deleted.
Dead(held) == IF held = "holds" THEN "dead" ELSE held

\* The use of a terminal that was deleted: the process may survive it.
Undefined == crashed' \in BOOLEAN

-----------------------------------------------------------------------------
(* startAll and stopAll *)

FirstStep(op) == IF op = "start" THEN "delete" ELSE "halt"

\* Thread c begins a startAll or stopAll over the sensors pushed so far.
Begin(c, op) ==
    /\ job[c] = Rest
    /\ job' = [job EXCEPT ![c] =
         IF created = 0 THEN Rest
         ELSE [op |-> op, of |-> 1, step |-> FirstStep(op), last |-> created]]
    /\ arrayRunning' = IF created = 0 THEN op = "start" ELSE arrayRunning
    /\ overlap' = (overlap \/ (mainAt = "create" /\ c = "command")
                     \/ (\E d \in Control \ {c} : job[d] # Rest)
                     \/ (op = "start" /\ \E s \in Sensor : running[s]))
    /\ UNCHANGED <<created, sensorVars, crashed>>

\* SensorArray::createAll, one push_back: the vector may move under a thread that
\* iterates over it.
MainCreate ==
    /\ created < NumSensors
    /\ created' = created + 1
    /\ IF job["command"] = Rest THEN UNCHANGED crashed ELSE Undefined
    /\ UNCHANGED <<mainAt, sensorVars, job, arrayRunning, commands, overlap>>

\* Mutant: startAll is repeated.
MainStartAgain ==
    /\ created = NumSensors
    /\ mainAt' = "wait"
    /\ Begin("main", "start")
    /\ UNCHANGED commands

\* mainProc calls startAll once, after createAll; then it waits for ever.
MainStart ==
    /\ mainAt = "create"
    /\ created = NumSensors
    /\ mainAt' = "wait"
    /\ Begin("main", "start")
    /\ UNCHANGED commands

\* The node receives a Start or Stop: it listens since before createAll.
Command(op) ==
    /\ commands < MaxCommands
    /\ commands' = commands + 1
    /\ Begin("command", op)
    /\ UNCHANGED mainAt

\* Thread c goes to the next sensor, or is done and sets SensorArray::running.
NextSensor(c) ==
    LET j == job[c] IN
    IF j.of < j.last
      THEN /\ job' = [job EXCEPT ![c] = [op |-> j.op, of |-> j.of + 1,
                                         step |-> FirstStep(j.op), last |-> j.last]]
           /\ UNCHANGED arrayRunning
      ELSE /\ job' = [job EXCEPT ![c] = Rest]
           /\ arrayRunning' = (j.op = "start")

Goto(c, step) ==
    /\ job' = [job EXCEPT ![c] = [@ EXCEPT !.step = step]]
    /\ UNCHANGED arrayRunning

\* Thread c is at this step of start or stop of sensor s.
At(c, step, s) == job[c] # Rest /\ job[c].step = step /\ job[c].of = s

\* delete terminal, by createTerminal or stop: the pointer still has its value, and the
\* queue goes with the object.
Delete(s) ==
    /\ term' = [term EXCEPT ![s] = IF term[s] = "cur" THEN "dangling" ELSE term[s]]
    /\ port' = [port EXCEPT ![s] = IF term[s] = "cur" THEN Deleted(s) ELSE port[s]]
    /\ queued' = [queued EXCEPT ![s] = FALSE]
    /\ reader' = [reader EXCEPT ![s] = Dead(reader[s])]
    /\ processor' = [processor EXCEPT ![s] = Dead(processor[s])]
    /\ IF term[s] = "dangling" THEN Undefined ELSE UNCHANGED crashed
    /\ UNCHANGED <<running, alive, quiet>>

\* Sensor::terminal is overwritten; the object another thread has put there meanwhile is
\* lost with its handle.
Overwrite(s, value) ==
    /\ term' = [term EXCEPT ![s] = value]
    /\ port' = [port EXCEPT ![s] = IF term[s] = "cur" /\ port[s] = "open" THEN "lost" ELSE port[s]]
    /\ queued' = [queued EXCEPT ![s] = FALSE]
    /\ UNCHANGED <<running, alive, quiet, reader, processor, crashed>>

StartDelete(c, s) ==
    /\ At(c, "delete", s)
    /\ Delete(s)
    /\ Goto(c, "new")

StartNew(c, s) ==
    /\ At(c, "new", s)
    /\ Overwrite(s, "cur")
    /\ Goto(c, "open")

\* terminal->open (), whose result is not looked at.
StartOpen(c, s) ==
    /\ At(c, "open", s)
    /\ IF term[s] = "cur" THEN \E p \in Opened(s) : port' = [port EXCEPT ![s] = p]
                          ELSE UNCHANGED port
    /\ IF term[s] = "dangling" THEN Undefined ELSE UNCHANGED crashed
    /\ Goto(c, "run")
    /\ UNCHANGED <<term, running, alive, quiet, queued, reader, processor>>

StartRun(c, s) ==
    /\ At(c, "run", s)
    /\ running' = [running EXCEPT ![s] = TRUE]
    /\ NextSensor(c)
    /\ UNCHANGED <<term, port, alive, quiet, queued, reader, processor, crashed>>

\* running = false, and the test of the terminal.
StopHalt(c, s) ==
    /\ At(c, "halt", s)
    /\ running' = [running EXCEPT ![s] = FALSE]
    /\ IF term[s] = "null" THEN NextSensor(c) ELSE Goto(c, "close")
    /\ UNCHANGED <<term, port, alive, quiet, queued, reader, processor, crashed>>

\* Mutant: the terminal is deleted without being closed.
StopUnclosed(c, s) ==
    /\ At(c, "close", s)
    /\ IF term[s] = "cur" THEN UNCHANGED crashed ELSE Undefined
    /\ Goto(c, "free")
    /\ UNCHANGED <<term, port, running, alive, quiet, queued, reader, processor>>

\* terminal->close ()
StopClose(c, s) ==
    /\ At(c, "close", s)
    /\ port' = [port EXCEPT ![s] = IF term[s] = "cur" THEN Closed(s) ELSE port[s]]
    /\ IF term[s] = "cur" THEN UNCHANGED crashed ELSE Undefined
    /\ Goto(c, "free")
    /\ UNCHANGED <<term, running, alive, quiet, queued, reader, processor>>

StopFree(c, s) ==
    /\ At(c, "free", s)
    /\ Delete(s)
    /\ Goto(c, "null")

\* Mutant: the pointer keeps its value.
StopKeepsPointer(c, s) ==
    /\ At(c, "null", s)
    /\ NextSensor(c)
    /\ UNCHANGED <<sensorVars, crashed>>

StopNull(c, s) ==
    /\ At(c, "null", s)
    /\ Overwrite(s, "null")
    /\ NextSensor(c)

ControlStep(c, s) ==
    /\ \/ StartDelete(c, s) \/ StartNew(c, s) \/ StartOpen(c, s) \/ StartRun(c, s)
       \/ StopHalt(c, s) \/ StopClose(c, s) \/ StopFree(c, s) \/ StopNull(c, s)
    /\ UNCHANGED <<mainAt, created, commands, overlap>>

-----------------------------------------------------------------------------
(* The threads of a sensor *)

threadVars == <<term, port, running>>
controlVars == <<mainAt, created, job, arrayRunning, commands, overlap>>

\* What a thread has when it reads Sensor::terminal.
Taken(s) == IF term[s] = "cur" THEN "holds" ELSE "dead"

\* A pass of readerProc gets data, or none: after SilenceLimit seconds the sensor is not
\* alive.
Heard(s) ==
    /\ alive' = [alive EXCEPT ![s] = TRUE]
    /\ quiet' = [quiet EXCEPT ![s] = 0]

\* Mutant: a sensor stays alive.
UnheardAlive(s) == UNCHANGED <<alive, quiet>>

Unheard(s) ==
    /\ alive' = [alive EXCEPT ![s] = alive[s] /\ quiet[s] <= SilenceLimit]
    /\ UNCHANGED quiet

\* The reader finds its sensor running and takes the terminal.
ReaderTakes(s) ==
    /\ s <= created /\ reader[s] = "rest" /\ running[s]
    /\ IF term[s] = "null"
         THEN Unheard(s) /\ UNCHANGED reader
         ELSE reader' = [reader EXCEPT ![s] = Taken(s)] /\ UNCHANGED <<alive, quiet>>
    /\ UNCHANGED <<threadVars, queued, processor, controlVars, crashed>>

\* It reads what waits at the port, if the talker has sent something. The -1 of a socket
\* that fails is returned as a size: it counts as data.
ReaderReads(s) ==
    /\ reader[s] \in {"holds", "dead"}
    /\ reader' = [reader EXCEPT ![s] = "rest"]
    /\ \/ /\ reader[s] = "holds" /\ term[s] = "cur" /\ port[s] = "open" /\ s \in Talking
          /\ Heard(s)
          /\ queued' \in {[queued EXCEPT ![s] = TRUE]} \union IF s \in Serial THEN {} ELSE {queued}
       \/ Unheard(s) /\ UNCHANGED queued
    /\ IF reader[s] = "dead" THEN Undefined ELSE UNCHANGED crashed
    /\ UNCHANGED <<threadVars, processor, controlVars>>

\* The processor takes the terminal: its inner loop does not ask whether the sensor runs.
ProcessorTakes(s) ==
    /\ s <= created
    /\ processor[s] = "loop" \/ (processor[s] = "rest" /\ running[s])
    /\ processor' = [processor EXCEPT ![s] = IF term[s] = "null" THEN "rest" ELSE Taken(s)]
    /\ UNCHANGED <<threadVars, alive, quiet, queued, reader, controlVars, crashed>>

\* It pulls a line and processes it, or leaves the inner loop.
ProcessorPulls(s) ==
    /\ processor[s] \in {"holds", "dead"}
    /\ IF processor[s] = "holds" /\ queued[s]
         THEN /\ processor' = [processor EXCEPT ![s] = "loop"]
              /\ queued' \in {queued, [queued EXCEPT ![s] = FALSE]}
         ELSE /\ processor' = [processor EXCEPT ![s] = "rest"]
              /\ UNCHANGED queued
    /\ IF processor[s] = "dead" THEN Undefined ELSE UNCHANGED crashed
    /\ UNCHANGED <<threadVars, alive, quiet, reader, controlVars>>

\* A second passes.
Second ==
    /\ quiet' = [s \in Sensor |-> IF quiet[s] > SilenceLimit THEN quiet[s] ELSE quiet[s] + 1]
    /\ UNCHANGED <<threadVars, alive, queued, reader, processor, controlVars, crashed>>

Thread(s) == ReaderTakes(s) \/ ReaderReads(s) \/ ProcessorTakes(s) \/ ProcessorPulls(s)

Next ==
    /\ ~crashed
    /\ \/ MainCreate \/ MainStart
       \/ \E op \in {"start", "stop"} : Command(op)
       \/ \E c \in Control, s \in Sensor : ControlStep(c, s)
       \/ \E s \in Sensor : Thread(s)
       \/ Second

Spec == Init /\ [][Next]_vars

\* The threads are not starved; nothing is assumed of talkers and operators.
Reading(s)    == ~crashed /\ (ReaderTakes(s) \/ ReaderReads(s))
Processing(s) == ~crashed /\ (ProcessorTakes(s) \/ ProcessorPulls(s))
SecondPasses  == ~crashed /\ Second

GlobalFairness == WF_vars(~crashed /\ (MainCreate \/ MainStart)) /\ WF_vars(SecondPasses)
ControlFairness(c) == WF_vars(~crashed /\ \E s \in Sensor : ControlStep(c, s))
ThreadFairness(s)  == WF_vars(Reading(s)) /\ WF_vars(Processing(s))

FairSpec ==
    /\ Spec
    /\ GlobalFairness
    /\ \A c \in Control : ControlFairness(c)
    /\ \A s \in Sensor : ThreadFairness(s)

-----------------------------------------------------------------------------
(* Properties *)

\* A deleted terminal is reachable through Sensor::terminal only while a thread is inside
\* start or stop of that sensor: a command that is done leaves no dangling pointer.
DanglingOnlyInCommand ==
    \A s \in Sensor : term[s] = "dangling" =>
        \E c \in Control : job[c] # Rest /\ job[c].of = s /\ job[c].step \in {"new", "null"}

\* As long as Starts and Stops alternate and none meets the start-up, no COM port handle is
\* left without a terminal, and the sensors run exactly if the heartbeat says so.
HandleKept ==
    ~overlap =>
        /\ \A s \in Sensor : port[s] # "lost"
        /\ (\A c \in Control : job[c] = Rest) => \A s \in Sensor : running[s] = arrayRunning

\* Without commands the start-up cannot end the process, however the threads of the sensors
\* interleave with it.
StartUpSafe == commands = 0 => ~crashed

\* A COM port whose handle was lost is never opened again, and the operator gets to see it:
\* the sensor does not stay running and alive.
LostShownDead ==
    \A s \in Serial : port[s] = "lost" ~> crashed \/ ~running[s] \/ ~alive[s]

=============================================================================
