------------------------------ MODULE Console ------------------------------
(***************************************************************************)
(* The operator's console and the daemon, over UDP on one machine: the     *)
(* daemon reports its state every second, the main window shows it, and a  *)
(* click on its menu sends Start or Stop; a sensor's information window    *)
(* asks the daemon for raw data and shows what comes.                      *)
(*                                                                         *)
(* An information window listens, without need, on the command port too,   *)
(* with the address reused, and its socket outlives it. Which of several   *)
(* sockets bound to a port gets a datagram is undefined.                   *)
(***************************************************************************)
EXTENDS DaemonService, SequencesExt

CONSTANTS
    MaxClicks,   \* bound: clicks on Start or Stop
    MaxWindows,  \* bound: information windows opened
    HeartbeatGrace   \* OnTimer: seconds without heartbeat before the daemon is shown inactive

ASSUME ConsoleAssumption == MaxClicks \in Nat /\ MaxWindows \in Nat /\ HeartbeatGrace \in Nat

VARIABLES
    arrayRunning,  \* SensorArray::running
    started,       \* mainProc has called startAll
    listens,       \* the daemon's data node is bound to the command port
    forward,       \* sendRawData of the sensor
    inbox,         \* commands in the buffer of the daemon's socket
    shown,         \* daemonState of the main window
    age,           \* seconds since daemonStateUpdate
    window,        \* the information window: "none", "open", or "closing": the UI thread joins
    receiver,      \* its thread: "none", "starts", "listens", "adds" (in AddText), "ended"
    node,          \* its data node's socket: "none", "starts" or "bound"
    bound,         \* windows ever bound to the command port still are
    listening,     \* the window is not paused
    clicks,        \* clicks on Start or Stop (bounds the model)
    windows,       \* information windows opened (bounds the model)
    stale,         \* a click was made on a state that had changed or was to change (history)
    listened,      \* the window was not paused at some time since it opened (history)
    lost           \* a command of a window got lost or came to a process since gone (history)

linkVars == <<arrayRunning, started, listens, forward, inbox>>
mainVars == <<shown, age>>
windowVars == <<window, receiver, node, bound, listening>>
history == <<clicks, windows, stale, listened, lost>>
vars == <<serviceVars, linkVars, mainVars, windowVars, history>>

Commands == {"Start", "Stop", "RawOn", "RawOff"}
Request  == {"RawOn", "RawOff"}

TypeOK ==
    /\ ServiceTypeOK
    /\ arrayRunning \in BOOLEAN /\ started \in BOOLEAN /\ listens \in BOOLEAN /\ forward \in BOOLEAN
    /\ inbox \in Seq(Commands)
    /\ shown \in {"Inactive", "Running", "Stopped"}
    /\ age \in 0..HeartbeatGrace + 1
    /\ window \in {"none", "open", "closing"}
    /\ receiver \in {"none", "starts", "listens", "adds", "ended"}
    /\ node \in {"none", "starts", "bound"} /\ bound \in BOOLEAN
    /\ listening \in BOOLEAN
    /\ clicks \in 0..MaxClicks /\ windows \in 0..MaxWindows
    /\ stale \in BOOLEAN /\ listened \in BOOLEAN /\ lost \in BOOLEAN

Init ==
    /\ ServiceInit
    /\ arrayRunning = FALSE /\ started = FALSE /\ listens = FALSE /\ forward = FALSE
    /\ inbox = << >>
    /\ shown = "Inactive" /\ age = HeartbeatGrace + 1
    /\ window = "none" /\ receiver = "none" /\ node = "none" /\ bound = FALSE
    /\ listening = FALSE
    /\ clicks = 0 /\ windows = 0
    /\ stale = FALSE /\ listened = FALSE /\ lost = FALSE

\* The UI thread waits for a thread that waits for the UI thread.
Hung == window = "closing" /\ receiver = "adds"

\* The UI thread takes messages.
Free == window # "closing"

Up == process /\ mainThread # "none"
Beats == Up /\ globalRun

-----------------------------------------------------------------------------
(* The daemon's process *)

\* A process that ends takes its threads' state along. The others keep it.
Service ==
    /\ ServiceNext
    /\ IF Up /\ ~(process' /\ mainThread' # "none")
       THEN /\ arrayRunning' = FALSE /\ started' = FALSE
            /\ listens' = FALSE /\ forward' = FALSE /\ inbox' = << >>
            /\ lost' = (lost \/ window # "none" \/ Request \intersect ToSet(inbox) # {})
       ELSE UNCHANGED <<linkVars, lost>>
    /\ UNCHANGED <<mainVars, windowVars, clicks, windows, stale, listened>>

\* mainProc makes its data node, whose worker then binds the command port at some time, or
\* never: it may run before its port and its flag are set.
MainListens ==
    /\ Up
    /\ ~listens
    /\ listens' = TRUE
    /\ UNCHANGED <<serviceVars, arrayRunning, started, forward, inbox, mainVars, windowVars,
                   history>>

\* Then it starts the sensors, while the node may be obeying commands.
MainStarts ==
    /\ Up
    /\ ~started
    /\ started' = TRUE
    /\ arrayRunning' = TRUE
    /\ UNCHANGED <<serviceVars, listens, forward, inbox, mainVars, windowVars, history>>

\* sensorStateSenderProc, and sensorStateCb on the listener's thread.
Heartbeat ==
    /\ Beats
    /\ shown' = IF arrayRunning THEN "Running" ELSE "Stopped"
    /\ age' = 0
    /\ UNCHANGED <<serviceVars, linkVars, windowVars, clicks, windows, stale, listened, lost>>

\* onCommand.
Obey(command) ==
    /\ arrayRunning' = CASE command = "Start" -> TRUE
                         [] command = "Stop"  -> FALSE
                         [] OTHER             -> arrayRunning
    /\ forward' = CASE command = "RawOn"  -> TRUE
                    [] command = "RawOff" -> FALSE
                    [] OTHER              -> forward

\* workerProc of the daemon's data node, which does not ask for globalRun.
Deliver ==
    /\ Up
    /\ inbox # << >>
    /\ inbox' = Tail(inbox)
    /\ Obey(Head(inbox))
    /\ UNCHANGED <<serviceVars, started, listens, mainVars, windowVars, history>>

\* The datagram comes to the daemon, to another socket of the port, or to nobody.
Send(command) ==
    \/ Up /\ listens /\ inbox' = Append(inbox, command) /\ UNCHANGED lost
    \/ /\ bound \/ leaving \/ ~(Up /\ listens)
       /\ UNCHANGED inbox
       /\ lost' = (lost \/ command \in Request)

-----------------------------------------------------------------------------
(* The main window *)

Second ==
    /\ age' = IF age > HeartbeatGrace THEN age ELSE age + 1
    /\ UNCHANGED <<serviceVars, linkVars, shown, windowVars, history>>

OnTimer ==
    /\ Free
    /\ age > HeartbeatGrace
    /\ shown' = "Inactive"
    /\ UNCHANGED <<serviceVars, linkVars, age, windowVars, history>>

\* Mutant: what is shown is sent.
ShownCommand == IF shown = "Running" THEN "Start" ELSE "Stop"

OtherCommand == IF shown = "Running" THEN "Stop" ELSE "Start"

\* StartStop and changeState.
Click ==
    /\ Free
    /\ shown # "Inactive"
    /\ clicks < MaxClicks
    /\ clicks' = clicks + 1
    /\ Send(OtherCommand)
    /\ stale' = (stale \/ (shown = "Running") # arrayRunning
                   \/ (listens /\ ~started)
                   \/ \E i \in DOMAIN inbox : inbox[i] \in {"Start", "Stop"})
    /\ UNCHANGED <<serviceVars, arrayRunning, started, listens, forward, mainVars, windowVars,
                   windows, listened>>

-----------------------------------------------------------------------------
(* The information window *)

\* WatchSensor: the constructor starts the data node's worker and the receivers.
OpenWindow ==
    /\ window = "none"
    /\ shown = "Running"
    /\ windows < MaxWindows
    /\ windows' = windows + 1
    /\ window' = "open"
    /\ receiver' = "starts"
    /\ node' = "starts"
    /\ listening' = FALSE
    /\ listened' = FALSE
    /\ UNCHANGED <<serviceVars, linkVars, mainVars, bound, clicks, stale, lost>>

NodeBinds ==
    /\ node = "starts"
    /\ node' = "bound"
    /\ bound' = TRUE
    /\ UNCHANGED <<serviceVars, linkVars, mainVars, window, receiver, listening, history>>

\* A command sent before the node's worker has created the socket is not sent.
Sends(command) ==
    /\ IF node = "bound" THEN Send(command) ELSE UNCHANGED inbox /\ lost' = TRUE
    /\ UNCHANGED <<serviceVars, arrayRunning, started, listens, forward, mainVars, window, node,
                   bound, listening, clicks, windows, stale, listened>>

ReceiverStarts ==
    /\ receiver = "starts"
    /\ receiver' = "listens"
    /\ Sends("RawOn")

\* Mutant: data is added although the window is paused.
ReceiverAddsPaused ==
    /\ receiver = "listens"
    /\ Up /\ arrayRunning /\ forward
    /\ receiver' = "adds"
    /\ UNCHANGED <<serviceVars, linkVars, mainVars, window, node, bound, listening, history>>

ReceiverAdds ==
    /\ receiver = "listens"
    /\ Up /\ arrayRunning /\ forward
    /\ listening
    /\ receiver' = "adds"
    /\ UNCHANGED <<serviceVars, linkVars, mainVars, window, node, bound, listening, history>>

\* AddText sends messages to the window, which the UI thread has to take.
ReceiverAdded ==
    /\ receiver = "adds"
    /\ Free
    /\ receiver' = "listens"
    /\ UNCHANGED <<serviceVars, linkVars, mainVars, window, node, bound, listening, history>>

Pause ==
    /\ window = "open"
    /\ listening' = ~listening
    /\ listened' = TRUE
    /\ UNCHANGED <<serviceVars, linkVars, mainVars, window, receiver, node, bound, clicks, windows, stale, lost>>

\* stopThreads.
CloseWindow ==
    /\ window = "open"
    /\ window' = "closing"
    /\ UNCHANGED <<serviceVars, linkVars, mainVars, receiver, node, bound, listening, history>>

\* Mutant: the daemon is not told.
ReceiverJustEnds ==
    /\ window = "closing"
    /\ receiver = "listens"
    /\ receiver' = "ended"
    /\ UNCHANGED <<serviceVars, linkVars, mainVars, window, node, bound, listening, history>>

ReceiverEnds ==
    /\ window = "closing"
    /\ receiver = "listens"
    /\ receiver' = "ended"
    /\ Sends("RawOff")

\* The window is destroyed, its object and data node are not.
Closed ==
    /\ window = "closing"
    /\ receiver = "ended"
    /\ window' = "none"
    /\ receiver' = "none"
    /\ node' = IF node = "bound" THEN "none" ELSE node
    /\ listening' = FALSE /\ listened' = FALSE
    /\ UNCHANGED <<serviceVars, linkVars, mainVars, bound, clicks, windows, stale, lost>>

-----------------------------------------------------------------------------

Next ==
    \/ Service \/ MainListens \/ MainStarts \/ Heartbeat \/ Deliver
    \/ Second \/ OnTimer \/ Click
    \/ OpenWindow \/ NodeBinds \/ ReceiverStarts \/ ReceiverAdds \/ ReceiverAdded
    \/ Pause \/ CloseWindow \/ ReceiverEnds \/ Closed

Spec == Init /\ [][Next]_vars

\* The threads of a stop, of the uninstaller and of a window that closes run.
FairSpec ==
    /\ Spec
    /\ ServiceFairness
    /\ WF_vars(ReceiverStarts) /\ WF_vars(ReceiverEnds) /\ WF_vars(Closed)

-----------------------------------------------------------------------------
(* Properties *)

\* A daemon whose sensors run starts them a second time and loses their COM ports (see
\* SensorThreads), by a command or by mainProc itself, only after a click on a state that was
\* not, or not to stay, the daemon's.
StartRepeatedOnlyStale ==
    [][arrayRunning /\ (MainStarts \/ (Deliver /\ Head(inbox) = "Start")) => stale]_vars

\* A window that closes has a receiver, whose next step or, when it has ended, the window's
\* is to be taken: only the receiver's AddText and the window's join wait for each other.
ClosingNeverStuck ==
    window = "closing" =>
        CASE receiver = "starts"  -> ENABLED <<ReceiverStarts>>_vars
          [] receiver = "listens" -> ENABLED <<ReceiverEnds>>_vars
          [] receiver = "ended"   -> ENABLED <<Closed>>_vars
          [] OTHER                -> Hung

\* A window that was paused from the first to the last, as it is opened, can be closed; one
\* that was not may wait for its receiver, and the receiver for it, for good.
PausedWindowCloses == window = "closing" /\ ~listened ~> window = "none"

\* The daemon does not go on forwarding to a window that was closed, unless one of its
\* commands got lost.
ForwardEnds ==
    window = "none" /\ ~lost /\ Request \intersect ToSet(inbox) = {}
      => ~forward

=============================================================================
