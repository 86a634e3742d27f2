--------------------------- MODULE DaemonService ---------------------------
(***************************************************************************)
(* The daemon as a Windows service: the shell that runs mainProc on a      *)
(* thread of its own beside a worker thread, reports its state to the      *)
(* service control manager (SCM), and is installed, started, stopped and   *)
(* uninstalled by the command line and by the UI. The SCM is external: it  *)
(* delivers STOP only to a service that reported to run, starts only one   *)
(* that is stopped, and sees a process that ends.                          *)
(*                                                                         *)
(* mainProc never returns: SensorArray::wait sleeps until no reader thread *)
(* is joinable, and only Sensor::terminate, which nobody calls, joins one. *)
(***************************************************************************)
EXTENDS Naturals

CONSTANT MaxStarts    \* bound: processes started

ASSUME StartsAssumption == MaxStarts \in Nat

VARIABLES
    installed,   \* "no", "yes", or "marked": deleted once its process is gone
    status,      \* what the service last reported, kept by the SCM
    process,     \* the service's process is there
    leaving,     \* a process that reported it stopped and has not ended yet
    globalRun,   \* of the process, as the following three
    mainThread,  \* naviSensorThread: "none", "joinable" or "detached"
    worker,      \* the worker thread: "none", "loops" or "ended"
    stopping,    \* how far Service::stop is: "rest", "pending", "onStop", "signalled"
    stopWorker,  \* the named event; it outlives the process while another has it open
    uninstaller, \* Service::uninstall: "rest", or the call it goes on to: "stops",
                 \* "waits" (as long as the stop is pending), "deletes"
    begun,       \* of an uninstaller that deletes: a start was pending when it looked at the
                 \* status, or was asked for since (history)
    starts       \* processes started (bounds the model)

serviceVars == <<installed, status, process, leaving, globalRun, mainThread, worker,
                 stopping, stopWorker, uninstaller, begun, starts>>

ServiceTypeOK ==
    /\ installed \in {"no", "yes", "marked"}
    /\ status \in {"stopped", "startPending", "running", "stopPending"}
    /\ process \in BOOLEAN
    /\ leaving \in BOOLEAN
    /\ globalRun \in BOOLEAN
    /\ mainThread \in {"none", "joinable", "detached"}
    /\ worker \in {"none", "loops", "ended"}
    /\ stopping \in {"rest", "pending", "onStop", "signalled"}
    /\ stopWorker \in BOOLEAN
    /\ uninstaller \in {"rest", "stops", "waits", "deletes"}
    /\ begun \in BOOLEAN
    /\ starts \in 0..MaxStarts

ServiceInit ==
    /\ installed = "no"
    /\ status = "stopped"
    /\ process = FALSE
    /\ leaving = FALSE
    /\ globalRun = TRUE
    /\ mainThread = "none"
    /\ worker = "none"
    /\ stopping = "rest"
    /\ stopWorker = FALSE
    /\ uninstaller = "rest"
    /\ begun = FALSE
    /\ starts = 0

-----------------------------------------------------------------------------
(* The SCM *)

\* The entry of a service whose deletion was asked for goes with its process.
Left(entry) == IF entry = "marked" THEN "no" ELSE entry

\* The process is gone, for whatever reason; the next one's globalRun is set.
Gone ==
    /\ process' = FALSE
    /\ mainThread' = "none"
    /\ worker' = "none"
    /\ stopping' = "rest"
    /\ \E e \in {FALSE, stopWorker} : stopWorker' = e
    /\ globalRun' = TRUE
    /\ UNCHANGED <<uninstaller, begun, starts>>

\* An exception that nobody catches, a use of deleted memory: the process ends.
Crash ==
    /\ process
    /\ mainThread # "none"
    /\ installed' = Left(installed)
    /\ status' = "stopped"
    /\ Gone
    /\ UNCHANGED leaving

-----------------------------------------------------------------------------
(* Service::install, startStop and uninstall, from a command line or the UI *)

Install ==
    /\ installed = "no"
    /\ installed' = "yes"
    /\ UNCHANGED <<status, process, leaving, globalRun, mainThread, worker, stopping,
                   stopWorker, uninstaller, begun, starts>>

\* startStop (true): the new process is in its dispatcher.
StartService ==
    /\ installed = "yes"
    /\ status = "stopped"
    /\ starts < MaxStarts
    /\ starts' = starts + 1
    /\ status' = "startPending"
    /\ process' = TRUE
    /\ begun' = (uninstaller = "deletes")
    /\ UNCHANGED <<installed, leaving, globalRun, mainThread, worker, stopping, stopWorker,
                   uninstaller>>

\* startStop (false), or the stop of an uninstaller: controlHandler calls stop.
ControlStop ==
    /\ status = "running"
    /\ status' = "stopPending"
    /\ stopping' = "pending"
    /\ UNCHANGED <<installed, process, leaving, globalRun, mainThread, worker, stopWorker,
                   begun, starts>>

StopService == installed # "no" /\ ControlStop /\ UNCHANGED uninstaller

\* DeleteService: at once if there is no process.
Delete == installed' = IF process \/ leaving THEN "marked" ELSE "no"

\* The rest of the service, as the calls of uninstall that only look leave it.
Looks == UNCHANGED <<installed, status, process, leaving, globalRun, mainThread, worker,
                     stopping, stopWorker, starts>>

\* A service that is not running, or is only about to be, is deleted as it is.
UninstallLook ==
    /\ installed = "yes"
    /\ uninstaller = "rest"
    /\ uninstaller' = IF status = "running" THEN "stops" ELSE "deletes"
    /\ begun' = (status = "startPending")
    /\ Looks

\* ControlService fails for one that runs no more.
UninstallStop ==
    /\ uninstaller = "stops"
    /\ \/ ControlStop /\ uninstaller' = "waits"
       \/ status # "running" /\ uninstaller' = "rest" /\ Looks /\ UNCHANGED begun

\* Mutant: the uninstaller goes on whatever became of the stop.
UninstallWaitedOnce ==
    /\ uninstaller = "waits"
    /\ status # "stopPending"
    /\ uninstaller' = "deletes"
    /\ begun' = (status = "startPending")
    /\ Looks

\* The uninstaller waits as long as the stop is pending and goes on only if it succeeded.
UninstallWaited ==
    /\ uninstaller = "waits"
    /\ status # "stopPending"
    /\ uninstaller' = IF status = "stopped" THEN "deletes" ELSE "rest"
    /\ UNCHANGED begun
    /\ Looks

\* Whatever the service has become since the uninstaller looked.
UninstallDelete ==
    /\ uninstaller = "deletes"
    /\ Delete
    /\ uninstaller' = "rest"
    /\ begun' = FALSE
    /\ UNCHANGED <<status, process, leaving, globalRun, mainThread, worker, stopping,
                   stopWorker, starts>>

-----------------------------------------------------------------------------
(* Service::start, called by serviceMain *)

\* ResetEvent, then onStart, which makes the thread of mainProc.
StartMain ==
    /\ status = "startPending"
    /\ mainThread = "none"
    /\ stopWorker' = FALSE
    /\ mainThread' = "joinable"
    /\ UNCHANGED <<installed, status, process, leaving, globalRun, worker, stopping,
                   uninstaller, begun, starts>>

StartWorker ==
    /\ status = "startPending"
    /\ mainThread = "joinable"
    /\ worker' = "loops"
    /\ status' = "running"
    /\ UNCHANGED <<installed, process, leaving, globalRun, mainThread, stopping, stopWorker,
                   uninstaller, begun, starts>>

\* workerProc: the wait takes the event, which resets itself.
WorkerEnds ==
    /\ worker = "loops"
    /\ stopWorker
    /\ stopWorker' = FALSE
    /\ worker' = "ended"
    /\ UNCHANGED <<installed, status, process, leaving, globalRun, mainThread, stopping,
                   uninstaller, begun, starts>>

-----------------------------------------------------------------------------
(* Service::stop, called by controlHandler *)

\* Mutant: the thread of mainProc stays to be joined.
StopUndetached ==
    /\ stopping = "pending"
    /\ globalRun' = FALSE
    /\ stopping' = "onStop"
    /\ UNCHANGED <<installed, status, process, leaving, mainThread, worker, stopWorker,
                   uninstaller, begun, starts>>

\* onStop.
StopDetach ==
    /\ stopping = "pending"
    /\ globalRun' = FALSE
    /\ mainThread' = "detached"
    /\ stopping' = "onStop"
    /\ UNCHANGED <<installed, status, process, leaving, worker, stopWorker, uninstaller, begun,
                   starts>>

StopSignal ==
    /\ stopping = "onStop"
    /\ stopWorker' = TRUE
    /\ stopping' = "signalled"
    /\ UNCHANGED <<installed, status, process, leaving, globalRun, mainThread, worker,
                   uninstaller, begun, starts>>

\* The worker is joined and the stop reported; the destructor of the service would join a
\* thread of mainProc that onStop left joinable, forever.
StopJoin ==
    /\ stopping = "signalled"
    /\ worker = "ended"
    /\ mainThread = "detached"
    /\ ~leaving
    /\ status' = "stopped"
    /\ leaving' = TRUE
    /\ Gone
    /\ UNCHANGED installed

\* The process that stopped ends with its detached threads.
Exit ==
    /\ leaving
    /\ leaving' = FALSE
    /\ installed' = IF process THEN installed ELSE Left(installed)
    /\ UNCHANGED <<status, process, globalRun, mainThread, worker, stopping, stopWorker,
                   uninstaller, begun, starts>>

-----------------------------------------------------------------------------

ServiceNext ==
    \/ Install \/ StartService \/ StopService
    \/ UninstallLook \/ UninstallStop \/ UninstallWaited \/ UninstallDelete
    \/ StartMain \/ StartWorker \/ WorkerEnds
    \/ StopDetach \/ StopSignal \/ StopJoin \/ Exit \/ Crash

\* The handler's thread on its way through stop, and the uninstaller once it has looked.
Stop == StopDetach \/ StopSignal \/ StopJoin
Uninstall == UninstallStop \/ UninstallWaited \/ UninstallDelete

\* Both run until they wait for something, and so do the worker and a process that ends.
ServiceFairness ==
    /\ WF_serviceVars(Stop) /\ WF_serviceVars(WorkerEnds) /\ WF_serviceVars(Exit)
    /\ WF_serviceVars(Uninstall)

-----------------------------------------------------------------------------
(* Properties *)

\* The worker of a service never ends before its stop has signalled it, whatever an earlier
\* process that crashed between the signal and the worker's wait left in the named event.
WorkerEndsOnlyStopped == worker = "ended" => stopping = "signalled"

\* A stop under way has a step to take, whatever happened to the event and the threads before:
\* it does not wait for a worker that nobody signals, nor for a mainProc nobody can join. So
\* has an uninstaller.
StopNeverStuck ==
    /\ stopping \in {"pending", "onStop"} => ENABLED <<Stop>>_serviceVars
    /\ stopping = "signalled" /\ worker # "ended" => ENABLED <<WorkerEnds>>_serviceVars
    /\ stopping = "signalled" /\ worker = "ended" /\ ~leaving => ENABLED <<Stop>>_serviceVars
    /\ leaving => ENABLED <<Exit>>_serviceVars
    /\ uninstaller # "rest" /\ status # "stopPending" => ENABLED <<Uninstall>>_serviceVars

\* A stop that was accepted ends, although mainProc never returns.
StopEnds == stopping # "rest" ~> stopping = "rest"

\* An uninstaller comes to its end, unless somebody starts the service while it waits for
\* the stop.
UninstallEnds == uninstaller # "rest" ~> uninstaller = "rest" \/ status = "startPending"

\* uninstall deletes a service that works, or is about to, only if its start was pending when
\* the uninstaller last looked at the status, or was asked for between that look and the
\* deletion: one that it saw run it has stopped.
DeletedUnderWork ==
    [][installed = "yes" /\ installed' = "marked" /\ status \in {"startPending", "running"}
         => begun]_installed

=============================================================================
