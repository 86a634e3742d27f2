--------------------------- MODULE ConsoleProofs ---------------------------
(***************************************************************************)
(* What holds of the service, the command port and the windows of the UI   *)
(* for any number of starts, clicks and windows. Last, that a stop and the *)
(* closing of a paused window never stand still, and come to their end.    *)
(***************************************************************************)
EXTENDS Console, TLAPS

-----------------------------------------------------------------------------
(* The service *)

\* Every step of the service keeps the types of its variables.
LEMMA ServiceType == ServiceTypeOK /\ ServiceNext => ServiceTypeOK'
<1> SUFFICES ASSUME ServiceTypeOK, ServiceNext
             PROVE  ServiceTypeOK'
  OBVIOUS
<1> USE DEF ServiceTypeOK
<1>1. CASE Install \/ StopService \/ UninstallStop
  BY <1>1 DEF Install, StopService, ControlStop, UninstallStop, Looks
<1>10. CASE UninstallLook \/ UninstallWaited \/ UninstallDelete
  BY <1>10 DEF UninstallLook, UninstallWaited, UninstallDelete, Delete, Looks
<1>2. CASE StartService
  BY <1>2, StartsAssumption DEF StartService
<1>3. CASE StartMain \/ StartWorker \/ WorkerEnds \/ StopDetach \/ StopSignal
  BY <1>3 DEF StartMain, StartWorker, WorkerEnds, StopDetach, StopSignal
<1>4. CASE StopJoin \/ Crash
  <2>1. stopWorker' \in BOOLEAN
    BY <1>4 DEF StopJoin, Crash, Gone
  <2>2. installed' \in {"no", "yes", "marked"}
    BY <1>4 DEF StopJoin, Crash, Left
  <2> QED
    BY <1>4, <2>1, <2>2 DEF StopJoin, Crash, Gone
<1>5. CASE Exit
  <2>1. installed' = installed \/ installed' = "no"
    BY <1>5, Zenon DEF Exit, Left
  <2>2. installed' \in {"no", "yes", "marked"}
    BY <2>1
  <2>3. leaving' \in BOOLEAN /\ starts' \in 0..MaxStarts
    BY <1>5 DEF Exit
  <2>4. /\ UNCHANGED <<status, process, globalRun, mainThread, worker>>
        /\ UNCHANGED <<stopping, stopWorker, uninstaller, begun>>
    BY <1>5 DEF Exit
  <2> QED
    BY <2>2, <2>3, <2>4
<1> HIDE DEF ServiceTypeOK
<1> QED
  BY <1>1, <1>2, <1>3, <1>4, <1>5, <1>10 DEF ServiceNext

\* What the reported state says of the process, who may find the event signalled, and what an
\* uninstaller may find when it deletes.
ServiceInv ==
    /\ process <=> status # "stopped"
    /\ status = "stopped" => mainThread = "none" /\ worker = "none"
    /\ status = "startPending" => worker = "none" /\ mainThread # "detached"
    /\ status = "startPending" /\ mainThread = "joinable" => ~stopWorker
    /\ stopping # "rest" => status = "stopPending"
    /\ worker = "ended" => stopping = "signalled"
    /\ worker = "loops" /\ stopWorker => stopping = "signalled"
    /\ uninstaller # "rest" => installed = "yes"
    /\ uninstaller = "deletes" /\ status \in {"startPending", "running"} => begun

LEMMA ServiceStep == ServiceTypeOK /\ ServiceInv /\ ServiceNext => ServiceInv'
<1> SUFFICES ASSUME ServiceTypeOK, ServiceInv, ServiceNext
             PROVE  ServiceInv'
  OBVIOUS
<1> USE DEF ServiceTypeOK, ServiceInv
<1>1. CASE Install \/ UninstallLook \/ UninstallWaited \/ UninstallDelete \/ Exit
  BY <1>1 DEF Install, UninstallLook, UninstallWaited, UninstallDelete, Delete, Looks, Exit, Left
<1>2. CASE StartService
  BY <1>2 DEF StartService
<1>3. CASE StopService \/ UninstallStop
  BY <1>3 DEF StopService, UninstallStop, ControlStop, Looks
<1>4. CASE StartMain
  BY <1>4 DEF StartMain
<1>5. CASE StartWorker
  BY <1>5 DEF StartWorker
<1>6. CASE WorkerEnds
  BY <1>6 DEF WorkerEnds
<1>7. CASE StopDetach
  BY <1>7 DEF StopDetach
<1>8. CASE StopSignal
  BY <1>8 DEF StopSignal
<1>9. CASE StopJoin \/ Crash
  BY <1>9 DEF StopJoin, Crash, Gone, Left
<1> HIDE DEF ServiceTypeOK, ServiceInv
<1> QED
  BY <1>1, <1>2, <1>3, <1>4, <1>5, <1>6, <1>7, <1>8, <1>9 DEF ServiceNext

\* Each action of the console is a step of the service or leaves it as it is.
LEMMA ServicePart == [Next]_vars => ServiceNext \/ UNCHANGED serviceVars
<1>1. Service => ServiceNext
  BY DEF Service
<1>2. MainListens \/ MainStarts \/ Heartbeat \/ Deliver \/ Second \/ OnTimer \/ Click
        => UNCHANGED serviceVars
  BY DEF MainListens, MainStarts, Heartbeat, Deliver, Second, OnTimer, Click
<1>3. OpenWindow \/ NodeBinds \/ ReceiverAdds \/ ReceiverAdded \/ Pause \/ CloseWindow \/ Closed
        => UNCHANGED serviceVars
  BY DEF OpenWindow, NodeBinds, ReceiverAdds, ReceiverAdded, Pause, CloseWindow, Closed
<1>4. ReceiverStarts \/ ReceiverEnds => UNCHANGED serviceVars
  BY DEF ReceiverStarts, ReceiverEnds, Sends
<1>5. UNCHANGED vars => UNCHANGED serviceVars
  BY DEF vars
<1> QED
  BY <1>1, <1>2, <1>3, <1>4, <1>5 DEF Next

LEMMA ServiceInvariant == Spec => [](ServiceTypeOK /\ ServiceInv)
<1>1. Init => ServiceTypeOK /\ ServiceInv
  <2>1. 0 \in 0..MaxStarts
    BY StartsAssumption
  <2> QED
    BY <2>1, Zenon DEF Init, ServiceInit, ServiceTypeOK, ServiceInv
<1>2. ServiceTypeOK /\ ServiceInv /\ [Next]_vars => (ServiceTypeOK /\ ServiceInv)'
  <2>1. ServiceTypeOK /\ ServiceInv /\ UNCHANGED serviceVars => (ServiceTypeOK /\ ServiceInv)'
    BY DEF serviceVars, ServiceTypeOK, ServiceInv
  <2> QED
    BY <2>1, ServicePart, ServiceType, ServiceStep
<1> QED
  BY <1>1, <1>2, PTL DEF Spec

\* Whatever an earlier process has left in the named event, workerProc of Service.cpp ends
\* only when a stop of its own process has signalled it.
THEOREM WorkerEndsLast == Spec => []WorkerEndsOnlyStopped
<1>1. ServiceInv => WorkerEndsOnlyStopped
  BY DEF ServiceInv, WorkerEndsOnlyStopped
<1> QED
  BY <1>1, ServiceInvariant, PTL

\* Service::uninstall deletes a service that works or is about to only if a start of it was
\* pending when it last asked for the status, or was made between that query and DeleteService.
THEOREM Deletion == Spec => DeletedUnderWork
<1> DEFINE Allowed == installed = "yes" /\ installed' = "marked"
                        /\ status \in {"startPending", "running"} => begun
<1>1. ServiceInv /\ ServiceNext => Allowed
  <2> SUFFICES ASSUME ServiceInv, ServiceNext, installed = "yes", installed' = "marked",
                      status \in {"startPending", "running"}
               PROVE  begun
    OBVIOUS
  <2>1. UninstallDelete
    BY DEF ServiceNext, Install, StartService, StopService, UninstallLook, UninstallStop,
           UninstallWaited, Looks, ControlStop, StartMain, StartWorker, WorkerEnds, StopDetach,
           StopSignal, StopJoin, Crash, Exit, Left
  <2> QED
    BY <2>1 DEF UninstallDelete, ServiceInv
<1>2. ServiceInv /\ [Next]_vars => [Allowed]_installed
  BY <1>1, ServicePart DEF serviceVars
<1> HIDE DEF Allowed
<1>3. Spec => [][Allowed]_installed
  BY <1>2, ServiceInvariant, PTL DEF Spec
<1> QED
  BY <1>3 DEF DeletedUnderWork, Allowed

-----------------------------------------------------------------------------
(* A stop comes to its end *)

\* No prover here knows that an action is enabled when its guard holds. The theorems of
\* progress take it as a hypothesis, action by action, and nothing else.
StopGuards ==
    /\ stopping \in {"pending", "onStop"} => ENABLED <<Stop>>_serviceVars
    /\ worker = "loops" /\ stopWorker => ENABLED <<WorkerEnds>>_serviceVars
    /\ stopping = "signalled" /\ worker = "ended" /\ mainThread = "detached" /\ ~leaving
         => ENABLED <<Stop>>_serviceVars
    /\ leaving => ENABLED <<Exit>>_serviceVars
    /\ uninstaller # "rest" /\ status # "stopPending" => ENABLED <<Uninstall>>_serviceVars

\* What a stop waits for is there, or still to come: the worker and the signal it has not
\* taken, a mainProc that nobody has to join.
StopInv ==
    /\ status = "stopPending" => stopping # "rest"
    /\ status \in {"running", "stopPending"} => worker # "none"
    /\ stopping \in {"onStop", "signalled"} => mainThread = "detached"
    /\ stopping = "signalled" /\ worker = "loops" => stopWorker

\* The invariant of the service.
ServiceOK == ServiceTypeOK /\ ServiceInv /\ StopInv

LEMMA StopStep == ServiceOK /\ ServiceNext => StopInv'
<1> SUFFICES ASSUME ServiceTypeOK, ServiceInv, StopInv, ServiceNext
             PROVE  StopInv'
  BY DEF ServiceOK
<1> USE DEF ServiceTypeOK, ServiceInv, StopInv
<1>1. CASE Install \/ UninstallLook \/ UninstallWaited \/ UninstallDelete \/ Exit
  BY <1>1 DEF Install, UninstallLook, UninstallWaited, UninstallDelete, Delete, Looks, Exit, Left
<1>2. CASE StartService
  BY <1>2 DEF StartService
<1>3. CASE StopService \/ UninstallStop
  BY <1>3 DEF StopService, UninstallStop, ControlStop, Looks
<1>4. CASE StartMain
  BY <1>4 DEF StartMain
<1>5. CASE StartWorker
  BY <1>5 DEF StartWorker
<1>6. CASE WorkerEnds
  BY <1>6 DEF WorkerEnds
<1>7. CASE StopDetach
  BY <1>7 DEF StopDetach
<1>8. CASE StopSignal
  BY <1>8 DEF StopSignal
<1>9. CASE StopJoin \/ Crash
  BY <1>9 DEF StopJoin, Crash, Gone
<1> HIDE DEF ServiceTypeOK, ServiceInv, StopInv
<1> QED
  BY <1>1, <1>2, <1>3, <1>4, <1>5, <1>6, <1>7, <1>8, <1>9 DEF ServiceNext

LEMMA StopInvariant == Spec => []ServiceOK
<1>1. Init => StopInv
  BY DEF Init, ServiceInit, StopInv
<1>2. ServiceOK /\ [Next]_vars => StopInv'
  <2>1. ServiceOK /\ UNCHANGED serviceVars => StopInv'
    BY DEF serviceVars, ServiceOK, StopInv
  <2> QED
    BY <2>1, ServicePart, StopStep
<1>3. ServiceOK <=> (ServiceTypeOK /\ ServiceInv) /\ StopInv
  BY DEF ServiceOK
<1> QED
  BY <1>1, <1>2, <1>3, ServiceInvariant, PTL DEF Spec

\* Service::stop is never left waiting for what nobody does, whatever an earlier process has
\* done to the event and wherever a crash has cut in.
THEOREM StopGoesOn == Spec /\ []StopGuards => []StopNeverStuck
<1>1. ServiceOK /\ StopGuards => StopNeverStuck
  <2> SUFFICES ASSUME ServiceOK, StopGuards
               PROVE  StopNeverStuck
    OBVIOUS
  <2>1. stopping # "rest" => worker \in {"loops", "ended"}
    BY DEF ServiceOK, ServiceTypeOK, ServiceInv, StopInv
  <2>2. stopping = "signalled" => mainThread = "detached" /\ (worker = "loops" => stopWorker)
    BY DEF ServiceOK, StopInv
  <2> QED
    BY <2>1, <2>2, Zenon DEF StopGuards, StopNeverStuck
<1> QED
  BY <1>1, StopInvariant, PTL

\* Where a stop may go from where it is, if it moves.
LEMMA StopOrder ==
    ASSUME ServiceOK, [Next]_vars
    PROVE  /\ stopping = "pending" =>
                stopping' = "pending" \/ stopping' = "onStop" \/ stopping' = "rest"
           /\ stopping = "onStop" =>
                stopping' = "onStop" \/ stopping' = "signalled" \/ stopping' = "rest"
           /\ stopping = "signalled" => stopping' = "signalled" \/ stopping' = "rest"
           /\ stopping = "signalled" /\ worker = "ended" =>
                worker' = "ended" \/ stopping' = "rest"
           /\ stopping = "signalled" /\ ~leaving => ~leaving' \/ stopping' = "rest"
<1> USE DEF ServiceOK, ServiceTypeOK, ServiceInv
<1>1. CASE ServiceNext
  <2>1. CASE Install \/ UninstallLook \/ UninstallWaited \/ UninstallDelete \/ Exit
    BY <2>1 DEF Install, UninstallLook, UninstallWaited, UninstallDelete, Delete, Looks, Exit, Left
  <2>2. CASE StartService
    BY <2>2 DEF StartService
  <2>3. CASE StopService \/ UninstallStop
    BY <2>3 DEF StopService, UninstallStop, ControlStop, Looks
  <2>4. CASE StartMain \/ StartWorker
    BY <2>4 DEF StartMain, StartWorker
  <2>5. CASE WorkerEnds \/ StopDetach \/ StopSignal
    BY <2>5 DEF WorkerEnds, StopDetach, StopSignal
  <2>6. CASE StopJoin \/ Crash
    BY <2>6 DEF StopJoin, Crash, Gone
  <2> HIDE DEF ServiceOK, ServiceTypeOK, ServiceInv
  <2> QED
    BY <1>1, <2>1, <2>2, <2>3, <2>4, <2>5, <2>6 DEF ServiceNext
<1>2. CASE UNCHANGED serviceVars
  BY <1>2 DEF serviceVars
<1> HIDE DEF ServiceOK, ServiceTypeOK, ServiceInv
<1> QED
  BY <1>1, <1>2, ServicePart

\* Where an uninstaller may go, and what may become of the stop it waits for, unless somebody
\* starts the service.
LEMMA UninstallerOrder ==
    ASSUME ServiceOK, [Next]_vars, uninstaller # "rest"
    PROVE  /\ uninstaller = "stops" =>
                uninstaller' = "stops" \/ uninstaller' = "waits" \/ uninstaller' = "rest"
           /\ uninstaller = "waits" =>
                uninstaller' = "waits" \/ uninstaller' = "deletes" \/ uninstaller' = "rest"
           /\ uninstaller = "deletes" => uninstaller' = "deletes" \/ uninstaller' = "rest"
           /\ status = "stopPending" => status' = "stopPending" \/ status' = "stopped"
           /\ status = "stopped" => status' = "stopped" \/ status' = "startPending"
<1> USE DEF ServiceOK, ServiceTypeOK, ServiceInv
<1>1. CASE ServiceNext
  <2>1. CASE Install \/ UninstallLook \/ UninstallWaited \/ UninstallDelete \/ Exit
    BY <2>1 DEF Install, UninstallLook, UninstallWaited, UninstallDelete, Delete, Looks, Exit, Left
  <2>2. CASE StartService
    BY <2>2 DEF StartService
  <2>3. CASE StopService \/ UninstallStop
    BY <2>3 DEF StopService, UninstallStop, ControlStop, Looks
  <2>4. CASE StartMain \/ StartWorker
    BY <2>4 DEF StartMain, StartWorker
  <2>5. CASE WorkerEnds \/ StopDetach \/ StopSignal
    BY <2>5 DEF WorkerEnds, StopDetach, StopSignal
  <2>6. CASE StopJoin \/ Crash
    BY <2>6 DEF StopJoin, Crash, Gone
  <2> HIDE DEF ServiceOK, ServiceTypeOK, ServiceInv
  <2> QED
    BY <1>1, <2>1, <2>2, <2>3, <2>4, <2>5, <2>6 DEF ServiceNext
<1>2. CASE UNCHANGED serviceVars
  BY <1>2 DEF serviceVars
<1> HIDE DEF ServiceOK, ServiceTypeOK, ServiceInv
<1> QED
  BY <1>1, <1>2, ServicePart

\* Service::stop comes to its end, for every history of crashes, starts and deletions: it
\* detaches mainProc, signals the worker and joins it, after the process of the stop before
\* has left.
THEOREM StopComesToItsEnd == FairSpec /\ []StopGuards => StopEnds
<1> DEFINE Rest == stopping = "rest"
<1>1. FairSpec => []ServiceOK /\ [][Next]_vars
  BY StopInvariant, PTL DEF FairSpec, Spec
<1>2. FairSpec /\ []StopGuards => (stopping = "pending" ~> stopping = "onStop" \/ Rest)
  <2>1. ServiceOK /\ stopping = "pending" /\ [Next]_vars
          => (stopping = "pending")' \/ (stopping = "onStop" \/ Rest)'
    BY StopOrder
  <2>2. stopping = "pending" /\ <<Stop>>_serviceVars => (stopping = "onStop")'
    BY DEF Stop, StopDetach, StopSignal, StopJoin
  <2>3. StopGuards /\ stopping = "pending" => ENABLED <<Stop>>_serviceVars
    <3>1. stopping = "pending" => stopping \in {"pending", "onStop"}
      OBVIOUS
    <3> QED
      BY <3>1, PTL DEF StopGuards
  <2>4. FairSpec => WF_serviceVars(Stop)
    BY PTL DEF FairSpec, ServiceFairness
  <2> QED
    BY <1>1, <2>1, <2>2, <2>3, <2>4, PTL
<1>3. FairSpec /\ []StopGuards => (stopping = "onStop" ~> stopping = "signalled" \/ Rest)
  <2>1. ServiceOK /\ stopping = "onStop" /\ [Next]_vars
          => (stopping = "onStop")' \/ (stopping = "signalled" \/ Rest)'
    BY StopOrder
  <2>2. stopping = "onStop" /\ <<Stop>>_serviceVars => (stopping = "signalled")'
    BY DEF Stop, StopDetach, StopSignal, StopJoin
  <2>3. StopGuards /\ stopping = "onStop" => ENABLED <<Stop>>_serviceVars
    <3>1. stopping = "onStop" => stopping \in {"pending", "onStop"}
      OBVIOUS
    <3> QED
      BY <3>1, PTL DEF StopGuards
  <2>4. FairSpec => WF_serviceVars(Stop)
    BY PTL DEF FairSpec, ServiceFairness
  <2> QED
    BY <1>1, <2>1, <2>2, <2>3, <2>4, PTL
<1> DEFINE Signalled == stopping = "signalled"
           Joined == Signalled /\ worker = "ended"
           Alone == Joined /\ ~leaving
<1>4. FairSpec /\ []StopGuards => (Signalled ~> Joined \/ Rest)
  <2>1. ServiceOK /\ Signalled /\ [Next]_vars => Signalled' \/ Rest'
    BY StopOrder
  <2>2. <<WorkerEnds>>_serviceVars => (worker = "ended")'
    BY DEF WorkerEnds
  <2>3. ServiceOK /\ Signalled => worker = "ended" \/ (worker = "loops" /\ stopWorker)
    BY DEF ServiceOK, ServiceTypeOK, ServiceInv, StopInv
  <2>4. StopGuards /\ worker = "loops" /\ stopWorker => ENABLED <<WorkerEnds>>_serviceVars
    BY PTL DEF StopGuards
  <2>5. FairSpec => WF_serviceVars(WorkerEnds)
    BY PTL DEF FairSpec, ServiceFairness
  <2> QED
    BY <1>1, <2>1, <2>2, <2>3, <2>4, <2>5, PTL
<1>5. FairSpec /\ []StopGuards => (leaving ~> ~leaving)
  <2>1. <<Exit>>_serviceVars => ~leaving'
    BY DEF Exit
  <2>2. StopGuards /\ leaving => ENABLED <<Exit>>_serviceVars
    BY PTL DEF StopGuards
  <2>3. FairSpec => WF_serviceVars(Exit)
    BY PTL DEF FairSpec, ServiceFairness
  <2> QED
    BY <2>1, <2>2, <2>3, PTL
<1>6. ServiceOK /\ Joined /\ [Next]_vars => Joined' \/ Rest'
  BY StopOrder
<1>7. FairSpec /\ []StopGuards => (Joined ~> Alone \/ Rest)
  BY <1>1, <1>5, <1>6, PTL
<1>8. FairSpec /\ []StopGuards => (Alone ~> Rest)
  <2>1. ServiceOK /\ Alone /\ [Next]_vars => Alone' \/ Rest'
    BY StopOrder
  <2>2. Alone /\ <<Stop>>_serviceVars => Rest'
    BY DEF Stop, StopDetach, StopSignal, StopJoin, Gone
  <2>3. ServiceOK /\ Alone => mainThread = "detached"
    BY DEF ServiceOK, StopInv
  <2>4. StopGuards /\ Alone /\ mainThread = "detached" => ENABLED <<Stop>>_serviceVars
    BY PTL DEF StopGuards
  <2>5. FairSpec => WF_serviceVars(Stop)
    BY PTL DEF FairSpec, ServiceFairness
  <2> QED
    BY <1>1, <2>1, <2>2, <2>3, <2>4, <2>5, PTL
<1>9. FairSpec /\ []StopGuards => (stopping # "rest" ~> stopping = "rest")
  <2>1. ServiceOK => stopping = "pending" \/ stopping = "onStop" \/ stopping = "signalled" \/ Rest
    BY DEF ServiceOK, ServiceTypeOK
  <2> QED
    BY <1>1, <1>2, <1>3, <1>4, <1>7, <1>8, <2>1, PTL
<1> QED
  BY <1>9 DEF StopEnds

\* Service::uninstall comes to its end, too, unless the service is started meanwhile: the stop
\* it waits for ends.
THEOREM UninstallerComesToItsEnd == FairSpec /\ []StopGuards => UninstallEnds
<1> DEFINE Rest == stopping = "rest"
           Pending == status = "stopPending"
           Stopped == status = "stopped"
           Stopping == uninstaller = "stops"
           Waits == uninstaller = "waits"
           Deletes == uninstaller = "deletes"
           Over == uninstaller = "rest" \/ status = "startPending"
           Busy == Stopping \/ Waits \/ Deletes
<1>1. FairSpec => []ServiceOK /\ [][Next]_vars
  BY StopInvariant, PTL DEF FairSpec, Spec
<1>2. FairSpec /\ []StopGuards => (stopping # "rest" ~> Rest)
  BY StopComesToItsEnd DEF StopEnds
<1>3. ServiceOK => Busy \/ Over
  BY DEF ServiceOK, ServiceTypeOK
<1>4. ServiceOK => (Rest => ~Pending) /\ (Stopped => ~Pending)
  BY DEF ServiceOK, StopInv
<1>5. ServiceOK /\ Busy /\ [Next]_vars
        => (Pending => Pending' \/ Stopped') /\ (Stopped => Stopped' \/ Over')
  BY UninstallerOrder
<1>6. StopGuards /\ Busy /\ ~Pending => ENABLED <<Uninstall>>_serviceVars
  <2>1. Busy /\ ~Pending => uninstaller # "rest" /\ status # "stopPending"
    OBVIOUS
  <2> QED
    BY <2>1, PTL DEF StopGuards
<1>7. FairSpec => WF_serviceVars(Uninstall)
  BY PTL DEF FairSpec, ServiceFairness
<1>8. ~Rest => stopping # "rest"
  OBVIOUS
<1>9. FairSpec /\ []StopGuards => (Deletes ~> Over)
  <2>1. ServiceOK /\ Deletes /\ [Next]_vars => Deletes' \/ Over'
    BY UninstallerOrder
  <2>2. Deletes /\ <<Uninstall>>_serviceVars => Over'
    BY DEF Uninstall, UninstallStop, UninstallWaited, UninstallDelete
  <2>3. Deletes => Busy
    OBVIOUS
  <2> HIDE DEF Rest, Pending, Stopped, Stopping, Waits, Deletes, Over, Busy
  <2> QED
    BY <1>1, <1>2, <1>4, <1>5, <1>6, <1>7, <1>8, <2>1, <2>2, <2>3, PTL
<1>10. FairSpec /\ []StopGuards => (Waits ~> Deletes \/ Over)
  <2>1. ServiceOK /\ Waits /\ [Next]_vars => Waits' \/ (Deletes \/ Over)'
    BY UninstallerOrder
  <2>2. Waits /\ <<Uninstall>>_serviceVars => (Deletes \/ Over)'
    BY DEF Uninstall, UninstallStop, UninstallWaited, UninstallDelete
  <2>3. Waits => Busy
    OBVIOUS
  <2> HIDE DEF Rest, Pending, Stopped, Stopping, Waits, Deletes, Over, Busy
  <2> QED
    BY <1>1, <1>2, <1>4, <1>5, <1>6, <1>7, <1>8, <2>1, <2>2, <2>3, PTL
<1>11. FairSpec /\ []StopGuards => (Stopping ~> Waits \/ Over)
  <2>1. ServiceOK /\ Stopping /\ [Next]_vars => Stopping' \/ (Waits \/ Over)'
    BY UninstallerOrder
  <2>2. Stopping /\ <<Uninstall>>_serviceVars => (Waits \/ Over)'
    BY DEF Uninstall, UninstallStop, UninstallWaited, UninstallDelete
  <2>3. Stopping => Busy
    OBVIOUS
  <2> HIDE DEF Rest, Pending, Stopped, Stopping, Waits, Deletes, Over, Busy
  <2> QED
    BY <1>1, <1>2, <1>4, <1>5, <1>6, <1>7, <1>8, <2>1, <2>2, <2>3, PTL
<1>12. (uninstaller # "rest") => Busy \/ ~ServiceOK
  BY DEF ServiceOK, ServiceTypeOK
<1>13. FairSpec /\ []StopGuards => (uninstaller # "rest" ~> Over)
  <2> HIDE DEF Rest, Pending, Stopped, Stopping, Waits, Deletes, Over
  <2> QED
    BY <1>1, <1>9, <1>10, <1>11, <1>12, PTL
<1> QED
  BY <1>13 DEF UninstallEnds

-----------------------------------------------------------------------------
(* Types *)

LEMMA Appended ==
    ASSUME NEW S, NEW s \in Seq(S), NEW e \in S
    PROVE  /\ Append(s, e) \in Seq(S)
           /\ DOMAIN s = 1..Len(s) /\ Len(s) \in Nat
           /\ DOMAIN Append(s, e) = 1..(Len(s) + 1)
           /\ \A i \in 1..Len(s) : Append(s, e)[i] = s[i]
           /\ Append(s, e)[Len(s) + 1] = e
  OBVIOUS

LEMMA Tailed ==
    ASSUME NEW S, NEW s \in Seq(S), s # << >>
    PROVE  /\ Tail(s) \in Seq(S)
           /\ DOMAIN s = 1..Len(s) /\ Len(s) \in Nat /\ Len(s) >= 1
           /\ DOMAIN Tail(s) = 1..(Len(s) - 1)
           /\ \A i \in 1..(Len(s) - 1) : Tail(s)[i] = s[i + 1]
           /\ Head(s) = s[1] /\ Head(s) \in S
  OBVIOUS

\* What a datagram sent does to the inbox.
LEMMA SendEffect ==
    ASSUME NEW command \in Commands, inbox \in Seq(Commands), lost \in BOOLEAN, Send(command)
    PROVE  /\ inbox' = inbox \/ (inbox' = Append(inbox, command) /\ listens)
           /\ inbox' \in Seq(Commands)
           /\ lost' \in BOOLEAN
           /\ lost => lost'
           /\ ~lost' /\ command \in Request => inbox' = Append(inbox, command)
<1>1. inbox' = inbox \/ (inbox' = Append(inbox, command) /\ listens)
  BY DEF Send
<1>2. inbox' \in Seq(Commands)
  BY <1>1, Appended
<1>3. lost' \in BOOLEAN /\ (lost => lost')
  BY Zenon DEF Send
<1>4. ~lost' /\ command \in Request => inbox' = Append(inbox, command)
  BY Zenon DEF Send
<1> QED
  BY <1>1, <1>2, <1>3, <1>4

\* TypeOK without the part of the service.
LinkTypeOK ==
    /\ arrayRunning \in BOOLEAN /\ started \in BOOLEAN /\ listens \in BOOLEAN /\ forward \in BOOLEAN
    /\ inbox \in Seq(Commands)
    /\ shown \in {"Inactive", "Running", "Stopped"}
    /\ age \in 0..HeartbeatGrace + 1
    /\ window \in {"none", "open", "closing"}
    /\ receiver \in {"none", "starts", "listens", "adds", "ended"}
    /\ node \in {"none", "starts", "bound"} /\ bound \in BOOLEAN
    /\ listening \in BOOLEAN
    /\ clicks \in 0..MaxClicks /\ windows \in 0..MaxWindows
    /\ stale \in BOOLEAN /\ listened \in BOOLEAN /\ lost \in BOOLEAN

LEMMA LinkType == LinkTypeOK /\ [Next]_vars => LinkTypeOK'
<1> SUFFICES ASSUME LinkTypeOK, [Next]_vars
             PROVE  LinkTypeOK'
  OBVIOUS
<1> USE ConsoleAssumption DEF LinkTypeOK, linkVars, mainVars, windowVars, history
<1>1. CASE Service
  <2>1. lost' \in BOOLEAN
    BY <1>1, Zenon DEF Service
  <2>2. arrayRunning' \in BOOLEAN /\ started' \in BOOLEAN /\ listens' \in BOOLEAN /\ forward' \in BOOLEAN
    BY <1>1, Zenon DEF Service
  <2>3. inbox' \in Seq(Commands)
    <3>1. inbox' = inbox \/ inbox' = << >>
      BY <1>1, Zenon DEF Service
    <3>2. << >> \in Seq(Commands)
      OBVIOUS
    <3> QED
      BY <3>1, <3>2, Zenon
  <2>4. UNCHANGED <<mainVars, windowVars, clicks, windows, stale, listened>>
    BY <1>1 DEF Service
  <2> QED
    BY <2>1, <2>2, <2>3, <2>4
<1>2. CASE MainListens \/ MainStarts
  <2>1. CASE MainListens
    BY <2>1 DEF MainListens
  <2>2. CASE MainStarts
    BY <2>2 DEF MainStarts
  <2> QED
    BY <1>2, <2>1, <2>2
<1>3. CASE Heartbeat
  BY <1>3 DEF Heartbeat
<1>4. CASE Deliver
  <2>1. inbox' \in Seq(Commands)
    BY <1>4, Tailed DEF Deliver
  <2>2. arrayRunning' \in BOOLEAN /\ forward' \in BOOLEAN
    BY <1>4 DEF Deliver, Obey
  <2> QED
    BY <1>4, <2>1, <2>2 DEF Deliver
<1>5. CASE Second
  BY <1>5 DEF Second
<1>6. CASE OnTimer
  BY <1>6 DEF OnTimer
<1>7. CASE Click
  <2>1. inbox' \in Seq(Commands) /\ lost' \in BOOLEAN
    BY <1>7, SendEffect DEF Click, OtherCommand, Commands
  <2>2. stale' \in BOOLEAN
    BY <1>7, Zenon DEF Click
  <2> QED
    BY <1>7, <2>1, <2>2 DEF Click
<1>8. CASE OpenWindow
  <2>1. windows' \in 0..MaxWindows
    BY <1>8 DEF OpenWindow
  <2> QED
    BY <1>8, <2>1, Zenon DEF OpenWindow
<1>9. CASE NodeBinds \/ ReceiverAdds \/ ReceiverAdded \/ CloseWindow \/ Closed
  <2>1. CASE NodeBinds
    BY <2>1 DEF NodeBinds
  <2>2. CASE ReceiverAdds \/ ReceiverAdded
    BY <2>2 DEF ReceiverAdds, ReceiverAdded
  <2>3. CASE CloseWindow
    BY <2>3 DEF CloseWindow
  <2>4. CASE Closed
    BY <2>4 DEF Closed
  <2> QED
    BY <1>9, <2>1, <2>2, <2>3, <2>4
<1>10. CASE Pause
  <2>1. listening' \in BOOLEAN
    BY <1>10, Zenon DEF Pause
  <2> QED
    BY <1>10, <2>1 DEF Pause
<1>11. CASE ReceiverStarts \/ ReceiverEnds
  <2>1. PICK command \in Commands : Sends(command)
    BY <1>11 DEF ReceiverStarts, ReceiverEnds, Commands
  <2>2. inbox' \in Seq(Commands) /\ lost' \in BOOLEAN
    BY <2>1, SendEffect DEF Sends
  <2> QED
    BY <1>11, <2>1, <2>2 DEF ReceiverStarts, ReceiverEnds, Sends
<1>12. CASE UNCHANGED vars
  BY <1>12 DEF vars
<1> QED
  BY <1>1, <1>2, <1>3, <1>4, <1>5, <1>6, <1>7, <1>8, <1>9, <1>10, <1>11, <1>12 DEF Next

\* Every variable of the service and of the console keeps its type.
THEOREM TypeCorrect == Spec => []TypeOK
<1>1. Init => LinkTypeOK
  <2>1. 0 \in 0..MaxClicks /\ 0 \in 0..MaxWindows /\ HeartbeatGrace + 1 \in 0..HeartbeatGrace + 1
    BY ConsoleAssumption
  <2>2. << >> \in Seq(Commands)
    OBVIOUS
  <2> QED
    BY <2>1, <2>2, Zenon DEF Init, LinkTypeOK
<1>2. ServiceTypeOK /\ LinkTypeOK => TypeOK
  BY DEF LinkTypeOK, TypeOK
<1> QED
  BY <1>1, <1>2, LinkType, ServiceInvariant, PTL DEF Spec

-----------------------------------------------------------------------------
(* Commands on their way *)

Ordered(i) == inbox[i] \in {"Start", "Stop"}

\* Without a stale click there is one Start or Stop on its way at most, and none before
\* mainProc has started the sensors, nor a Start to a daemon that runs; nothing waits at a node
\* that does not listen yet.
CommandInv ==
    /\ ~listens => inbox = << >>
    /\ ~stale =>
         /\ \A i, k \in DOMAIN inbox : Ordered(i) /\ Ordered(k) => i = k
         /\ \A i \in DOMAIN inbox : inbox[i] = "Start" => ~arrayRunning
         /\ ~started => ~arrayRunning /\ \A i \in DOMAIN inbox : ~Ordered(i)

LEMMA CommandService == LinkTypeOK /\ CommandInv /\ Service => CommandInv'
<1> SUFFICES ASSUME LinkTypeOK, CommandInv, Service
             PROVE  CommandInv'
  OBVIOUS
<1>1. stale' = stale
  BY DEF Service
<1>2. UNCHANGED linkVars \/ (inbox' = << >> /\ arrayRunning' = FALSE)
  BY Zenon DEF Service
<1>3. CASE inbox' = << >> /\ arrayRunning' = FALSE
  BY <1>3 DEF CommandInv, Ordered
<1>4. CASE UNCHANGED linkVars
  BY <1>1, <1>4 DEF CommandInv, Ordered, linkVars
<1> QED
  BY <1>2, <1>3, <1>4

LEMMA CommandDeliver == LinkTypeOK /\ CommandInv /\ Deliver => CommandInv'
<1> SUFFICES ASSUME LinkTypeOK, CommandInv, Deliver
             PROVE  CommandInv'
  OBVIOUS
<1>1. /\ inbox' = Tail(inbox) /\ inbox # << >> /\ inbox \in Seq(Commands)
      /\ listens' = listens /\ started' = started /\ stale' = stale
  BY DEF Deliver, LinkTypeOK, history
<1>2. /\ DOMAIN inbox = 1..Len(inbox) /\ Len(inbox) \in Nat /\ Len(inbox) >= 1
      /\ DOMAIN inbox' = 1..(Len(inbox) - 1)
      /\ \A i \in 1..(Len(inbox) - 1) : inbox'[i] = inbox[i + 1]
      /\ Head(inbox) = inbox[1]
  BY <1>1, Tailed
<1>3. listens
  BY <1>1 DEF CommandInv
<1>4. arrayRunning' => arrayRunning \/ inbox[1] = "Start"
  BY <1>2 DEF Deliver, Obey
<1>5. SUFFICES ASSUME ~stale
               PROVE  /\ \A i, k \in DOMAIN inbox' : Ordered(i)' /\ Ordered(k)' => i = k
                      /\ \A i \in DOMAIN inbox' : inbox'[i] = "Start" => ~arrayRunning'
                      /\ ~started => ~arrayRunning' /\ \A i \in DOMAIN inbox' : ~Ordered(i)'
  BY <1>1, <1>3 DEF CommandInv
<1>6. \A i \in DOMAIN inbox' : i \in Nat /\ i >= 1 /\ i + 1 \in DOMAIN inbox /\ inbox'[i] = inbox[i + 1]
  BY <1>2
<1>7. \A i, k \in DOMAIN inbox' : Ordered(i)' /\ Ordered(k)' => i = k
  <2> SUFFICES ASSUME NEW i \in DOMAIN inbox', NEW k \in DOMAIN inbox', Ordered(i)', Ordered(k)'
               PROVE  i = k
    OBVIOUS
  <2>1. Ordered(i + 1) /\ Ordered(k + 1)
    BY <1>6 DEF Ordered
  <2>2. i + 1 = k + 1
    BY <1>5, <1>6, <2>1 DEF CommandInv
  <2> QED
    BY <1>6, <2>2
<1>8. ASSUME NEW i \in DOMAIN inbox', inbox'[i] = "Start"
      PROVE  ~arrayRunning'
  <2>1. i + 1 \in DOMAIN inbox /\ inbox[i + 1] = "Start" /\ i + 1 # 1 /\ 1 \in DOMAIN inbox
    BY <1>2, <1>6, <1>8
  <2>2. ~arrayRunning
    BY <1>5, <2>1 DEF CommandInv
  <2>3. inbox[1] # "Start"
    BY <1>5, <2>1 DEF CommandInv, Ordered
  <2> QED
    BY <1>4, <2>2, <2>3
<1>9. ASSUME ~started
      PROVE  ~arrayRunning' /\ \A i \in DOMAIN inbox' : ~Ordered(i)'
  <2>1. ~arrayRunning /\ \A i \in DOMAIN inbox : ~Ordered(i)
    BY <1>5, <1>9 DEF CommandInv
  <2>2. inbox[1] # "Start" /\ ~arrayRunning'
    BY <1>2, <1>4, <2>1 DEF Ordered
  <2> QED
    BY <1>6, <2>1, <2>2 DEF Ordered
<1> QED
  BY <1>7, <1>8, <1>9

\* A command is sent by the menu, or by a window.
LEMMA CommandSend ==
    ASSUME LinkTypeOK, CommandInv, NEW command \in Commands, Send(command),
           UNCHANGED <<arrayRunning, started, listens>>,
           ~stale' => ~stale,
           ~stale' /\ command \notin Request
             => /\ \A i \in DOMAIN inbox : ~Ordered(i)
                /\ command = "Start" => ~arrayRunning
                /\ listens => started
    PROVE  CommandInv'
<1>1. inbox \in Seq(Commands) /\ (inbox' = inbox \/ (inbox' = Append(inbox, command) /\ listens))
  BY SendEffect DEF LinkTypeOK
<1>2. CASE inbox' = inbox
  BY <1>2 DEF CommandInv, Ordered
<1>3. CASE inbox' = Append(inbox, command) /\ listens
  <2>1. /\ DOMAIN inbox = 1..Len(inbox) /\ Len(inbox) \in Nat
        /\ DOMAIN inbox' = 1..(Len(inbox) + 1)
        /\ \A i \in 1..Len(inbox) : inbox'[i] = inbox[i]
        /\ inbox'[Len(inbox) + 1] = command
    BY <1>1, <1>3, Appended
  <2>2. \A i \in DOMAIN inbox' : (i \in DOMAIN inbox /\ inbox'[i] = inbox[i])
                               \/ (i = Len(inbox) + 1 /\ inbox'[i] = command)
    BY <2>1
  <2>3. command \in Request => command \notin {"Start", "Stop"}
    BY DEF Request
  <2> QED
    BY <1>3, <2>2, <2>3 DEF CommandInv, Ordered
<1> QED
  BY <1>1, <1>2, <1>3

LEMMA CommandStep == LinkTypeOK /\ CommandInv /\ [Next]_vars => CommandInv'
<1> SUFFICES ASSUME LinkTypeOK, CommandInv, [Next]_vars
             PROVE  CommandInv'
  OBVIOUS
<1>1. CASE Service
  BY <1>1, CommandService
<1>2. CASE MainListens \/ MainStarts
  <2>1. CASE MainListens
    BY <2>1 DEF MainListens, CommandInv, Ordered, history
  <2>2. CASE MainStarts
    BY <2>2 DEF MainStarts, CommandInv, Ordered, history
  <2> QED
    BY <1>2, <2>1, <2>2
<1>3. CASE Deliver
  BY <1>3, CommandDeliver
<1>4. CASE Click
  <2>1. /\ Send(OtherCommand) /\ OtherCommand \in Commands /\ UNCHANGED <<arrayRunning, started, listens>>
        /\ OtherCommand = "Start" => shown # "Running"
    BY <1>4 DEF Click, OtherCommand, Commands
  <2>2. ~stale' => /\ ~stale /\ (shown = "Running") = arrayRunning
                   /\ \A i \in DOMAIN inbox : ~Ordered(i)
                   /\ listens => started
    BY <1>4 DEF Click, Ordered
  <2>3. ~stale' => (OtherCommand = "Start" => ~arrayRunning)
    BY <2>1, <2>2
  <2> QED
    BY <2>1, <2>2, <2>3, CommandSend
<1>5. CASE ReceiverStarts \/ ReceiverEnds
  <2>1. PICK command \in Request : Sends(command)
    BY <1>5 DEF ReceiverStarts, ReceiverEnds, Request
  <2>2. command \in Commands /\ UNCHANGED <<arrayRunning, started, listens, stale>>
    BY <2>1 DEF Sends, Commands, Request
  <2>3. CASE Send(command)
    BY <2>2, <2>3, CommandSend
  <2>4. CASE UNCHANGED inbox
    BY <2>2, <2>4 DEF CommandInv, Ordered
  <2> QED
    BY <2>1, <2>3, <2>4 DEF Sends
<1>6. CASE UNCHANGED <<arrayRunning, started, listens, inbox, stale>>
  BY <1>6 DEF CommandInv, Ordered
<1>7. \/ Heartbeat \/ Second \/ OnTimer \/ OpenWindow \/ NodeBinds \/ ReceiverAdds
      \/ ReceiverAdded \/ Pause \/ CloseWindow \/ Closed \/ UNCHANGED vars
      => UNCHANGED <<arrayRunning, started, listens, inbox, stale>>
  BY DEF Heartbeat, Second, OnTimer, OpenWindow, NodeBinds, ReceiverAdds, ReceiverAdded, Pause,
         CloseWindow, Closed, vars, linkVars, history
<1> QED
  BY <1>1, <1>2, <1>3, <1>4, <1>5, <1>6, <1>7 DEF Next

LEMMA LinkInvariant == Spec => [](LinkTypeOK /\ CommandInv)
<1>1. Init => LinkTypeOK /\ CommandInv
  <2>1. 0 \in 0..MaxClicks /\ 0 \in 0..MaxWindows /\ HeartbeatGrace + 1 \in 0..HeartbeatGrace + 1
    BY ConsoleAssumption
  <2>2. << >> \in Seq(Commands) /\ DOMAIN << >> = {}
    OBVIOUS
  <2>3. Init => LinkTypeOK
    BY <2>1, <2>2, Zenon DEF Init, LinkTypeOK
  <2>4. Init => CommandInv
    BY <2>2 DEF Init, CommandInv
  <2> QED
    BY <2>3, <2>4
<1> QED
  BY <1>1, LinkType, CommandStep, PTL DEF Spec

\* A daemon whose sensors run starts them again, which costs them their COM ports, only after
\* a click on a state that was not the daemon's or that mainProc or a command on its way was to
\* change: neither by a command, nor by mainProc after a command that came first.
THEOREM RepeatedStart == Spec => StartRepeatedOnlyStale
<1> DEFINE Repeats == arrayRunning /\ (MainStarts \/ (Deliver /\ Head(inbox) = "Start"))
<1>1. LinkTypeOK /\ CommandInv /\ Repeats => stale
  <2> SUFFICES ASSUME LinkTypeOK, CommandInv, Repeats
               PROVE  stale
    OBVIOUS
  <2>1. CASE MainStarts
    BY <2>1 DEF MainStarts, CommandInv
  <2>2. CASE Deliver /\ Head(inbox) = "Start"
    <3>1. 1 \in DOMAIN inbox /\ Head(inbox) = inbox[1]
      BY <2>2, Tailed DEF Deliver, LinkTypeOK
    <3> QED
      BY <2>2, <3>1 DEF CommandInv
  <2> QED
    BY <2>1, <2>2
<1> HIDE DEF Repeats
<1>2. Spec => [][Repeats => stale]_vars
  BY <1>1, LinkInvariant, PTL DEF Spec
<1> QED
  BY <1>2 DEF StartRepeatedOnlyStale, Repeats

-----------------------------------------------------------------------------
(* Forwarding *)

Asks(i) == inbox[i] \in Request
Served == receiver \in {"listens", "adds"}

\* What the daemon does or will do, when it has obeyed what is on its way, is what the last
\* window asked for: it forwards only to a receiver that is there.
ForwardInv ==
    /\ window = "none" => receiver = "none"
    /\ ~lost =>
         /\ \A i \in DOMAIN inbox :
              inbox[i] = "RawOn" /\ (\A k \in DOMAIN inbox : Asks(k) => k <= i) => Served
         /\ forward /\ (\A k \in DOMAIN inbox : ~Asks(k)) => Served

LEMMA ForwardDeliver == LinkTypeOK /\ ForwardInv /\ Deliver => ForwardInv'
<1> SUFFICES ASSUME LinkTypeOK, ForwardInv, Deliver
             PROVE  ForwardInv'
  OBVIOUS
<1>1. /\ inbox' = Tail(inbox) /\ inbox # << >> /\ inbox \in Seq(Commands)
      /\ UNCHANGED <<window, receiver, lost>>
  BY DEF Deliver, LinkTypeOK, history, windowVars
<1>2. /\ DOMAIN inbox = 1..Len(inbox) /\ Len(inbox) \in Nat /\ Len(inbox) >= 1
      /\ DOMAIN inbox' = 1..(Len(inbox) - 1)
      /\ \A i \in 1..(Len(inbox) - 1) : inbox'[i] = inbox[i + 1]
      /\ Head(inbox) = inbox[1]
  BY <1>1, Tailed
<1>3. \A i \in DOMAIN inbox' : i \in Nat /\ i >= 1 /\ i + 1 \in DOMAIN inbox /\ inbox'[i] = inbox[i + 1]
  BY <1>2
<1>4. \A k \in DOMAIN inbox : k \in Nat /\ (k = 1 \/ (k - 1 \in DOMAIN inbox' /\ inbox'[k - 1] = inbox[k]))
  BY <1>2
<1>5. Served' = Served
  BY <1>1 DEF Served
<1>6. SUFFICES ASSUME ~lost
               PROVE  /\ \A i \in DOMAIN inbox' :
                           inbox'[i] = "RawOn" /\ (\A k \in DOMAIN inbox' : Asks(k)' => k <= i) => Served
                      /\ forward' /\ (\A k \in DOMAIN inbox' : ~Asks(k)') => Served
  BY <1>1, <1>5 DEF ForwardInv
<1>7. ASSUME NEW i \in DOMAIN inbox', inbox'[i] = "RawOn", \A k \in DOMAIN inbox' : Asks(k)' => k <= i
      PROVE  Served
  <2>1. i + 1 \in DOMAIN inbox /\ inbox[i + 1] = "RawOn"
    BY <1>3, <1>7
  <2>2. ASSUME NEW k \in DOMAIN inbox, Asks(k)
        PROVE  k <= i + 1
    <3>1. k \in Nat /\ i \in Nat
      BY <1>3, <1>4
    <3>2. CASE k = 1
      BY <1>3, <3>2
    <3>3. CASE k - 1 \in DOMAIN inbox' /\ inbox'[k - 1] = inbox[k]
      <4>1. Asks(k - 1)'
        BY <2>2, <3>3 DEF Asks
      <4> QED
        BY <1>7, <3>1, <3>3, <4>1
    <3> QED
      BY <1>4, <3>2, <3>3
  <2> QED
    BY <1>6, <2>1, <2>2 DEF ForwardInv
<1>8. ASSUME forward', \A k \in DOMAIN inbox' : ~Asks(k)'
      PROVE  Served
  <2>1. \A k \in DOMAIN inbox : Asks(k) => k = 1
    BY <1>4, <1>8 DEF Asks
  <2>2. 1 \in DOMAIN inbox
    BY <1>2
  <2>3. CASE inbox[1] = "RawOn"
    <3>1. \A k \in DOMAIN inbox : Asks(k) => k <= 1
      BY <2>1
    <3> QED
      BY <1>6, <2>2, <2>3, <3>1 DEF ForwardInv
  <2>4. CASE inbox[1] # "RawOn"
    <3>1. forward /\ inbox[1] # "RawOff"
      BY <1>2, <1>8, <2>4 DEF Deliver, Obey
    <3>2. \A k \in DOMAIN inbox : ~Asks(k)
      BY <2>1, <2>4, <3>1 DEF Asks, Request
    <3> QED
      BY <1>6, <3>1, <3>2 DEF ForwardInv
  <2> QED
    BY <2>3, <2>4
<1> QED
  BY <1>7, <1>8

\* Start and Stop do not concern the windows.
LEMMA ForwardClick == LinkTypeOK /\ ForwardInv /\ Click => ForwardInv'
<1> SUFFICES ASSUME LinkTypeOK, ForwardInv, Click
             PROVE  ForwardInv'
  OBVIOUS
<1>1. /\ Send(OtherCommand) /\ OtherCommand \in Commands /\ OtherCommand \notin Request
      /\ UNCHANGED <<window, receiver, forward>> /\ inbox \in Seq(Commands) /\ lost \in BOOLEAN
  BY DEF Click, OtherCommand, Commands, Request, windowVars, LinkTypeOK
<1>2. (inbox' = inbox \/ inbox' = Append(inbox, OtherCommand)) /\ (~lost' => ~lost)
  BY <1>1, SendEffect
<1>3. CASE inbox' = inbox
  BY <1>1, <1>2, <1>3 DEF ForwardInv, Asks, Served
<1>4. CASE inbox' = Append(inbox, OtherCommand)
  <2>1. /\ DOMAIN inbox = 1..Len(inbox) /\ Len(inbox) \in Nat
        /\ DOMAIN inbox' = 1..(Len(inbox) + 1)
        /\ \A i \in 1..Len(inbox) : inbox'[i] = inbox[i]
        /\ inbox'[Len(inbox) + 1] = OtherCommand
    BY <1>1, <1>4, Appended
  <2>2. /\ \A i \in DOMAIN inbox' : inbox'[i] = "RawOn" => i \in DOMAIN inbox /\ inbox[i] = "RawOn"
        /\ \A k \in DOMAIN inbox : k \in DOMAIN inbox' /\ inbox'[k] = inbox[k]
    BY <1>1, <2>1 DEF Request
  <2>3. \A k \in DOMAIN inbox : Asks(k)' = Asks(k)
    BY <2>2 DEF Asks
  <2>4. Served' = Served
    BY <1>1 DEF Served
  <2> QED
    BY <1>1, <1>2, <2>2, <2>3, <2>4 DEF ForwardInv
<1> QED
  BY <1>2, <1>3, <1>4

LEMMA ForwardReceiver == LinkTypeOK /\ ForwardInv /\ (ReceiverStarts \/ ReceiverEnds) => ForwardInv'
<1> SUFFICES ASSUME LinkTypeOK, ForwardInv, ReceiverStarts \/ ReceiverEnds
             PROVE  ForwardInv'
  OBVIOUS
<1>1. window # "none" /\ window' = window
  BY DEF ReceiverStarts, ReceiverEnds, Sends, ForwardInv
<1>2. CASE ReceiverStarts
  <2>1. Served'
    BY <1>2 DEF ReceiverStarts, Served
  <2> QED
    BY <1>1, <2>1 DEF ForwardInv
<1>3. CASE ReceiverEnds
  <2> SUFFICES ASSUME ~lost'
               PROVE  /\ \A i \in DOMAIN inbox' :
                           ~(inbox'[i] = "RawOn" /\ (\A k \in DOMAIN inbox' : Asks(k)' => k <= i))
                      /\ \E k \in DOMAIN inbox' : Asks(k)'
    BY <1>1 DEF ForwardInv
  <2>1. inbox' = Append(inbox, "RawOff") /\ inbox \in Seq(Commands) /\ "RawOff" \in Commands
    <3>1. Send("RawOff") /\ "RawOff" \in Commands /\ "RawOff" \in Request
      BY <1>3 DEF ReceiverEnds, Sends, Commands, Request
    <3> QED
      BY <3>1, SendEffect DEF LinkTypeOK
  <2>2. PICK n \in Nat : DOMAIN inbox' = 1..n /\ n >= 1 /\ inbox'[n] = "RawOff"
    <3>1. /\ Len(inbox) \in Nat /\ DOMAIN inbox' = 1..(Len(inbox) + 1)
          /\ inbox'[Len(inbox) + 1] = "RawOff"
      BY <2>1, Appended
    <3> QED
      BY <3>1
  <2>3. n \in DOMAIN inbox' /\ Asks(n)'
    BY <2>2 DEF Asks, Request
  <2>4. ASSUME NEW i \in DOMAIN inbox', inbox'[i] = "RawOn",
               \A k \in DOMAIN inbox' : Asks(k)' => k <= i
        PROVE  FALSE
    <3>1. n <= i
      BY <2>3, <2>4
    <3>2. i = n
      BY <2>2, <3>1
    <3> QED
      BY <2>2, <2>4, <3>2
  <2> QED
    BY <2>3, <2>4
<1> QED
  BY <1>2, <1>3

LEMMA ForwardStep == LinkTypeOK /\ ForwardInv /\ [Next]_vars => ForwardInv'
<1> SUFFICES ASSUME LinkTypeOK, ForwardInv, [Next]_vars
             PROVE  ForwardInv'
  OBVIOUS
<1>1. CASE Service
  <2>1. UNCHANGED <<window, receiver>>
    BY <1>1 DEF Service, windowVars
  <2>2. UNCHANGED <<linkVars, lost>> \/ (inbox' = << >> /\ ~forward')
    BY <1>1, Zenon DEF Service
  <2>3. CASE UNCHANGED <<linkVars, lost>>
    BY <2>1, <2>3 DEF ForwardInv, Asks, Served, linkVars
  <2>4. CASE inbox' = << >> /\ ~forward'
    BY <2>1, <2>4 DEF ForwardInv
  <2> QED
    BY <2>2, <2>3, <2>4
<1>2. CASE Deliver
  BY <1>2, ForwardDeliver
<1>3. CASE Click
  BY <1>3, ForwardClick
<1>4. CASE ReceiverStarts \/ ReceiverEnds
  BY <1>4, ForwardReceiver
<1>5. ASSUME UNCHANGED <<inbox, forward, lost>>, window' = "none" => receiver' = "none", Served => Served'
      PROVE  ForwardInv'
  BY <1>5 DEF ForwardInv, Asks
<1>6. CASE OpenWindow
  BY <1>5, <1>6 DEF OpenWindow, linkVars, ForwardInv, Served
<1>7. CASE MainListens \/ MainStarts \/ Heartbeat \/ Second \/ OnTimer \/ NodeBinds \/ Pause \/ UNCHANGED vars
  BY <1>5, <1>7 DEF MainListens, MainStarts, Heartbeat, Second, OnTimer, NodeBinds, Pause, vars, linkVars,
                    windowVars, history, ForwardInv, Served
<1>8. CASE ReceiverAdds \/ ReceiverAdded \/ CloseWindow \/ Closed
  <2>1. UNCHANGED <<inbox, forward, lost>>
    BY <1>8 DEF ReceiverAdds, ReceiverAdded, CloseWindow, Closed, linkVars, history
  <2>2. window' = "none" => receiver' = "none"
    BY <1>8 DEF ReceiverAdds, ReceiverAdded, CloseWindow, Closed, ForwardInv
  <2>3. Served => Served'
    BY <1>8 DEF ReceiverAdds, ReceiverAdded, CloseWindow, Closed, Served
  <2> QED
    BY <1>5, <2>1, <2>2, <2>3
<1> QED
  BY <1>1, <1>2, <1>3, <1>4, <1>6, <1>7, <1>8 DEF Next

\* After a window is closed and everything on its way was obeyed, the daemon forwards no raw
\* data, unless one of the window's commands was lost.
THEOREM ForwardStops == Spec => []ForwardEnds
<1>1. Init => ForwardInv
  BY DEF Init, ForwardInv, Served
<1>2. ForwardInv => ForwardEnds
  <2> SUFFICES ASSUME ForwardInv, window = "none", ~lost, forward,
                      Request \intersect ToSet(inbox) = {}
               PROVE  FALSE
    BY DEF ForwardEnds
  <2>1. \A k \in DOMAIN inbox : ~Asks(k)
    BY DEF Asks, ToSet
  <2> QED
    BY <2>1 DEF ForwardInv, Served
<1> QED
  BY <1>1, <1>2, ForwardStep, LinkInvariant, PTL DEF Spec

-----------------------------------------------------------------------------
(* A window that closes *)

\* As StopGuards, for the threads of a window.
ClosingGuards ==
    /\ receiver = "starts" => ENABLED <<ReceiverStarts>>_vars
    /\ window = "closing" /\ receiver = "listens" => ENABLED <<ReceiverEnds>>_vars
    /\ window = "closing" /\ receiver = "ended" => ENABLED <<Closed>>_vars

\* A window has its receiver, which adds nothing to one that was paused all the time.
WindowInv ==
    /\ window # "none" => receiver # "none"
    /\ ~listened => ~listening /\ receiver # "adds"

LEMMA WindowStep == LinkTypeOK /\ WindowInv /\ [Next]_vars => WindowInv'
<1> SUFFICES ASSUME LinkTypeOK, WindowInv, [Next]_vars
             PROVE  WindowInv'
  OBVIOUS
<1> USE DEF WindowInv
<1>1. CASE Service \/ MainListens \/ MainStarts \/ Heartbeat \/ Deliver \/ Second \/ OnTimer \/ Click
  BY <1>1 DEF Service, MainListens, MainStarts, Heartbeat, Deliver, Second, OnTimer, Click, windowVars, history
<1>2. CASE OpenWindow \/ NodeBinds
  BY <1>2 DEF OpenWindow, NodeBinds, history
<1>3. CASE ReceiverStarts \/ ReceiverEnds
  BY <1>3 DEF ReceiverStarts, ReceiverEnds, Sends
<1>4. CASE ReceiverAdds \/ ReceiverAdded
  BY <1>4 DEF ReceiverAdds, ReceiverAdded, history
<1>5. CASE Pause \/ CloseWindow \/ Closed
  BY <1>5 DEF Pause, CloseWindow, Closed, history
<1>6. CASE UNCHANGED vars
  BY <1>6 DEF vars, windowVars, history
<1> HIDE DEF WindowInv
<1> QED
  BY <1>1, <1>2, <1>3, <1>4, <1>5, <1>6 DEF Next

LEMMA WindowInvariant == Spec => [](LinkTypeOK /\ WindowInv)
<1>1. Init => WindowInv
  BY DEF Init, WindowInv
<1> QED
  BY <1>1, WindowStep, LinkInvariant, PTL DEF Spec

\* stopThreads of SensorInfoWnd.cpp joins a receiver that is there and goes on to its end,
\* unless it is in AddText, which waits for the thread that joins it.
THEOREM ClosingGoesOn == Spec /\ []ClosingGuards => []ClosingNeverStuck
<1>1. LinkTypeOK /\ WindowInv /\ ClosingGuards => ClosingNeverStuck
  <2> SUFFICES ASSUME LinkTypeOK, WindowInv, ClosingGuards, window = "closing"
               PROVE  ClosingNeverStuck
    BY DEF ClosingNeverStuck
  <2>1. \/ receiver = "starts" \/ receiver = "listens" \/ receiver = "ended"
        \/ receiver = "adds" /\ Hung
    BY DEF LinkTypeOK, WindowInv, Hung
  <2> QED
    BY <2>1 DEF ClosingGuards, ClosingNeverStuck
<1> QED
  BY <1>1, WindowInvariant, PTL

\* Where a receiver may go from where it is while a window closes that was always paused.
LEMMA ClosingOrder ==
    ASSUME LinkTypeOK, WindowInv, [Next]_vars, window = "closing", ~listened
    PROVE  /\ (window' = "closing" /\ ~listened') \/ window' = "none"
           /\ receiver = "starts" =>
                receiver' = "starts" \/ receiver' = "listens" \/ window' = "none"
           /\ receiver = "listens" =>
                receiver' = "listens" \/ receiver' = "ended" \/ window' = "none"
           /\ receiver = "ended" => receiver' = "ended" \/ window' = "none"
<1> USE DEF WindowInv
<1>1. CASE Service \/ MainListens \/ MainStarts \/ Heartbeat \/ Deliver \/ Second \/ OnTimer \/ Click
  BY <1>1 DEF Service, MainListens, MainStarts, Heartbeat, Deliver, Second, OnTimer, Click, windowVars, history
<1>2. CASE OpenWindow \/ NodeBinds
  BY <1>2 DEF OpenWindow, NodeBinds, history
<1>3. CASE ReceiverStarts \/ ReceiverEnds
  BY <1>3 DEF ReceiverStarts, ReceiverEnds, Sends
<1>4. CASE ReceiverAdds \/ ReceiverAdded
  BY <1>4 DEF ReceiverAdds, ReceiverAdded, history
<1>5. CASE Pause \/ CloseWindow \/ Closed
  BY <1>5 DEF Pause, CloseWindow, Closed, history
<1>6. CASE UNCHANGED vars
  BY <1>6 DEF vars, windowVars, history
<1> HIDE DEF WindowInv
<1> QED
  BY <1>1, <1>2, <1>3, <1>4, <1>5, <1>6 DEF Next

\* A window that was never listened to is destroyed once it is closed, wherever its receiver
\* is when stopThreads begins.
THEOREM PausedIsDestroyed == FairSpec /\ []ClosingGuards => PausedWindowCloses
<1> DEFINE Paused  == window = "closing" /\ ~listened
           Starts  == Paused /\ receiver = "starts"
           Listens == Paused /\ receiver = "listens"
           Ended   == Paused /\ receiver = "ended"
           Destroyed   == window = "none"
           OK      == LinkTypeOK /\ WindowInv
<1>1. FairSpec => []OK /\ [][Next]_vars
  BY WindowInvariant, PTL DEF FairSpec, Spec
<1>2. FairSpec /\ []ClosingGuards => (Starts ~> Listens \/ Destroyed)
  <2>1. OK /\ Starts /\ [Next]_vars => Starts' \/ (Listens \/ Destroyed)'
    BY ClosingOrder
  <2>2. OK /\ Starts /\ <<ReceiverStarts>>_vars => (Listens \/ Destroyed)'
    BY ClosingOrder DEF ReceiverStarts, Next
  <2>3. ClosingGuards /\ Starts => ENABLED <<ReceiverStarts>>_vars
    BY PTL DEF ClosingGuards
  <2>4. FairSpec => WF_vars(ReceiverStarts)
    BY PTL DEF FairSpec
  <2> HIDE DEF OK, Starts, Listens, Destroyed
  <2> QED
    BY <1>1, <2>1, <2>2, <2>3, <2>4, PTL
<1>3. FairSpec /\ []ClosingGuards => (Listens ~> Ended \/ Destroyed)
  <2>1. OK /\ Listens /\ [Next]_vars => Listens' \/ (Ended \/ Destroyed)'
    BY ClosingOrder
  <2>2. OK /\ Listens /\ <<ReceiverEnds>>_vars => (Ended \/ Destroyed)'
    BY ClosingOrder DEF ReceiverEnds, Next
  <2>3. ClosingGuards /\ Listens => ENABLED <<ReceiverEnds>>_vars
    BY PTL DEF ClosingGuards
  <2>4. FairSpec => WF_vars(ReceiverEnds)
    BY PTL DEF FairSpec
  <2> HIDE DEF OK, Ended, Listens, Destroyed
  <2> QED
    BY <1>1, <2>1, <2>2, <2>3, <2>4, PTL
<1>4. FairSpec /\ []ClosingGuards => (Ended ~> Destroyed)
  <2>1. OK /\ Ended /\ [Next]_vars => Ended' \/ Destroyed'
    BY ClosingOrder
  <2>2. <<Closed>>_vars => Destroyed'
    BY DEF Closed
  <2>3. ClosingGuards /\ Ended => ENABLED <<Closed>>_vars
    BY PTL DEF ClosingGuards
  <2>4. FairSpec => WF_vars(Closed)
    BY PTL DEF FairSpec
  <2> HIDE DEF OK, Ended, Destroyed
  <2> QED
    BY <1>1, <2>1, <2>2, <2>3, <2>4, PTL
<1>5. OK /\ Paused => Starts \/ Listens \/ Ended
  BY DEF LinkTypeOK, WindowInv
<1>6. FairSpec /\ []ClosingGuards => (Paused ~> Destroyed)
  <2> HIDE DEF OK, Paused, Starts, Listens, Ended, Destroyed
  <2> QED
    BY <1>1, <1>2, <1>3, <1>4, <1>5, PTL
<1> QED
  BY <1>6 DEF PausedWindowCloses

=============================================================================
