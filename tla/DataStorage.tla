---------------------------- MODULE DataStorage ----------------------------
(***************************************************************************)
(* The parameter pipeline of the NaviSensor daemon: every sensor keeps the *)
(* navigation parameters its sentences delivered (SensorDataStorage), a    *)
(* sender thread polls the sensors into one GlobalDataStorage, elects a    *)
(* master source for every parameter type and broadcasts what is Good, and *)
(* watchdog threads age both storages.                                     *)
(*                                                                         *)
(* Threads: the processor thread and the watchdog of every sensor, the     *)
(* processedDataSender thread, the global watchdog and the command node.   *)
(* The sensor's watchdog and the poll read and write parameters of the     *)
(* sensor storage without its mutex, so both are split where another       *)
(* thread can come in between.                                             *)
(***************************************************************************)
EXTENDS Naturals, FiniteSets

CONSTANTS
    NumSensors,      \* sensors of the SensorArray, numbered in its order
    Type,            \* the Data::DataType values in play
    AlwaysSelected,  \* types for which Data::alwaysSelected answers true
    Position,        \* the type whose update also writes curPosition
    NoType,          \* stands for "no type"
    SensorTimeout,   \* paramTimeout of a SensorDataStorage (30 s)
    GlobalTimeout,   \* paramTimeout of the GlobalDataStorage (15 s)
    MaxAge,          \* bound: ages are counted up to here
    TrustedUI        \* TRUE: SelectMasterParam names only what was published

ASSUME ConstantsAssumption ==
    /\ NumSensors \in Nat \ {0}
    /\ NoType \notin Type
    /\ AlwaysSelected \subseteq Type
    /\ SensorTimeout \in Nat
    /\ GlobalTimeout \in Nat
    /\ MaxAge \in Nat
    /\ SensorTimeout < MaxAge
    /\ GlobalTimeout < MaxAge
    /\ TrustedUI \in BOOLEAN

VARIABLES
    sensorStore,  \* sensorStore[s][t]: the Parameter of type t of sensor s
    writing,      \* writing[s]: the type sensor s's processor is assigning,
                  \*   under the mutex of the sensor's storage
    doomed,       \* doomed[s]: the type s's watchdog has found expired and is
                  \*   about to mark
    globalStore,  \* globalStore[t][s]: the Parameter in s's slot of t's ParamMap
    master,       \* master[t]: masterSourceID of t's ParamMap
    polled,       \* how many sensors the current poll has extracted
    pending,      \* types extracted from the sensor being polled, not yet stored
    copying,      \* the type between election and copy: the poll holds the
                  \*   mutex of the global storage
    seen,         \* the quality the election read
    curPosition,  \* what the shared Data::Pos holds
    published,    \* what the last poll extracted and broadcast
    offered,      \* <<sensor, type>> pairs ever broadcast: the UI's parameter tree
    up            \* FALSE once an exception ended the process

storeVars == <<sensorStore, writing, doomed>>
pollVars  == <<polled, pending, copying, seen>>
netVars   == <<published, offered>>
vars      == <<sensorStore, writing, doomed, globalStore, master, polled, pending,
               copying, seen, curPosition, published, offered, up>>

Sensor   == 1..NumSensors
NoMaster == 0

\* A Parameter: its quality and the seconds since its updateTime. "None" is a
\* parameter no map holds yet; a new Parameter has updateTime 0, a huge age.
Quality == {"None", "Good", "Poor"}
Entry   == [quality : Quality, age : 0..MaxAge]
Absent  == [quality |-> "None", age |-> MaxAge]

\* One second later; only the comparisons with the timeouts ever read an age.
Older(e) == [e EXCEPT !.age = IF @ < MaxAge THEN @ + 1 ELSE @]

Present(s)   == {t \in Type : sensorStore[s][t].quality # "None"}
TypeKnown(t) == \E s \in Sensor : globalStore[t][s].quality # "None"
GoodIn(t)    == {s \in Sensor : globalStore[t][s].quality = "Good"}

\* What a broadcast says: type t from sensor s, flagged master or not.
Item == [type : Type, sensor : Sensor, master : BOOLEAN]

TypeOK ==
    /\ sensorStore \in [Sensor -> [Type -> Entry]]
    /\ writing \in [Sensor -> Type \union {NoType}]
    /\ doomed \in [Sensor -> Type \union {NoType}]
    /\ globalStore \in [Type -> [Sensor -> Entry]]
    /\ master \in [Type -> Sensor \union {NoMaster}]
    /\ polled \in 0..NumSensors
    /\ pending \in SUBSET Type
    /\ copying \in Type \union {NoType}
    /\ seen \in Quality
    /\ curPosition \in {"initial", "address"}
    /\ published \in SUBSET Item
    /\ offered \in SUBSET (Sensor \X Type)
    /\ up \in BOOLEAN

Init ==
    /\ sensorStore = [s \in Sensor |-> [t \in Type |-> Absent]]
    /\ writing = [s \in Sensor |-> NoType]
    /\ doomed = [s \in Sensor |-> NoType]
    /\ globalStore = [t \in Type |-> [s \in Sensor |-> Absent]]
    /\ master = [t \in Type |-> NoMaster]
    /\ polled = 0
    /\ pending = {}
    /\ copying = NoType
    /\ seen = "None"
    /\ curPosition = "initial"
    /\ published = {}
    /\ offered = {}
    /\ up = TRUE

-----------------------------------------------------------------------------
(* The sensor's threads *)

\* A parser delivers a value of type t: SensorDataStorage::update takes the
\* mutex, makes the slot if there is none, and Parameter::assign writes the
\* quality, always Good, before the updateTime. Before it a new slot is Poor with
\* the updateTime 0: the polls wait for the mutex, and for the watchdog it has expired as
\* it has until the updateTime is written.
ParserUpdateBegin(s, t) ==
    /\ up
    /\ writing[s] = NoType
    /\ writing' = [writing EXCEPT ![s] = t]
    /\ sensorStore' = [sensorStore EXCEPT ![s][t].quality = "Good"]
    /\ UNCHANGED <<doomed, globalStore, master, pollVars, curPosition, netVars, up>>

\* ... then the updateTime, and the mutex is released.
ParserUpdateEnd(s) ==
    /\ up
    /\ writing[s] # NoType
    /\ sensorStore' = [sensorStore EXCEPT ![s][writing[s]].age = 0]
    /\ writing' = [writing EXCEPT ![s] = NoType]
    /\ UNCHANGED <<doomed, globalStore, master, pollVars, curPosition, netVars, up>>

\* SensorDataStorage::watchdogProc, without the mutex: the expiry test ...
SensorWatchdogTest(s, t) ==
    /\ up
    /\ doomed[s] = NoType
    /\ sensorStore[s][t].quality # "None"
    /\ sensorStore[s][t].age > SensorTimeout
    /\ doomed' = [doomed EXCEPT ![s] = t]
    /\ UNCHANGED <<sensorStore, writing, globalStore, master, pollVars, curPosition,
                   netVars, up>>

\* Mutant: the pass ends without the assignment.
MarkNothing(s) ==
    /\ up
    /\ doomed[s] # NoType
    /\ doomed' = [doomed EXCEPT ![s] = NoType]
    /\ UNCHANGED <<sensorStore, writing, globalStore, master, pollVars, curPosition, netVars, up>>

\* ... and the assignment it leads to, whatever happened since the test.
SensorWatchdogMark(s) ==
    /\ up
    /\ doomed[s] # NoType
    /\ sensorStore' = [sensorStore EXCEPT ![s][doomed[s]].quality = "Poor"]
    /\ doomed' = [doomed EXCEPT ![s] = NoType]
    /\ UNCHANGED <<writing, globalStore, master, pollVars, curPosition, netVars, up>>

-----------------------------------------------------------------------------
(* The poll of processedDataSenderProc *)

\* The next sensor's extractAll, under that sensor's mutex. It copies pointers:
\* the parameters themselves are read later, by the updates below.
PollExtract ==
    /\ up
    /\ pending = {} /\ copying = NoType
    /\ polled < NumSensors
    /\ writing[polled + 1] = NoType
    /\ polled' = polled + 1
    /\ pending' = Present(polled + 1)
    /\ UNCHANGED <<storeVars, globalStore, master, copying, seen, curPosition, netVars, up>>

\* params->at (masterSourceID) finds no slot for the master and throws; nothing
\* catches the exception.
LookupThrows(s, t) ==
    /\ sensorStore[s][t].quality = "Good"
    /\ master[t] \notin {NoMaster, s}
    /\ globalStore[t][master[t]].quality = "None"

\* Mutant: a standing master is never replaced.
TakesFromNone(s, t) == sensorStore[s][t].quality = "Good" /\ master[t] = NoMaster

\* Whether a Good parameter of s takes the type's mastership.
TakesMastership(s, t) ==
    /\ sensorStore[s][t].quality = "Good"
    /\ \/ master[t] = NoMaster
       \/ /\ master[t] # s
          /\ globalStore[t][master[t]].quality # "Good"

\* GlobalDataStorage::update for an extracted parameter, up to the election.
PollElect(t) ==
    /\ up
    /\ t \in pending /\ copying = NoType
    /\ ~LookupThrows(polled, t)
    /\ copying' = t
    /\ seen' = sensorStore[polled][t].quality
    /\ master' = IF TakesMastership(polled, t)
                   THEN [master EXCEPT ![t] = polled] ELSE master
    /\ UNCHANGED <<storeVars, globalStore, polled, pending, curPosition, netVars, up>>

PollCrash(t) ==
    /\ up
    /\ t \in pending /\ copying = NoType
    /\ LookupThrows(polled, t)
    /\ up' = FALSE
    /\ UNCHANGED <<storeVars, globalStore, master, pollVars, curPosition, netVars>>

\* Mutants: a copy that turned Poor is not stored; a copy gets a new updateTime.
CopyGoodOnly ==
    /\ up
    /\ copying # NoType
    /\ globalStore' = IF sensorStore[polled][copying].quality = "Good"
                        THEN [globalStore EXCEPT ![copying][polled] = sensorStore[polled][copying]]
                        ELSE globalStore
    /\ pending' = pending \ {copying}
    /\ copying' = NoType
    /\ seen' = "None"
    /\ UNCHANGED <<storeVars, master, polled, curPosition, netVars, up>>

CopyAsNew ==
    /\ up
    /\ copying # NoType
    /\ globalStore' = [globalStore EXCEPT ![copying][polled] =
                          [quality |-> sensorStore[polled][copying].quality, age |-> 0]]
    /\ pending' = pending \ {copying}
    /\ copying' = NoType
    /\ seen' = "None"
    /\ UNCHANGED <<storeVars, master, polled, curPosition, netVars, up>>

\* Mutant: the loop over the extracted parameters does not get past the one it stored.
CopyAgain ==
    /\ up
    /\ copying # NoType
    /\ globalStore' = [globalStore EXCEPT ![copying][polled] = sensorStore[polled][copying]]
    /\ copying' = NoType
    /\ seen' = "None"
    /\ UNCHANGED <<storeVars, master, polled, pending, curPosition, netVars, up>>

\* Parameter::assign reads the sensor's parameter again, without its mutex: the quality,
\* whatever the sensor's threads have made of it since the election ...
PollRead ==
    /\ up
    /\ copying # NoType
    /\ seen' = sensorStore[polled][copying].quality
    /\ UNCHANGED <<storeVars, globalStore, master, polled, pending, copying, curPosition,
                   netVars, up>>

\* ... and after it the updateTime, so an old quality can meet a new time, and fills its
\* slot. For a position the bytes at the address of param.data, a pointer, become the
\* ship's.
PollCopy ==
    /\ up
    /\ copying # NoType
    /\ \E q \in {seen, sensorStore[polled][copying].quality} :
         globalStore' = [globalStore EXCEPT ![copying][polled] =
                           [quality |-> q, age |-> sensorStore[polled][copying].age]]
    /\ curPosition' = IF copying = Position THEN "address" ELSE curPosition
    /\ pending' = pending \ {copying}
    /\ copying' = NoType
    /\ seen' = "None"
    /\ UNCHANGED <<storeVars, master, polled, netVars, up>>

\* Mutant: goodOnly is not heeded.
ExtractedAll ==
    {i \in Item : globalStore[i.type][i.sensor].quality # "None"
                    /\ (i.master <=> i.type \in AlwaysSelected \/ master[i.type] = i.sensor)}

\* GlobalDataStorage::extractAll with goodOnly: the Good parameters, each flagged as its
\* type's master or not.
Extracted ==
    {i \in Item : i.sensor \in GoodIn(i.type)
                    /\ (i.master <=> i.type \in AlwaysSelected \/ master[i.type] = i.sensor)}

\* All sensors polled: extract and broadcast. The ProcessedDataPort datagram carries
\* every item (none is sent if there is no item), the SimpleProtocolPort datagram the
\* first item of every type, master or not.
PollPublish ==
    /\ up
    /\ polled = NumSensors /\ pending = {} /\ copying = NoType
    /\ published' = Extracted
    /\ offered' = offered \union {<<i.sensor, i.type>> : i \in Extracted}
    /\ polled' = 0
    /\ UNCHANGED <<storeVars, globalStore, master, pending, copying, seen, curPosition, up>>

-----------------------------------------------------------------------------
(* The global storage's watchdog and the operator's choice of a master *)

\* Mutant: the timeout itself is too old.
WatchedEarly(e) ==
    IF e.quality # "None" /\ e.age >= GlobalTimeout THEN [e EXCEPT !.quality = "Poor"] ELSE e

\* The slot e after the watchdog's age test.
Watched(e) ==
    IF e.quality # "None" /\ e.age > GlobalTimeout THEN [e EXCEPT !.quality = "Poor"] ELSE e

\* Mutant: Poor parameters stay masters.
WatchdogKeepsMaster ==
    /\ up
    /\ copying = NoType
    /\ globalStore' = [t \in Type |-> [s \in Sensor |-> Watched(globalStore[t][s])]]
    /\ UNCHANGED <<storeVars, master, pollVars, curPosition, netVars, up>>

\* GlobalDataStorage::watchdogProc: one pass, under the global mutex. A master
\* without a slot is never visited and stays.
GlobalWatchdog ==
    /\ up
    /\ copying = NoType
    /\ globalStore' = [t \in Type |-> [s \in Sensor |-> Watched(globalStore[t][s])]]
    /\ master' = [t \in Type |->
                    IF master[t] # NoMaster /\ globalStore'[t][master[t]].quality = "Poor"
                      THEN NoMaster ELSE master[t]]
    /\ UNCHANGED <<storeVars, pollVars, curPosition, netVars, up>>

\* The SelectMasterParam command: assignMasterSource takes any id, if the type is
\* known. The UI sends what its tree shows; a tree filled by an earlier daemon, or
\* a click on the icon of a type instead of a source, names anything.
AssignMasterSource(s, t) ==
    /\ up
    /\ copying = NoType
    /\ TrustedUI => <<s, t>> \in offered /\ t \notin AlwaysSelected
    /\ TypeKnown(t)
    /\ master' = [master EXCEPT ![t] = s]
    /\ UNCHANGED <<storeVars, globalStore, pollVars, curPosition, netVars, up>>

\* A second passes.
Tick ==
    /\ up
    /\ sensorStore' = [s \in Sensor |-> [t \in Type |-> Older(sensorStore[s][t])]]
    /\ globalStore' = [t \in Type |-> [s \in Sensor |-> Older(globalStore[t][s])]]
    /\ UNCHANGED <<writing, doomed, master, pollVars, curPosition, netVars, up>>

Next ==
    \/ \E s \in Sensor, t \in Type : ParserUpdateBegin(s, t)
    \/ \E s \in Sensor : ParserUpdateEnd(s)
    \/ \E s \in Sensor, t \in Type : SensorWatchdogTest(s, t)
    \/ \E s \in Sensor : SensorWatchdogMark(s)
    \/ PollExtract
    \/ \E t \in Type : PollElect(t)
    \/ \E t \in Type : PollCrash(t)
    \/ PollRead
    \/ PollCopy
    \/ PollPublish
    \/ GlobalWatchdog
    \/ \E s \in Sensor, t \in Type : AssignMasterSource(s, t)
    \/ Tick

Spec == Init /\ [][Next]_vars

\* Every thread keeps running: a started assignment ends, the poll and the sensors'
\* watchdogs go on, the clock advances. Strong fairness where a step waits for a mutex
\* (the holders keep it for microseconds, the waiter queues for it) and for the
\* watchdog's visit of each parameter (every pass iterates over all of them). No
\* fairness for deliveries and commands.
SensorFairness(s)   == WF_vars(ParserUpdateEnd(s)) /\ WF_vars(SensorWatchdogMark(s))
VisitFairness(s, t) == SF_vars(SensorWatchdogTest(s, t))
ElectFairness(t)    == WF_vars(PollElect(t))

GlobalFairness ==
    /\ SF_vars(PollExtract) /\ WF_vars(PollCopy) /\ WF_vars(PollPublish)
    /\ SF_vars(GlobalWatchdog)
    /\ WF_vars(Tick)

Fairness ==
    /\ \A s \in Sensor : SensorFairness(s)
    /\ \A s \in Sensor, t \in Type : VisitFairness(s, t)
    /\ \A t \in Type : ElectFairness(t)
    /\ GlobalFairness

FairSpec == Spec /\ Fairness

-----------------------------------------------------------------------------
(* Properties *)

\* With a UI that names only sources this daemon has broadcast, the lookup of the
\* master's parameter in GlobalDataStorage::update never throws: whenever the mutex of
\* the storage is free, the master of a type has a slot in its ParamMap.
MasterHasSlot ==
    TrustedUI =>
        /\ up
        /\ \A t \in Type :
             copying = NoType /\ master[t] # NoMaster
               => globalStore[t][master[t]].quality # "None"

\* The global copy of a parameter never looks younger than the original in the sensor's
\* storage, whatever races the unlocked reads of the poll run into: a consumer never
\* takes old data for new.
CopyNotYounger ==
    \A t \in Type, s \in Sensor : globalStore[t][s].age >= sensorStore[s][t].age

\* The storage with its polls, watchdogs, locks and races keeps the promise of
\* MasterElection: mastership is taken only where no Good master stands, lost only by a
\* master found Poor, and broadcasts carry the Good sources with their true flags.
Election == INSTANCE MasterElection WITH
                Source    <- Sensor,
                good      <- [t \in Type |-> GoodIn(t)],
                reporting <- copying,
                reporter  <- IF copying = NoType THEN NoMaster ELSE polled

ImplementsElection == Election!Spec

\* Type t from sensor s is in the last broadcast.
Broadcast(s, t) == \E i \in published : i.sensor = s /\ i.type = t

\* A parameter a sensor has stopped delivering is in the end no longer broadcast: the
\* sensor's watchdog has marked it and the polls have carried the mark over.
SilentSourceDropped ==
    \A s \in Sensor, t \in Type :
        <>[](sensorStore[s][t].age = MaxAge) => <>[]~Broadcast(s, t)

\* The sender never stops polling, whatever it has to wait for: broadcast follows broadcast.
PollsGoOn == []<><<PollPublish>>_vars

\* A master whose copy is Poor does not stay one: it is deposed or delivers again.
PoorMasterDeposed ==
    \A t \in Type, s \in Sensor :
        (master[t] = s /\ globalStore[t][s].quality = "Poor")
          ~> (master[t] # s \/ globalStore[t][s].quality = "Good")

=============================================================================
