------------------------- MODULE DataStorageProofs -------------------------
(***************************************************************************)
(* What holds of the storages for any number of sensors, any types, any    *)
(* timeouts and any periods of the threads. First of DataStorage: its type *)
(* invariant, that no copy looks younger than its original, that the       *)
(* master lookup of a poll never throws under a UI that names only what    *)
(* was broadcast, and that the storage implements MasterElection. Then of  *)
(* DataStorageTimed: that it is a DataStorage, so that all this holds of   *)
(* it, the bound on the age of what is broadcast as Good, and, for threads *)
(* that keep their pace, that the master of a type stays as long as its    *)
(* source is heard and that a type has a source and no master for one      *)
(* broadcast at most. Last, from the fairness of DataStorage, what comes   *)
(* in the end: a Poor master is deposed and a silent source dropped.       *)
(***************************************************************************)
EXTENDS DataStorageTimed, TLAPS

\* Between the sensors of a poll nothing is pending; within one, the sensor is real and
\* the type being copied is one of those it delivered.
PollInv ==
    /\ pending # {} => polled \in Sensor
    /\ copying # NoType => copying \in pending

TypeInv == TypeOK /\ PollInv

\* What an assignment of one field makes of a parameter.
LEMMA EntryExcept ==
    ASSUME NEW e \in Entry, NEW q \in Quality, NEW a \in 0..MaxAge
    PROVE  /\ [e EXCEPT !.quality = q] \in Entry
           /\ [e EXCEPT !.quality = q].quality = q
           /\ [e EXCEPT !.quality = q].age = e.age
           /\ [e EXCEPT !.age = a] \in Entry
           /\ [e EXCEPT !.age = a].quality = e.quality
           /\ [e EXCEPT !.age = a].age = a
<1>1. PICK p \in Quality, b \in 0..MaxAge : e = [quality |-> p, age |-> b]
  BY DEF Entry
<1>2. /\ [e EXCEPT !.quality = q] = [quality |-> q, age |-> b]
      /\ [e EXCEPT !.age = a] = [quality |-> p, age |-> a]
  BY <1>1
<1> QED
  BY <1>1, <1>2 DEF Entry

LEMMA FieldValues ==
    /\ "None" \in Quality /\ "Good" \in Quality /\ "Poor" \in Quality
    /\ MaxAge \in Nat /\ 0 \in 0..MaxAge
  BY ConstantsAssumption DEF Quality

LEMMA UpdateBeginEffect ==
    ASSUME TypeOK, NEW s \in Sensor, NEW t \in Type, ParserUpdateBegin(s, t)
    PROVE  /\ sensorStore' \in [Sensor -> [Type -> Entry]]
           /\ \A r \in Sensor, u \in Type :
                /\ sensorStore'[r][u].age = sensorStore[r][u].age
                /\ sensorStore'[r][u].quality \in {sensorStore[r][u].quality, "Good"}
<1> DEFINE e == [sensorStore[s][t] EXCEPT !.quality = "Good"]
<1>1. sensorStore[s][t] \in Entry
  BY DEF TypeOK
<1>2. e \in Entry /\ e.quality = "Good" /\ e.age = sensorStore[s][t].age
  BY <1>1, FieldValues, EntryExcept, Zenon
<1>3. sensorStore' = [sensorStore EXCEPT ![s][t] = e]
  BY DEF ParserUpdateBegin
<1> HIDE DEF e
<1>4. /\ sensorStore' \in [Sensor -> [Type -> Entry]]
      /\ sensorStore'[s][t] = e
      /\ \A r \in Sensor, u \in Type :
           r # s \/ u # t => sensorStore'[r][u] = sensorStore[r][u]
  BY <1>2, <1>3 DEF TypeOK
<1> QED
  BY <1>2, <1>4

LEMMA UpdateEndEffect ==
    ASSUME TypeOK, NEW s \in Sensor, ParserUpdateEnd(s)
    PROVE  /\ sensorStore' \in [Sensor -> [Type -> Entry]]
           /\ \A r \in Sensor, u \in Type :
                /\ sensorStore'[r][u].age \in {sensorStore[r][u].age, 0}
                /\ sensorStore'[r][u].quality = sensorStore[r][u].quality
<1> DEFINE t == writing[s]
           e == [sensorStore[s][t] EXCEPT !.age = 0]
<1>1. t \in Type /\ sensorStore[s][t] \in Entry
  BY DEF TypeOK, ParserUpdateEnd
<1>2. e \in Entry /\ e.age = 0 /\ e.quality = sensorStore[s][t].quality
  BY <1>1, FieldValues, EntryExcept, Zenon
<1>3. sensorStore' = [sensorStore EXCEPT ![s][t] = e]
  BY DEF ParserUpdateEnd
<1> HIDE DEF e, t
<1>4. /\ sensorStore' \in [Sensor -> [Type -> Entry]]
      /\ sensorStore'[s][t] = e
      /\ \A r \in Sensor, u \in Type :
           r # s \/ u # t => sensorStore'[r][u] = sensorStore[r][u]
  BY <1>1, <1>2, <1>3 DEF TypeOK
<1> QED
  BY <1>2, <1>4

LEMMA MarkEffect ==
    ASSUME TypeOK, NEW s \in Sensor, SensorWatchdogMark(s)
    PROVE  /\ sensorStore' \in [Sensor -> [Type -> Entry]]
           /\ \A r \in Sensor, u \in Type :
                /\ sensorStore'[r][u].age = sensorStore[r][u].age
                /\ sensorStore'[r][u].quality \in {sensorStore[r][u].quality, "Poor"}
<1> DEFINE t == doomed[s]
           e == [sensorStore[s][t] EXCEPT !.quality = "Poor"]
<1>1. t \in Type /\ sensorStore[s][t] \in Entry
  BY DEF TypeOK, SensorWatchdogMark
<1>2. e \in Entry /\ e.quality = "Poor" /\ e.age = sensorStore[s][t].age
  BY <1>1, FieldValues, EntryExcept, Zenon
<1>3. sensorStore' = [sensorStore EXCEPT ![s][t] = e]
  BY DEF SensorWatchdogMark
<1> HIDE DEF e, t
<1>4. /\ sensorStore' \in [Sensor -> [Type -> Entry]]
      /\ sensorStore'[s][t] = e
      /\ \A r \in Sensor, u \in Type :
           r # s \/ u # t => sensorStore'[r][u] = sensorStore[r][u]
  BY <1>1, <1>2, <1>3 DEF TypeOK
<1> QED
  BY <1>2, <1>4

LEMMA OlderType ==
    ASSUME NEW e \in Entry
    PROVE  /\ Older(e) \in Entry
           /\ Older(e).quality = e.quality
           /\ Older(e).age = IF e.age < MaxAge THEN e.age + 1 ELSE e.age
<1>1. MaxAge \in Nat
  BY ConstantsAssumption
<1>2. PICK q \in Quality, a \in 0..MaxAge : e = [quality |-> q, age |-> a]
  BY DEF Entry
<1>3. Older(e) = [quality |-> q, age |-> IF a < MaxAge THEN a + 1 ELSE a]
  BY <1>2 DEF Older
<1> QED
  BY <1>1, <1>2, <1>3 DEF Entry

LEMMA WatchedType ==
    ASSUME NEW e \in Entry
    PROVE  /\ Watched(e) \in Entry
           /\ Watched(e).age = e.age
           /\ Watched(e).quality \in {e.quality, "Poor"}
           /\ Watched(e).quality = "None" <=> e.quality = "None"
<1>1. PICK q \in Quality, a \in 0..MaxAge : e = [quality |-> q, age |-> a]
  BY DEF Entry
<1>2. Watched(e) \in {e, [quality |-> "Poor", age |-> a]}
  BY <1>1 DEF Watched
<1>3. e.quality = "None" => Watched(e) = e
  BY DEF Watched
<1> QED
  BY <1>1, <1>2, <1>3 DEF Entry, Quality

LEMMA TypeInit == Init => TypeInv
<1> SUFFICES ASSUME Init PROVE TypeInv
  OBVIOUS
<1>1. NumSensors \in Nat \ {0} /\ MaxAge \in Nat /\ Absent \in Entry
  BY ConstantsAssumption DEF Absent, Entry, Quality
<1> QED
  BY <1>1 DEF Init, TypeInv, TypeOK, PollInv, Sensor, Quality

LEMMA TypeStep == TypeInv /\ [Next]_vars => TypeInv'
<1> SUFFICES ASSUME TypeInv, [Next]_vars PROVE TypeInv'
  OBVIOUS
<1> USE DEF TypeInv, TypeOK, PollInv
<1>c. /\ NumSensors \in Nat \ {0} /\ MaxAge \in Nat
      /\ NoType \notin Type
      /\ \A q \in Quality, a \in 0..MaxAge : [quality |-> q, age |-> a] \in Entry
      /\ \A e \in Entry : e.quality \in Quality /\ e.age \in 0..MaxAge
  BY ConstantsAssumption DEF Entry
<1>q. {"None", "Good", "Poor"} = Quality
  BY DEF Quality
<1>1. ASSUME NEW s \in Sensor, NEW t \in Type, ParserUpdateBegin(s, t) PROVE TypeInv'
  <2>1. sensorStore' \in [Sensor -> [Type -> Entry]]
    BY <1>1, UpdateBeginEffect
  <2> QED
    BY <1>1, <2>1 DEF ParserUpdateBegin, pollVars, netVars
<1>2. ASSUME NEW s \in Sensor, ParserUpdateEnd(s) PROVE TypeInv'
  <2>1. sensorStore' \in [Sensor -> [Type -> Entry]]
    BY <1>2, UpdateEndEffect
  <2> QED
    BY <1>2, <2>1 DEF ParserUpdateEnd, pollVars, netVars
<1>3. ASSUME NEW s \in Sensor, NEW t \in Type, SensorWatchdogTest(s, t) PROVE TypeInv'
  BY <1>3 DEF SensorWatchdogTest, pollVars, netVars
<1>4. ASSUME NEW s \in Sensor, SensorWatchdogMark(s) PROVE TypeInv'
  <2>1. sensorStore' \in [Sensor -> [Type -> Entry]]
    BY <1>4, MarkEffect
  <2> QED
    BY <1>4, <2>1 DEF SensorWatchdogMark, pollVars, netVars
<1>5. CASE PollExtract
  <2>1. polled + 1 \in Sensor /\ polled + 1 \in 0..NumSensors
    BY <1>5, <1>c DEF PollExtract, Sensor
  <2> QED
    BY <1>5, <2>1 DEF PollExtract, storeVars, netVars, Present
<1>6. ASSUME NEW t \in Type, PollElect(t) PROVE TypeInv'
  <2>1. polled \in Sensor
    BY <1>6 DEF PollElect
  <2>2. seen' \in Quality
    BY <1>6, <1>c, <2>1 DEF PollElect
  <2>3. master' \in [Type -> Sensor \union {NoMaster}]
    BY <1>6, <2>1 DEF PollElect
  <2> QED
    BY <1>6, <2>1, <2>2, <2>3 DEF PollElect, storeVars, netVars
<1>7. ASSUME NEW t \in Type, PollCrash(t) PROVE TypeInv'
  BY <1>7 DEF PollCrash, storeVars, pollVars, netVars
<1>8. CASE PollCopy
  <2>1. copying \in Type /\ polled \in Sensor
    BY <1>8 DEF PollCopy
  <2>2. sensorStore[polled][copying] \in Entry
    BY <2>1
  <2>3. globalStore' \in [Type -> [Sensor -> Entry]]
    BY <1>8, <1>c, <2>1, <2>2 DEF PollCopy
  <2>4. curPosition' \in {"initial", "address"}
    BY <1>8 DEF PollCopy
  <2> QED
    BY <1>8, <1>q, <2>1, <2>3, <2>4 DEF PollCopy, storeVars, netVars
<1>9. CASE PollPublish
  <2>1. Extracted \subseteq Item
    BY DEF Extracted
  <2>2. \A i \in Item : i.sensor \in Sensor /\ i.type \in Type
    BY DEF Item
  <2>3. offered' \in SUBSET (Sensor \X Type)
    BY <1>9, <2>1, <2>2 DEF PollPublish
  <2>4. polled' \in 0..NumSensors
    BY <1>9, <1>c DEF PollPublish
  <2> QED
    BY <1>9, <2>1, <2>3, <2>4 DEF PollPublish, storeVars
<1>10. CASE GlobalWatchdog
  <2>1. globalStore' \in [Type -> [Sensor -> Entry]]
    BY <1>10, WatchedType DEF GlobalWatchdog
  <2>2. master' \in [Type -> Sensor \union {NoMaster}]
    BY <1>10 DEF GlobalWatchdog
  <2> QED
    BY <1>10, <2>1, <2>2 DEF GlobalWatchdog, storeVars, pollVars, netVars
<1>11. ASSUME NEW s \in Sensor, NEW t \in Type, AssignMasterSource(s, t) PROVE TypeInv'
  BY <1>11 DEF AssignMasterSource, storeVars, pollVars, netVars
<1>12. CASE Tick
  <2>1. sensorStore' \in [Sensor -> [Type -> Entry]]
    BY <1>12, OlderType DEF Tick
  <2>2. globalStore' \in [Type -> [Sensor -> Entry]]
    BY <1>12, OlderType DEF Tick
  <2> QED
    BY <1>12, <2>1, <2>2 DEF Tick, pollVars, netVars
<1>13. CASE PollRead
  <2>1. sensorStore[polled][copying].quality \in Quality
    BY <1>13 DEF PollRead, Entry
  <2> QED
    BY <1>13, <2>1 DEF PollRead, storeVars, netVars
<1>14. CASE UNCHANGED vars
  BY <1>14 DEF vars, storeVars, pollVars, netVars
<1> QED
  BY <1>1, <1>2, <1>3, <1>4, <1>5, <1>6, <1>7, <1>8, <1>9, <1>10, <1>11, <1>12, <1>13, <1>14
     DEF Next

\* Every variable keeps its type, and a poll is at a real sensor when it stores.
THEOREM TypeInvariant == Spec => []TypeInv
<1> QED
  BY TypeInit, TypeStep, PTL DEF Spec

\* The type invariant the runs check.
THEOREM TypeCorrect == Spec => []TypeOK
<1>1. TypeInv => TypeOK
  BY DEF TypeInv
<1> QED
  BY <1>1, TypeInvariant, PTL

-----------------------------------------------------------------------------
(* Ages: CopyNotYounger is inductive given the types. *)

LEMMA AgeInit == Init => CopyNotYounger
<1> SUFFICES ASSUME Init, NEW t \in Type, NEW s \in Sensor
             PROVE  globalStore[t][s].age >= sensorStore[s][t].age
  BY DEF CopyNotYounger
<1> QED
  BY FieldValues DEF Init, Absent

LEMMA AgeStep == TypeInv /\ CopyNotYounger /\ [Next]_vars => CopyNotYounger'
<1> SUFFICES ASSUME TypeInv, CopyNotYounger, [Next]_vars,
                    NEW t \in Type, NEW s \in Sensor
             PROVE  globalStore'[t][s].age >= sensorStore'[s][t].age
  BY DEF CopyNotYounger
<1>t. TypeOK
  BY DEF TypeInv
<1>c. /\ globalStore[t][s] \in Entry /\ globalStore[t][s].age \in 0..MaxAge
      /\ sensorStore[s][t] \in Entry /\ sensorStore[s][t].age \in 0..MaxAge
      /\ globalStore[t][s].age >= sensorStore[s][t].age
      /\ MaxAge \in Nat
  BY <1>t, FieldValues DEF TypeOK, Entry, CopyNotYounger
<1>1. ASSUME NEW r \in Sensor, NEW u \in Type, ParserUpdateBegin(r, u)
      PROVE  globalStore'[t][s].age >= sensorStore'[s][t].age
  <2>1. sensorStore'[s][t].age = sensorStore[s][t].age
    BY <1>t, <1>1, UpdateBeginEffect
  <2> QED
    BY <1>c, <1>1, <2>1 DEF ParserUpdateBegin
<1>2. ASSUME NEW r \in Sensor, ParserUpdateEnd(r)
      PROVE  globalStore'[t][s].age >= sensorStore'[s][t].age
  <2>1. sensorStore'[s][t].age \in {sensorStore[s][t].age, 0}
    BY <1>t, <1>2, UpdateEndEffect
  <2> QED
    BY <1>c, <1>2, <2>1 DEF ParserUpdateEnd
<1>3. ASSUME NEW r \in Sensor, SensorWatchdogMark(r)
      PROVE  globalStore'[t][s].age >= sensorStore'[s][t].age
  <2>1. sensorStore'[s][t].age = sensorStore[s][t].age
    BY <1>t, <1>3, MarkEffect
  <2> QED
    BY <1>c, <1>3, <2>1 DEF SensorWatchdogMark
<1>4. CASE PollCopy
  <2>1. sensorStore' = sensorStore
    BY <1>4 DEF PollCopy, storeVars
  <2>2. PICK q \in {seen, sensorStore[polled][copying].quality} :
          globalStore' = [globalStore EXCEPT ![copying][polled] =
                            [quality |-> q, age |-> sensorStore[polled][copying].age]]
    BY <1>4 DEF PollCopy
  <2>3. CASE copying = t /\ polled = s
    <3>1. globalStore'[t][s].age = sensorStore[s][t].age
      BY <1>t, <2>2, <2>3 DEF TypeOK
    <3> QED
      BY <1>c, <2>1, <3>1
  <2>4. CASE copying # t \/ polled # s
    <3>1. globalStore'[t][s] = globalStore[t][s]
      BY <1>t, <2>2, <2>4 DEF TypeOK
    <3> QED
      BY <1>c, <2>1, <3>1
  <2> QED
    BY <2>3, <2>4
<1>5. CASE GlobalWatchdog
  <2>1. globalStore'[t][s].age = globalStore[t][s].age /\ sensorStore' = sensorStore
    BY <1>5, <1>c, WatchedType DEF GlobalWatchdog, storeVars
  <2> QED
    BY <1>c, <2>1
<1>6. CASE Tick
  <2>1. /\ globalStore'[t][s] = Older(globalStore[t][s])
        /\ sensorStore'[s][t] = Older(sensorStore[s][t])
    BY <1>6 DEF Tick
  <2> QED
    BY <1>c, <2>1, OlderType
<1>7. ASSUME UNCHANGED <<sensorStore, globalStore>>
      PROVE  globalStore'[t][s].age >= sensorStore'[s][t].age
  BY <1>7, <1>c
<1> QED
  BY <1>1, <1>2, <1>3, <1>4, <1>5, <1>6, <1>7
     DEF Next, vars, storeVars, SensorWatchdogTest, PollExtract, PollElect, PollCrash, PollRead,
         PollPublish, AssignMasterSource

\* However the unlocked reads of a poll interleave with the sensors' threads, a copy in
\* the global storage never looks younger than the sensor's own parameter.
THEOREM CopyNeverYounger == Spec => []CopyNotYounger
<1> QED
  BY TypeInvariant, AgeInit, AgeStep, PTL DEF Spec

-----------------------------------------------------------------------------
(* MasterHasSlot: the exception of GlobalDataStorage::update cannot come.   *)

\* The sensors with a slot in the ParamMap of t.
Slots(t) == {s \in Sensor : globalStore[t][s].quality # "None"}

\* MasterHasSlot says nothing while a poll is between election and copy, nor why the
\* operator's choice has a slot. The strengthening: the master has a slot or is about to
\* get it, everything ever broadcast has one, and what a poll is storing exists.
SlotInv ==
    TrustedUI =>
        /\ up
        /\ \A t \in Type :
             master[t] # NoMaster
               => master[t] \in Slots(t) \/ (copying = t /\ master[t] = polled)
        /\ \A s \in Sensor, t \in Type : <<s, t>> \in offered => s \in Slots(t)
        /\ \A t \in pending : sensorStore[polled][t].quality # "None"
        /\ copying # NoType => seen # "None"

LEMMA SlotInit == Init => SlotInv
  BY ConstantsAssumption DEF Init, SlotInv

\* No step takes a slot away.
LEMMA SlotsStay ==
    ASSUME TypeInv, SlotInv, TrustedUI, [Next]_vars,
           NEW s \in Sensor, NEW t \in Type, s \in Slots(t)
    PROVE  s \in Slots(t)'
<1>c. globalStore[t][s] \in Entry
  BY DEF TypeInv, TypeOK
<1>1. CASE PollCopy
  <2>1. PICK q \in {seen, sensorStore[polled][copying].quality} :
          globalStore' = [globalStore EXCEPT ![copying][polled] =
                            [quality |-> q, age |-> sensorStore[polled][copying].age]]
    BY <1>1 DEF PollCopy
  <2>2. q # "None"
    BY <1>1, <2>1 DEF PollCopy, SlotInv, TypeInv, PollInv
  <2>3. CASE copying = t /\ polled = s
    BY <2>1, <2>2, <2>3 DEF Slots, TypeInv, TypeOK
  <2>4. CASE copying # t \/ polled # s
    BY <2>1, <2>4 DEF Slots, TypeInv, TypeOK
  <2> QED
    BY <2>3, <2>4
<1>2. CASE GlobalWatchdog
  BY <1>c, <1>2, WatchedType DEF GlobalWatchdog, Slots
<1>3. CASE Tick
  BY <1>c, <1>3, OlderType DEF Tick, Slots
<1>4. ASSUME UNCHANGED globalStore PROVE s \in Slots(t)'
  BY <1>4 DEF Slots
<1> QED
  BY <1>1, <1>2, <1>3, <1>4
     DEF Next, vars, storeVars, ParserUpdateBegin, ParserUpdateEnd, SensorWatchdogTest,
         SensorWatchdogMark, PollExtract, PollElect, PollCrash, PollRead, PollPublish,
         AssignMasterSource

\* No step of a sensor's thread takes a parameter out of its storage.
LEMMA ParametersStay ==
    ASSUME TypeInv, [Next]_vars, NEW s \in Sensor, NEW t \in Type,
           sensorStore[s][t].quality # "None"
    PROVE  sensorStore'[s][t].quality # "None"
<1>t. TypeOK /\ sensorStore[s][t] \in Entry
  BY DEF TypeInv, TypeOK
<1>1. ASSUME NEW r \in Sensor, NEW u \in Type, ParserUpdateBegin(r, u)
      PROVE  sensorStore'[s][t].quality # "None"
  BY <1>t, <1>1, UpdateBeginEffect
<1>2. ASSUME NEW r \in Sensor, ParserUpdateEnd(r)
      PROVE  sensorStore'[s][t].quality # "None"
  BY <1>t, <1>2, UpdateEndEffect
<1>3. ASSUME NEW r \in Sensor, SensorWatchdogMark(r)
      PROVE  sensorStore'[s][t].quality # "None"
  BY <1>t, <1>3, MarkEffect
<1>4. CASE Tick
  BY <1>t, <1>4, OlderType DEF Tick
<1>5. ASSUME UNCHANGED sensorStore
      PROVE  sensorStore'[s][t].quality # "None"
  BY <1>5
<1> QED
  BY <1>1, <1>2, <1>3, <1>4, <1>5
     DEF Next, vars, storeVars, SensorWatchdogTest, PollExtract, PollElect, PollCrash, PollRead,
         PollCopy, PollPublish, GlobalWatchdog, AssignMasterSource

LEMMA SlotStep == TypeInv /\ SlotInv /\ [Next]_vars => SlotInv'
<1> SUFFICES ASSUME TypeInv, SlotInv, [Next]_vars, TrustedUI PROVE SlotInv'
  BY DEF SlotInv
<1>t. TypeOK /\ PollInv
  BY DEF TypeInv
<1>s. \A s \in Sensor, t \in Type : s \in Slots(t) => s \in Slots(t)'
  BY SlotsStay
<1>n. \A t \in Type : t # NoType
  BY ConstantsAssumption
<1>p. \A s \in Sensor, t \in Type :
        sensorStore[s][t].quality # "None" => sensorStore'[s][t].quality # "None"
  BY ParametersStay
<1>m. \A t \in Type :
        /\ master[t] \in Sensor \union {NoMaster}
        /\ master[t] # NoMaster
             => master[t] \in Slots(t) \/ (copying = t /\ master[t] = polled)
  BY <1>t DEF SlotInv, TypeOK
\* Where neither mastership nor the progress of the poll change.
<1>1. ASSUME UNCHANGED <<master, pollVars, offered, up>> PROVE SlotInv'
  BY <1>1, <1>t, <1>s, <1>p, <1>m DEF SlotInv, TypeOK, PollInv, pollVars
<1>2. CASE PollExtract
  <2>1. pending' = Present(polled') /\ polled' \in Sensor
    BY <1>2, <1>t, ConstantsAssumption DEF PollExtract, TypeOK, Sensor
  <2>2. \A t \in pending' : sensorStore[polled'][t].quality # "None"
    BY <2>1 DEF Present
  <2>3. pending' \subseteq Type
    BY <2>1 DEF Present
  <2> QED
    BY <1>2, <1>n, <1>s, <1>m, <2>1, <2>2, <2>3
       DEF SlotInv, PollExtract, storeVars, netVars
<1>3. ASSUME NEW t \in Type, PollElect(t) PROVE SlotInv'
  <2>1. polled \in Sensor /\ t \in pending /\ sensorStore[polled][t].quality # "None"
    BY <1>3, <1>t DEF PollElect, PollInv, SlotInv
  <2>2. \A u \in Type :
          master'[u] # NoMaster
            => master'[u] \in Slots(u)' \/ (copying' = u /\ master'[u] = polled')
    BY <1>3, <1>t, <1>n, <1>s, <1>m, <2>1 DEF PollElect, TypeOK
  <2>3. up' /\ (copying' # NoType => seen' # "None") /\ offered' = offered
    BY <1>3, <2>1 DEF PollElect, netVars, SlotInv
  <2>4. \A u \in pending' : sensorStore'[polled'][u].quality # "None"
    BY <1>3, <1>t, <1>p, <2>1 DEF PollElect, SlotInv, TypeOK
  <2> QED
    BY <1>s, <2>2, <2>3, <2>4 DEF SlotInv
<1>4. ASSUME NEW t \in Type, PollCrash(t) PROVE FALSE
  <2>1. master[t] # NoMaster /\ copying = NoType /\ master[t] \notin Slots(t)
    BY <1>4 DEF PollCrash, LookupThrows, Slots
  <2> QED
    BY <1>m, <2>1, ConstantsAssumption
<1>5. CASE PollCopy
  <2>1. /\ copying \in Type /\ polled \in Sensor /\ copying \in pending
        /\ UNCHANGED <<sensorStore, master, polled, offered, up>>
        /\ pending' \subseteq pending /\ copying' = NoType
    BY <1>5, <1>t DEF PollCopy, TypeOK, PollInv, storeVars, netVars
  <2>2. PICK q \in {seen, sensorStore[polled][copying].quality} :
          globalStore' = [globalStore EXCEPT ![copying][polled] =
                            [quality |-> q, age |-> sensorStore[polled][copying].age]]
    BY <1>5 DEF PollCopy
  <2>3. q # "None"
    BY <1>5, <2>1, <2>2 DEF PollCopy, SlotInv
  <2>4. globalStore'[copying][polled].quality = q
    BY <1>t, <2>1, <2>2 DEF TypeOK
  <2>5. \A t \in Type : master'[t] # NoMaster => globalStore'[t][master'[t]].quality # "None"
    BY <1>s, <1>m, <2>1, <2>3, <2>4 DEF Slots
  <2> QED
    BY <1>s, <2>1, <2>5 DEF SlotInv, Slots
<1>6. CASE PollPublish
  <2>1. \A i \in Extracted : i.sensor \in Slots(i.type)
    BY DEF Extracted, GoodIn, Slots
  <2>2. \A s \in Sensor, t \in Type : <<s, t>> \in offered' => s \in Slots(t)
    BY <1>6, <2>1 DEF PollPublish, SlotInv
  <2>3. /\ UNCHANGED <<globalStore, master, pending, copying, seen, up>>
        /\ pending = {} /\ copying = NoType
    BY <1>6 DEF PollPublish
  <2> QED
    BY <1>m, <1>t, <2>2, <2>3, ConstantsAssumption DEF SlotInv, Slots, TypeOK
<1>7. CASE GlobalWatchdog
  <2>1. \A t \in Type : master'[t] \in {master[t], NoMaster}
    BY <1>7 DEF GlobalWatchdog
  <2>2. UNCHANGED <<pollVars, netVars, up, sensorStore>>
    BY <1>7 DEF GlobalWatchdog, storeVars
  <2> QED
    BY <1>s, <1>m, <2>1, <2>2, <1>t DEF SlotInv, pollVars, netVars, TypeOK
<1>8. ASSUME NEW s \in Sensor, NEW t \in Type, AssignMasterSource(s, t) PROVE SlotInv'
  <2>1. s \in Slots(t)
    BY <1>8 DEF AssignMasterSource, SlotInv
  <2>2. \A u \in Type : master'[u] # master[u] => u = t /\ master'[u] = s
    BY <1>8, <1>t DEF AssignMasterSource, TypeOK
  <2>3. UNCHANGED <<pollVars, netVars, up, sensorStore>>
    BY <1>8 DEF AssignMasterSource, storeVars
  <2> QED
    BY <1>s, <1>m, <2>1, <2>2, <2>3, <1>t DEF SlotInv, pollVars, netVars, TypeOK
<1>9. CASE PollRead
  <2>1. /\ copying \in pending /\ UNCHANGED <<globalStore, sensorStore, master>>
        /\ UNCHANGED <<polled, pending, copying, offered, up>>
        /\ seen' = sensorStore[polled][copying].quality
    BY <1>9, <1>t DEF PollRead, PollInv, storeVars, netVars
  <2>2. seen' # "None"
    BY <2>1 DEF SlotInv
  <2> QED
    BY <1>s, <2>1, <2>2 DEF SlotInv, Slots
<1> QED
  BY <1>1, <1>2, <1>3, <1>4, <1>5, <1>6, <1>7, <1>8, <1>9
     DEF Next, vars, pollVars, netVars, ParserUpdateBegin, ParserUpdateEnd,
         SensorWatchdogTest, SensorWatchdogMark, Tick

\* As long as the UI names only sources that were broadcast, the daemon never dies of a
\* master lookup, whatever the sensors, watchdogs and polls do.
THEOREM MasterLookupSafe == Spec => []MasterHasSlot
<1>1. TypeInv /\ SlotInv => MasterHasSlot
  BY ConstantsAssumption DEF TypeInv, TypeOK, SlotInv, MasterHasSlot, Slots
<1> QED
  BY <1>1, TypeInvariant, SlotInit, SlotStep, PTL DEF Spec

-----------------------------------------------------------------------------
(* The storage implements the abstract election.                           *)

\* The mapping of the state: who is good, and who reports.
goodMap  == [t \in Type |-> GoodIn(t)]
reporter == IF copying = NoType THEN NoMaster ELSE polled

LEMMA ElectionInit == Init => Election!Init
<1> SUFFICES ASSUME Init PROVE Election!Init
  OBVIOUS
<1>1. \A t \in Type : GoodIn(t) = {}
  BY DEF Init, GoodIn, Absent
<1> QED
  BY <1>1 DEF Init, Election!Init

LEMMA ElectionStep == TypeInv /\ [Next]_vars => [Election!Next]_(Election!electionVars)
<1> SUFFICES ASSUME TypeInv, [Next]_vars
             PROVE  Election!Next \/ UNCHANGED Election!electionVars
  OBVIOUS
<1>t. TypeOK /\ PollInv
  BY DEF TypeInv
<1>n. \A t \in Type : t # NoType
  BY ConstantsAssumption
\* A step that leaves the qualities in the global storage, the masters, the type being
\* copied and the broadcast alone is a stutter.
<1>1. ASSUME goodMap' = goodMap,
             UNCHANGED <<master, copying, published>>, copying # NoType => polled' = polled
      PROVE  UNCHANGED Election!electionVars
  BY <1>1 DEF Election!electionVars, goodMap
<1>2. ASSUME UNCHANGED globalStore PROVE goodMap' = goodMap
  BY <1>2 DEF goodMap, GoodIn
<1>3. ASSUME NEW s \in Sensor,
             \/ \E t \in Type : ParserUpdateBegin(s, t) \/ SensorWatchdogTest(s, t)
             \/ ParserUpdateEnd(s)
             \/ SensorWatchdogMark(s)
      PROVE  UNCHANGED Election!electionVars
  BY <1>1, <1>2, <1>3 DEF ParserUpdateBegin, ParserUpdateEnd, SensorWatchdogTest,
                          SensorWatchdogMark, pollVars, netVars
<1>4. CASE PollExtract
  BY <1>1, <1>2, <1>4 DEF PollExtract, netVars
<1>5. ASSUME NEW t \in Type, PollElect(t) PROVE Election!Next
  <2>1. polled \in Sensor
    BY <1>5, <1>t DEF PollElect, PollInv
  <2>2. \/ master' = master
        \/ /\ master[t] = NoMaster \/ master[t] \notin GoodIn(t)
           /\ master' = [master EXCEPT ![t] = polled]
    BY <1>5 DEF PollElect, TakesMastership, GoodIn
  <2>3. goodMap' = goodMap
    BY <1>2, <1>5 DEF PollElect
  <2>4. Election!Elect(polled, t)
    BY <1>5, <1>n, <2>2, <2>3 DEF PollElect, Election!Elect, goodMap, netVars
  <2> QED
    BY <2>1, <2>4 DEF Election!Next
<1>6. ASSUME NEW t \in Type, PollCrash(t) PROVE UNCHANGED Election!electionVars
  BY <1>1, <1>2, <1>6 DEF PollCrash, pollVars, netVars
<1>7. CASE PollCopy
  <2>1. /\ copying \in Type /\ polled \in Sensor
        /\ UNCHANGED <<master, polled, published>>
        /\ copying # NoType /\ copying' = NoType
    BY <1>7, <1>t DEF PollCopy, TypeOK, PollInv, netVars
  <2>2. PICK q \in {seen, sensorStore[polled][copying].quality} :
          globalStore' = [globalStore EXCEPT ![copying][polled] =
                            [quality |-> q, age |-> sensorStore[polled][copying].age]]
    BY <1>7 DEF PollCopy
  <2>3. /\ globalStore'[copying][polled].quality = q
        /\ \A s \in Sensor, u \in Type :
             s # polled \/ u # copying => globalStore'[u][s] = globalStore[u][s]
    BY <1>t, <2>1, <2>2 DEF TypeOK
  <2>4. CASE q = "Good"
    <3>1. \A t \in Type :
            GoodIn(t)' = IF t = copying THEN GoodIn(t) \union {polled} ELSE GoodIn(t)
      BY <2>1, <2>3, <2>4 DEF GoodIn
    <3>2. goodMap' = [goodMap EXCEPT ![copying] = @ \union {polled}]
      BY <2>1, <3>1 DEF goodMap
    <3>3. Election!Report
      BY <2>1, <3>2 DEF Election!Report, goodMap
    <3> QED
      BY <3>3 DEF Election!Next
  <2>5. CASE q # "Good"
    <3>1. \A t \in Type :
            GoodIn(t)' = IF t = copying THEN GoodIn(t) \ {polled} ELSE GoodIn(t)
      BY <2>1, <2>3, <2>5 DEF GoodIn
    <3>2. goodMap' = [goodMap EXCEPT ![copying] = @ \ {polled}]
      BY <2>1, <3>1 DEF goodMap
    <3>3. Election!Report
      BY <2>1, <3>2 DEF Election!Report, goodMap
    <3> QED
      BY <3>3 DEF Election!Next
  <2> QED
    BY <2>4, <2>5
<1>8. CASE PollPublish
  <2>1. /\ copying = NoType /\ published' = Extracted
        /\ UNCHANGED <<master, copying>> /\ goodMap' = goodMap
    BY <1>2, <1>8 DEF PollPublish
  <2>2. Extracted = {i \in [type : Type, sensor : Sensor, master : BOOLEAN] :
                       /\ i.sensor \in goodMap[i.type]
                       /\ i.master <=> (i.type \in AlwaysSelected
                                          \/ master[i.type] = i.sensor)}
    BY DEF Extracted, Item, goodMap
  <2>3. Election!Publish
    BY <2>1, <2>2 DEF Election!Publish, goodMap
  <2> QED
    BY <2>3 DEF Election!Next
<1>9. CASE GlobalWatchdog
  <2> DEFINE old == [t \in Type |-> GoodIn(t) \ GoodIn(t)']
  <2>1. /\ copying = NoType /\ UNCHANGED <<copying, published>>
        /\ \A t \in Type, s \in Sensor : globalStore'[t][s] = Watched(globalStore[t][s])
        /\ master' = [t \in Type |->
              IF master[t] # NoMaster /\ globalStore'[t][master[t]].quality = "Poor"
                THEN NoMaster ELSE master[t]]
    BY <1>9 DEF GlobalWatchdog, pollVars, netVars
  <2>2. \A t \in Type : GoodIn(t)' \subseteq GoodIn(t)
    BY <1>t, <2>1, WatchedType DEF GoodIn, TypeOK
  <2>3. old \in [Type -> SUBSET Sensor] /\ goodMap' = [t \in Type |-> goodMap[t] \ old[t]]
    BY <2>2 DEF goodMap, GoodIn
  <2>4. master' \in [Type -> Sensor \union {NoMaster}]
    BY <1>t, <2>1 DEF TypeOK
  <2>5. ASSUME NEW t \in Type
        PROVE  /\ master'[t] \in {master[t], NoMaster}
               /\ master[t] \in old[t] => master'[t] = NoMaster
               /\ master[t] \in goodMap'[t] => master'[t] = master[t]
    <3>1. master'[t] \in {master[t], NoMaster}
      BY <2>1
    <3>2. ASSUME master[t] \in old[t] PROVE master'[t] = NoMaster
      <4>1. /\ master[t] \in Sensor /\ globalStore[t][master[t]].quality = "Good"
            /\ globalStore'[t][master[t]].quality # "Good"
        BY <3>2 DEF GoodIn
      <4>2. globalStore'[t][master[t]].quality = "Poor"
        BY <1>t, <2>1, <4>1, WatchedType DEF TypeOK
      <4> QED
        BY <2>1, <4>1, <4>2 DEF Sensor, NoMaster
    <3>3. ASSUME master[t] \in goodMap'[t] PROVE master'[t] = master[t]
      BY <2>1, <3>3 DEF goodMap, GoodIn
    <3> QED
      BY <3>1, <3>2, <3>3
  <2>6. Election!Expire
    BY <2>1, <2>3, <2>4, <2>5 DEF Election!Expire, goodMap
  <2> QED
    BY <2>6 DEF Election!Next
<1>10. ASSUME NEW s \in Sensor, NEW t \in Type, AssignMasterSource(s, t)
       PROVE  Election!Next
  <2>1. goodMap' = goodMap
    BY <1>2, <1>10 DEF AssignMasterSource
  <2>2. Election!Select(s, t)
    BY <1>10, <2>1 DEF AssignMasterSource, Election!Select, goodMap, pollVars, netVars
  <2> QED
    BY <2>2 DEF Election!Next
<1>11. CASE Tick
  <2>1. \A t \in Type, s \in Sensor :
          globalStore'[t][s].quality = globalStore[t][s].quality
    BY <1>t, <1>11, OlderType DEF Tick, TypeOK
  <2>2. goodMap' = goodMap
    BY <2>1 DEF goodMap, GoodIn
  <2> QED
    BY <1>1, <1>11, <2>2 DEF Tick, pollVars, netVars
<1>12. CASE PollRead
  BY <1>1, <1>2, <1>12 DEF PollRead, netVars
<1>13. CASE UNCHANGED vars
  BY <1>1, <1>2, <1>13 DEF vars, pollVars, netVars
<1> QED
  BY <1>3, <1>4, <1>5, <1>6, <1>7, <1>8, <1>9, <1>10, <1>11, <1>12, <1>13 DEF Next

\* For any sensors, types and timeouts the storage with its locks, polls and races does
\* nothing the abstract election does not allow.
THEOREM Implementation == Spec => ImplementsElection
<1>1. Init => Election!Init
  BY ElectionInit
<1>2. TypeInv /\ [Next]_vars => [Election!Next]_(Election!electionVars)
  BY ElectionStep
<1> QED
  BY <1>1, <1>2, TypeInvariant, PTL DEF Spec, ImplementsElection, Election!Spec

-----------------------------------------------------------------------------
(* The storage in time *)

\* A Good parameter that nobody is writing has expired after its sensor's last pass.
StoreInv ==
    \A s \in Sensor, t \in Type :
        sensorStore[s][t].quality = "Good" /\ writing[s] # t
          => sensorStore[s][t].age <= SensorTimeout + sinceWatch[s]

\* What is copied or about to be copied exists in the sensor.
PresentInv ==
    /\ \A s \in Sensor, t \in Type :
         globalStore[t][s].quality # "None" => sensorStore[s][t].quality # "None"
    /\ \A t \in pending : sensorStore[polled][t].quality # "None"

PaceBound == SensorTimeout + WatchPeriod + sincePoll

\* The quality an election has read belongs to a young parameter, or to one being written.
SeenInv ==
    copying # NoType /\ seen = "Good" /\ writing[polled] # copying
      => sensorStore[polled][copying].age <= PaceBound

\* The Good copies of the current poll are young, but for the sensors a race has hit.
CopiedGood(s, t) ==
    /\ s \notin raced
    /\ globalStore[t][s].quality = "Good"
    /\ s < polled \/ (s = polled /\ t \notin pending)

CopiedInv ==
    \A s \in Sensor, t \in Type : CopiedGood(s, t) => globalStore[t][s].age <= PaceBound

PaceInv == TimedTypeOK /\ PollInv /\ StoreInv /\ PresentInv /\ SeenInv /\ CopiedInv

-----------------------------------------------------------------------------
(* The timed storage is a DataStorage. *)

LEMMA TimedIsStep == [TimedNext]_timedVars => [Next]_vars
<1> SUFFICES ASSUME [TimedNext]_timedVars PROVE [Next]_vars
  OBVIOUS
<1>1. CASE UNCHANGED timedVars
  BY <1>1 DEF timedVars
<1>2. ASSUME NEW s \in Sensor, NEW t \in Type, TimedAssignMaster(s, t) PROVE Next
  BY <1>2 DEF TimedAssignMaster, Next
<1>3. ASSUME NEW s \in Sensor, SensorWatchdogPassEnds(s) \/ TimedMark(s) PROVE [Next]_vars
  BY <1>3 DEF SensorWatchdogPassEnds, TimedMark, Next
<1>4. CASE TimedTick \/ TimedCopy \/ TimedPublish
  BY <1>4 DEF TimedTick, TimedCopy, TimedPublish, Next
<1> QED
  BY <1>1, <1>2, <1>3, <1>4 DEF TimedNext, Next

\* Every behaviour with the pace of the threads is one of the storage without it.
THEOREM TimedImplements == TimedSpec => Spec
<1>1. TimedInit => Init
  BY DEF TimedInit
<1> QED
  BY <1>1, TimedIsStep, PTL DEF TimedSpec, Spec

LEMMA Paces ==
    /\ SensorTimeout \in Nat /\ PollPeriod \in Nat /\ WatchPeriod \in Nat
    /\ MaxAge \in Nat /\ NumSensors \in Nat \ {0} /\ NoType \notin Type
  BY ConstantsAssumption, PaceAssumption

\* How the seconds of a thread count.
LEMMA TimersStep ==
    ASSUME TimedTypeOK, PollInv, [TimedNext]_timedVars
    PROVE  /\ sincePoll' \in 0..PollPeriod
           /\ sinceWatch' \in [Sensor -> 0..WatchPeriod]
           /\ raced' \in SUBSET Sensor /\ raced \subseteq raced'
           /\ masterless' \in [Type -> 0..2]
<1>1. /\ sincePoll \in 0..PollPeriod /\ sinceWatch \in [Sensor -> 0..WatchPeriod]
      /\ raced \in SUBSET Sensor /\ masterless \in [Type -> 0..2]
      /\ polled \in 0..NumSensors /\ copying \in Type \union {NoType}
  BY DEF TimedTypeOK, TypeOK
<1>2. PollPeriod \in Nat /\ WatchPeriod \in Nat
  BY Paces
<1>3. ASSUME NEW s \in Sensor, NEW t \in Type, TimedAssignMaster(s, t)
      PROVE  masterless' \in [Type -> 0..2] /\ UNCHANGED <<sincePoll, sinceWatch, raced>>
  BY <1>1, <1>3 DEF TimedAssignMaster, paceVars
<1>4. ASSUME NEW s \in Sensor, SensorWatchdogPassEnds(s)
      PROVE  sinceWatch' \in [Sensor -> 0..WatchPeriod]
               /\ UNCHANGED <<sincePoll, raced, masterless>>
  BY <1>1, <1>2, <1>4 DEF SensorWatchdogPassEnds
<1>5. ASSUME NEW s \in Sensor, TimedMark(s)
      PROVE  /\ raced' \in SUBSET Sensor /\ raced \subseteq raced'
             /\ UNCHANGED <<sincePoll, sinceWatch, masterless>>
  BY <1>1, <1>5 DEF TimedMark, paceVars
<1>6. CASE TimedTick
  BY <1>1, <1>2, <1>6 DEF TimedTick
<1>7. CASE TimedCopy
  <2>1. raced' = raced \/ (raced' = raced \union {polled} /\ writing[polled] = copying)
    BY <1>7 DEF TimedCopy
  <2>2. polled \in Sensor
    BY <1>7 DEF TimedCopy, PollCopy, PollInv
  <2> QED
    BY <1>1, <1>7, <2>1, <2>2 DEF TimedCopy, paceVars
<1>8. CASE TimedPublish
  <2>1. \A t \in Type : masterless[t] \in 0..2
    BY <1>1
  <2>2. masterless' \in [Type -> 0..2]
    BY <1>8, <2>1 DEF TimedPublish
  <2> QED
    BY <1>1, <1>2, <1>8, <2>2 DEF TimedPublish
<1>9. CASE UNCHANGED <<sincePoll, sinceWatch, raced, masterless>>
  BY <1>1, <1>9
<1> QED
  BY <1>1, <1>3, <1>4, <1>5, <1>6, <1>7, <1>8, <1>9 DEF TimedNext, timedVars, paceVars

\* What a step does to one parameter of a sensor, and to its copy.
LEMMA TimedTypes == TimedTypeOK /\ PollInv /\ [TimedNext]_timedVars => TimedTypeOK' /\ PollInv'
<1> SUFFICES ASSUME TimedTypeOK, PollInv, [TimedNext]_timedVars PROVE TimedTypeOK' /\ PollInv'
  OBVIOUS
<1>1. [Next]_vars
  BY TimedIsStep
<1>2. TypeInv'
  BY <1>1, TypeStep DEF TypeInv, TimedTypeOK
<1>3. TimedTypeOK'
  BY <1>2, TimersStep DEF TypeInv, TimedTypeOK
<1> QED
  BY <1>2, <1>3 DEF TypeInv

-----------------------------------------------------------------------------
(* The sensors' storages *)

LEMMA Ages ==
    ASSUME TimedTypeOK, NEW s \in Sensor, NEW t \in Type
    PROVE  /\ sensorStore[s][t] \in Entry /\ sensorStore[s][t].age \in Nat
           /\ globalStore[t][s] \in Entry
           /\ sinceWatch[s] \in 0..WatchPeriod /\ sinceWatch[s] \in Nat
           /\ sincePoll \in 0..PollPeriod /\ sincePoll \in Nat
           /\ writing \in [Sensor -> Type \union {NoType}]
           /\ polled \in 0..NumSensors
           /\ SensorTimeout \in Nat /\ WatchPeriod \in Nat /\ PollPeriod \in Nat
<1>1. TypeOK /\ sinceWatch \in [Sensor -> 0..WatchPeriod] /\ sincePoll \in 0..PollPeriod
  BY DEF TimedTypeOK
<1>2. sensorStore[s][t] \in Entry /\ globalStore[t][s] \in Entry
        /\ polled \in 0..NumSensors /\ writing \in [Sensor -> Type \union {NoType}]
  BY <1>1 DEF TypeOK
<1>3. \A e \in Entry : e.age \in 0..MaxAge
  BY DEF Entry
<1>4. sensorStore[s][t].age \in Nat
  BY <1>2, <1>3, Paces
<1> QED
  BY <1>1, <1>2, <1>4, Paces

LEMMA StoreStep ==
    ASSUME TimedTypeOK, StoreInv, [TimedNext]_timedVars
    PROVE  StoreInv'
<1> SUFFICES ASSUME NEW s \in Sensor, NEW t \in Type,
                    sensorStore'[s][t].quality = "Good", writing'[s] # t
             PROVE  sensorStore'[s][t].age <= SensorTimeout + sinceWatch'[s]
  BY DEF StoreInv
<1> DEFINE Goal == sensorStore'[s][t].age <= SensorTimeout + sinceWatch'[s]
<1>t. TypeOK
  BY DEF TimedTypeOK
<1>a. /\ sensorStore[s][t] \in Entry /\ sensorStore[s][t].age \in Nat
      /\ sinceWatch[s] \in Nat /\ SensorTimeout \in Nat
      /\ sinceWatch \in [Sensor -> 0..WatchPeriod]
      /\ writing \in [Sensor -> Type \union {NoType}]
  BY Ages DEF TimedTypeOK
<1>i. sensorStore[s][t].quality = "Good" /\ writing[s] # t
        => sensorStore[s][t].age <= SensorTimeout + sinceWatch[s]
  BY DEF StoreInv
<1>1. ASSUME NEW r \in Sensor, NEW u \in Type, ParserUpdateBegin(r, u), UNCHANGED sinceWatch
      PROVE  Goal
  <2>1. sensorStore'[s][t] = sensorStore[s][t] /\ writing[s] # t
    <3>1. CASE r = s /\ u = t
      BY <1>1, <1>a, <3>1 DEF ParserUpdateBegin
    <3>2. CASE r # s
      BY <1>1, <1>a, <1>t, <3>2 DEF ParserUpdateBegin, TypeOK
    <3>3. CASE r = s /\ u # t
      <4>1. sensorStore'[s][t] = sensorStore[s][t]
        BY <1>1, <1>t, <3>3 DEF ParserUpdateBegin, TypeOK
      <4>2. writing[s] # t
        BY <1>1, <3>3, Paces DEF ParserUpdateBegin
      <4> QED
        BY <4>1, <4>2
    <3> QED
      BY <3>1, <3>2, <3>3
  <2> QED
    BY <1>1, <1>i, <2>1
<1>2. ASSUME NEW r \in Sensor, ParserUpdateEnd(r), UNCHANGED sinceWatch PROVE Goal
  <2>1. CASE r = s /\ writing[s] = t
    <3>1. sensorStore'[s][t].age = 0
      BY <1>2, <1>a, <1>t, <2>1 DEF ParserUpdateEnd, TypeOK, Entry
    <3> QED
      BY <1>2, <1>a, <3>1
  <2>2. CASE ~(r = s /\ writing[s] = t)
    <3>1. sensorStore'[s][t] = sensorStore[s][t]
      BY <1>2, <1>t, <2>2 DEF ParserUpdateEnd, TypeOK
    <3>2. writing[s] # t
      BY <1>2, <1>a, <2>2 DEF ParserUpdateEnd
    <3> QED
      BY <1>2, <1>i, <3>1, <3>2
  <2> QED
    BY <2>1, <2>2
<1>3. ASSUME NEW r \in Sensor, SensorWatchdogMark(r), UNCHANGED sinceWatch PROVE Goal
  <2>1. writing' = writing
    BY <1>3 DEF SensorWatchdogMark
  <2>2. sensorStore'[s][t].age = sensorStore[s][t].age
          /\ sensorStore'[s][t].quality \in {sensorStore[s][t].quality, "Poor"}
    BY <1>3, <1>t, MarkEffect
  <2> QED
    BY <1>3, <1>i, <2>1, <2>2
<1>4. ASSUME NEW r \in Sensor, SensorWatchdogPassEnds(r) PROVE Goal
  <2>1. UNCHANGED <<sensorStore, writing>> /\ sinceWatch' = [sinceWatch EXCEPT ![r] = 0]
          /\ Overdue(r) = {}
    BY <1>4 DEF SensorWatchdogPassEnds, vars, storeVars
  <2>2. CASE r = s
    <3>1. ~(sensorStore[s][t].age > SensorTimeout)
      BY <2>1, <2>2 DEF Overdue
    <3> QED
      BY <1>a, <2>1, <2>2, <3>1
  <2>3. CASE r # s
    BY <1>a, <1>i, <2>1, <2>3
  <2> QED
    BY <2>2, <2>3
<1>5. CASE TimedTick
  <2>1. /\ sensorStore'[s][t] = Older(sensorStore[s][t]) /\ writing' = writing
        /\ sinceWatch'[s] = sinceWatch[s] + 1
    BY <1>5 DEF TimedTick, Tick
  <2>2. /\ Older(sensorStore[s][t]).quality = sensorStore[s][t].quality
        /\ Older(sensorStore[s][t]).age <= sensorStore[s][t].age + 1
    BY <1>a, OlderType
  <2>3. Older(sensorStore[s][t]).age \in Nat
    BY <1>a, OlderType
  <2> QED
    BY <1>a, <1>i, <2>1, <2>2, <2>3
<1>6. CASE UNCHANGED <<sensorStore, writing, sinceWatch>>
  BY <1>i, <1>6
<1>7. CASE TimedCopy \/ TimedPublish
  BY <1>6, <1>7 DEF TimedCopy, TimedPublish, PollCopy, PollPublish, storeVars, paceVars
<1>8. ASSUME NEW r \in Sensor, NEW u \in Type, TimedAssignMaster(r, u) PROVE Goal
  BY <1>6, <1>8 DEF TimedAssignMaster, AssignMasterSource, storeVars, paceVars
<1>9. ASSUME NEW r \in Sensor, TimedMark(r) PROVE Goal
  BY <1>3, <1>9 DEF TimedMark, paceVars
<1>10. CASE UNCHANGED timedVars
  BY <1>6, <1>10 DEF timedVars, vars, storeVars
<1>11. ASSUME UNCHANGED paceVars,
              \/ PollExtract \/ PollRead \/ GlobalWatchdog
              \/ \E u \in Type : PollElect(u) \/ PollCrash(u)
              \/ \E r \in Sensor, u \in Type : SensorWatchdogTest(r, u)
       PROVE  Goal
  BY <1>6, <1>11 DEF paceVars, PollExtract, GlobalWatchdog, PollElect, PollCrash, PollRead,
                     SensorWatchdogTest, storeVars
<1>12. UNCHANGED paceVars => UNCHANGED sinceWatch
  BY DEF paceVars
<1> QED
  BY <1>1, <1>2, <1>4, <1>5, <1>7, <1>8, <1>9, <1>10, <1>11, <1>12 DEF TimedNext

LEMMA PresentStep ==
    ASSUME TypeInv, PresentInv, [Next]_vars
    PROVE  PresentInv'
<1>t. TypeOK /\ PollInv
  BY DEF TypeInv
<1>p. \A s \in Sensor, t \in Type :
        sensorStore[s][t].quality # "None" => sensorStore'[s][t].quality # "None"
  BY ParametersStay
<1>k. pending \in SUBSET Type /\ (pending # {} => polled \in Sensor)
  BY <1>t DEF TypeOK, PollInv
<1>1. \A t \in pending' : sensorStore'[polled'][t].quality # "None"
  <2>1. CASE PollExtract
    <3>1. polled' \in Sensor /\ sensorStore' = sensorStore /\ pending' = Present(polled')
      <4>1. polled + 1 \in Sensor
        BY <1>t, <2>1, Paces DEF PollExtract, Sensor, TypeOK
      <4> QED
        BY <2>1, <4>1 DEF PollExtract, storeVars
    <3> QED
      BY <3>1 DEF Present
  <2>2. CASE PollPublish
    BY <2>2 DEF PollPublish
  <2>3. CASE pending' \subseteq pending /\ polled' = polled
    BY <1>k, <1>p, <2>3 DEF PresentInv
  <2> QED
    BY <2>1, <2>2, <2>3
       DEF Next, vars, pollVars, ParserUpdateBegin, ParserUpdateEnd, SensorWatchdogTest,
           SensorWatchdogMark, PollElect, PollCrash, PollRead, PollCopy, GlobalWatchdog,
           AssignMasterSource, Tick
<1>2. ASSUME NEW s \in Sensor, NEW t \in Type, globalStore'[t][s].quality # "None"
      PROVE  sensorStore'[s][t].quality # "None"
  <2>0. globalStore[t][s] \in Entry
    BY <1>t DEF TypeOK
  <2>1. CASE globalStore[t][s].quality # "None"
    BY <1>p, <2>1 DEF PresentInv
  <2>2. CASE PollCopy /\ copying = t /\ polled = s
    <3>1. t \in pending
      BY <1>t, <2>2 DEF PollInv, PollCopy
    <3> QED
      BY <1>p, <2>2, <3>1 DEF PresentInv
  <2>3. CASE PollCopy /\ ~(copying = t /\ polled = s)
    <3>1. globalStore'[t][s] = globalStore[t][s]
      BY <1>t, <2>3 DEF PollCopy, TypeOK
    <3> QED
      BY <1>2, <2>1, <3>1
  <2>4. CASE GlobalWatchdog
    BY <1>2, <2>0, <2>1, <2>4, WatchedType DEF GlobalWatchdog
  <2>5. CASE Tick
    BY <1>2, <2>0, <2>1, <2>5, OlderType DEF Tick
  <2>6. CASE UNCHANGED globalStore
    BY <1>2, <2>1, <2>6
  <2> QED
    BY <2>2, <2>3, <2>4, <2>5, <2>6
       DEF Next, vars, storeVars, ParserUpdateBegin, ParserUpdateEnd, SensorWatchdogTest,
           SensorWatchdogMark, PollExtract, PollElect, PollCrash, PollRead, PollPublish,
           AssignMasterSource
<1> QED
  BY <1>1, <1>2 DEF PresentInv

-----------------------------------------------------------------------------
(* The poll *)

\* A parameter that is young enough stays so until the broadcast.
LEMMA YoungStays ==
    ASSUME TimedTypeOK, [TimedNext]_timedVars, ~TimedPublish,
           NEW s \in Sensor, NEW t \in Type, sensorStore[s][t].age <= PaceBound
    PROVE  sensorStore'[s][t].age <= PaceBound'
<1>t. TypeOK
  BY DEF TimedTypeOK
<1>a. /\ sensorStore[s][t] \in Entry /\ sensorStore[s][t].age \in Nat
      /\ sincePoll \in Nat /\ SensorTimeout \in Nat /\ WatchPeriod \in Nat
  BY Ages
<1>1. CASE sincePoll' = sincePoll /\ sensorStore'[s][t].age = sensorStore[s][t].age
  BY <1>1 DEF PaceBound
<1>2. CASE sincePoll' = sincePoll /\ sensorStore'[s][t].age = 0
  BY <1>a, <1>2 DEF PaceBound
<1>3. CASE TimedTick
  <2>1. sensorStore'[s][t] = Older(sensorStore[s][t]) /\ sincePoll' = sincePoll + 1
    BY <1>3 DEF TimedTick, Tick
  <2>2. /\ Older(sensorStore[s][t]).age \in Nat
        /\ Older(sensorStore[s][t]).age <= sensorStore[s][t].age + 1
    BY <1>a, OlderType
  <2>3. sensorStore[s][t].age <= SensorTimeout + WatchPeriod + sincePoll
    BY DEF PaceBound
  <2>4. Older(sensorStore[s][t]).age <= SensorTimeout + WatchPeriod + (sincePoll + 1)
    BY <1>a, <2>2, <2>3
  <2> QED
    BY <2>1, <2>4 DEF PaceBound
<1>4. ASSUME NEW r \in Sensor, NEW u \in Type, ParserUpdateBegin(r, u)
      PROVE  sensorStore'[s][t].age = sensorStore[s][t].age
  BY <1>t, <1>4, UpdateBeginEffect
<1>5. ASSUME NEW r \in Sensor, ParserUpdateEnd(r)
      PROVE  sensorStore'[s][t].age \in {sensorStore[s][t].age, 0}
  BY <1>t, <1>5, UpdateEndEffect
<1>6. ASSUME NEW r \in Sensor, SensorWatchdogMark(r)
      PROVE  sensorStore'[s][t].age = sensorStore[s][t].age
  BY <1>t, <1>6, MarkEffect
<1>7. ASSUME NEW r \in Sensor, SensorWatchdogPassEnds(r) \/ TimedMark(r)
      PROVE  sincePoll' = sincePoll /\ sensorStore'[s][t].age = sensorStore[s][t].age
  BY <1>6, <1>7 DEF SensorWatchdogPassEnds, TimedMark, paceVars, vars, storeVars
<1>8. CASE UNCHANGED <<sensorStore, sincePoll>>
  BY <1>1, <1>8
<1>9. CASE TimedCopy
  BY <1>8, <1>9 DEF TimedCopy, PollCopy, storeVars, paceVars
<1>10. ASSUME NEW r \in Sensor, NEW u \in Type, TimedAssignMaster(r, u)
       PROVE  UNCHANGED <<sensorStore, sincePoll>>
  BY <1>10 DEF TimedAssignMaster, AssignMasterSource, storeVars, paceVars
<1>11. ASSUME UNCHANGED paceVars,
              \/ PollExtract \/ PollRead \/ GlobalWatchdog
              \/ \E u \in Type : PollElect(u) \/ PollCrash(u)
              \/ \E r \in Sensor, u \in Type : SensorWatchdogTest(r, u)
       PROVE  UNCHANGED <<sensorStore, sincePoll>>
  BY <1>11 DEF paceVars, PollExtract, GlobalWatchdog, PollElect, PollCrash, PollRead,
               SensorWatchdogTest, storeVars
<1>12. UNCHANGED timedVars => UNCHANGED <<sensorStore, sincePoll>>
  BY DEF timedVars, vars, storeVars
<1>13. UNCHANGED paceVars => sincePoll' = sincePoll
  BY DEF paceVars
<1> QED
  BY <1>1, <1>2, <1>3, <1>4, <1>5, <1>7, <1>8, <1>9, <1>10, <1>11, <1>12, <1>13
     DEF TimedNext

\* What a sensor holds as Good and is not writing is young enough for a poll.
LEMMA GoodIsYoung ==
    ASSUME TimedTypeOK, StoreInv, NEW s \in Sensor, NEW t \in Type,
           sensorStore[s][t].quality = "Good", writing[s] # t
    PROVE  sensorStore[s][t].age <= PaceBound
<1>1. /\ sensorStore[s][t].age \in Nat /\ sinceWatch[s] \in 0..WatchPeriod
      /\ sincePoll \in Nat /\ SensorTimeout \in Nat /\ WatchPeriod \in Nat
  BY Ages
<1>2. sensorStore[s][t].age <= SensorTimeout + sinceWatch[s]
  BY DEF StoreInv
<1> QED
  BY <1>1, <1>2 DEF PaceBound

\* The end of an assignment makes the parameter young.
LEMMA EndIsYoung ==
    ASSUME TimedTypeOK, NEW s \in Sensor, ParserUpdateEnd(s), UNCHANGED sincePoll
    PROVE  sensorStore'[s][writing[s]].age <= PaceBound'
<1>1. writing[s] \in Type /\ TypeOK
  BY DEF ParserUpdateEnd, TimedTypeOK, TypeOK
<1>2. sensorStore[s][writing[s]] \in Entry /\ sincePoll \in Nat /\ SensorTimeout \in Nat
        /\ WatchPeriod \in Nat
  BY <1>1, Ages
<1>3. sensorStore'[s][writing[s]].age = 0
  BY <1>1, <1>2 DEF ParserUpdateEnd, TypeOK, Entry
<1> QED
  BY <1>2, <1>3 DEF PaceBound

LEMMA SeenStep ==
    ASSUME TimedTypeOK, PollInv, StoreInv, SeenInv, [TimedNext]_timedVars
    PROVE  SeenInv'
<1> SUFFICES ASSUME copying' # NoType, seen' = "Good", writing'[polled'] # copying'
             PROVE  sensorStore'[polled'][copying'].age <= PaceBound'
  BY DEF SeenInv
<1>t. TypeOK /\ PollInv' /\ TypeOK'
  BY TimedTypes DEF TimedTypeOK
<1>k. polled' \in Sensor /\ copying' \in Type
  BY <1>t DEF PollInv, TypeOK
<1>w. writing \in [Sensor -> Type \union {NoType}]
  BY <1>t DEF TypeOK
<1>1. CASE UNCHANGED <<polled, copying, seen, writing>> /\ ~TimedPublish
  <2>1. sensorStore[polled][copying].age <= PaceBound
    BY <1>1 DEF SeenInv
  <2> QED
    BY <1>1, <1>k, <2>1, YoungStays
<1>2. ASSUME NEW u \in Type, PollElect(u), UNCHANGED paceVars
      PROVE  sensorStore'[polled'][copying'].age <= PaceBound'
  <2>1. /\ polled' = polled /\ copying' = u /\ seen' = sensorStore[polled][u].quality
        /\ UNCHANGED <<sensorStore, writing, sincePoll>>
    BY <1>2 DEF PollElect, storeVars, paceVars
  <2>2. sensorStore[polled][u].age <= PaceBound
    BY <1>k, <2>1, GoodIsYoung
  <2> QED
    BY <2>1, <2>2 DEF PaceBound
<1>3. ASSUME NEW r \in Sensor, NEW u \in Type, ParserUpdateBegin(r, u), UNCHANGED paceVars
      PROVE  sensorStore'[polled'][copying'].age <= PaceBound'
  <2>1. UNCHANGED <<polled, copying, seen>> /\ ~TimedPublish
    BY <1>3, <1>k DEF ParserUpdateBegin, pollVars, TimedPublish, PollPublish
  <2>2. writing[polled] # copying
    BY <1>3, <1>k, <1>w, <2>1, Paces DEF ParserUpdateBegin
  <2>3. sensorStore[polled][copying].age <= PaceBound
    BY <2>1, <2>2 DEF SeenInv
  <2> QED
    BY <1>k, <2>1, <2>3, YoungStays
<1>4. ASSUME NEW r \in Sensor, ParserUpdateEnd(r), UNCHANGED paceVars
      PROVE  sensorStore'[polled'][copying'].age <= PaceBound'
  <2>1. UNCHANGED <<polled, copying, seen, sincePoll>> /\ ~TimedPublish
    BY <1>4, <1>k DEF ParserUpdateEnd, pollVars, TimedPublish, PollPublish, paceVars
  <2>2. CASE r = polled /\ writing[polled] = copying
    BY <1>4, <2>1, <2>2, EndIsYoung
  <2>3. CASE ~(r = polled /\ writing[polled] = copying)
    <3>1. writing[polled] # copying
      BY <1>4, <1>k, <1>w, <2>1, <2>3 DEF ParserUpdateEnd
    <3>2. sensorStore[polled][copying].age <= PaceBound
      BY <2>1, <3>1 DEF SeenInv
    <3> QED
      BY <1>k, <2>1, <3>2, YoungStays
  <2> QED
    BY <2>2, <2>3
<1>5. CASE TimedCopy \/ TimedPublish \/ PollExtract
  BY <1>5 DEF TimedCopy, PollCopy, TimedPublish, PollPublish, PollExtract
<1>6. ASSUME NEW r \in Sensor, SensorWatchdogPassEnds(r) \/ TimedMark(r)
      PROVE  UNCHANGED <<polled, copying, seen, writing>>
  BY <1>6 DEF SensorWatchdogPassEnds, TimedMark, SensorWatchdogMark, vars, storeVars, pollVars
<1>7. ASSUME NEW r \in Sensor, NEW u \in Type, TimedAssignMaster(r, u)
      PROVE  UNCHANGED <<polled, copying, seen, writing>>
  BY <1>7 DEF TimedAssignMaster, AssignMasterSource, storeVars, pollVars
<1>8. TimedTick => UNCHANGED <<polled, copying, seen, writing>>
  BY DEF TimedTick, Tick, pollVars
<1>9. ASSUME \/ GlobalWatchdog \/ \E u \in Type : PollCrash(u)
             \/ \E r \in Sensor, u \in Type : SensorWatchdogTest(r, u)
      PROVE  UNCHANGED <<polled, copying, seen, writing>>
  BY <1>9 DEF GlobalWatchdog, PollCrash, PollRead, SensorWatchdogTest, storeVars, pollVars
<1>10. UNCHANGED timedVars => UNCHANGED <<polled, copying, seen, writing>>
  BY DEF timedVars, vars, storeVars, pollVars
<1>11. ASSUME PollRead, UNCHANGED paceVars
       PROVE  sensorStore'[polled'][copying'].age <= PaceBound'
  <2>1. /\ UNCHANGED <<polled, copying>> /\ seen' = sensorStore[polled][copying].quality
        /\ UNCHANGED <<sensorStore, writing, sincePoll>>
    BY <1>11 DEF PollRead, storeVars, paceVars
  <2>2. sensorStore[polled][copying].age <= PaceBound
    BY <1>k, <2>1, GoodIsYoung
  <2> QED
    BY <2>1, <2>2 DEF PaceBound
<1> QED
  BY <1>1, <1>2, <1>3, <1>4, <1>5, <1>6, <1>7, <1>8, <1>9, <1>10, <1>11 DEF TimedNext

\* What a poll copies as Good is young, unless the copy is a race.
LEMMA CopyIsYoung ==
    ASSUME TimedTypeOK, PollInv, StoreInv, SeenInv, TimedCopy,
           polled \notin raced', globalStore'[copying][polled].quality = "Good"
    PROVE  sensorStore[polled][copying].age <= PaceBound
<1>1. copying # NoType /\ copying \in Type /\ polled \in Sensor /\ TypeOK
  BY DEF TimedCopy, PollCopy, PollInv, TimedTypeOK, TypeOK
<1>2. writing[polled] # copying
  BY <1>1 DEF TimedCopy
<1>3. PICK q \in {seen, sensorStore[polled][copying].quality} :
        globalStore' = [globalStore EXCEPT ![copying][polled] =
                          [quality |-> q, age |-> sensorStore[polled][copying].age]]
  BY DEF TimedCopy, PollCopy
<1>4. globalStore'[copying][polled].quality = q
  BY <1>1, <1>3 DEF TypeOK
<1>5. CASE q = seen
  BY <1>1, <1>2, <1>4, <1>5 DEF SeenInv
<1>6. CASE q = sensorStore[polled][copying].quality
  BY <1>1, <1>2, <1>4, <1>6, GoodIsYoung
<1> QED
  BY <1>3, <1>5, <1>6

\* A copy that is young enough stays so until the broadcast or the next copy: only the
\* clock touches its age.
LEMMA CopyStaysYoung ==
    ASSUME TimedTypeOK, [TimedNext]_timedVars, ~TimedPublish,
           NEW s \in Sensor, NEW t \in Type, ~(TimedCopy /\ t = copying /\ s = polled),
           globalStore[t][s].age <= PaceBound
    PROVE  globalStore'[t][s].age <= PaceBound'
<1>t. TypeOK
  BY DEF TimedTypeOK
<1>a. /\ globalStore[t][s] \in Entry /\ globalStore[t][s].age \in Nat
      /\ sincePoll \in Nat /\ SensorTimeout \in Nat /\ WatchPeriod \in Nat
  BY Ages, Paces DEF Entry
<1>1. CASE sincePoll' = sincePoll /\ globalStore'[t][s].age = globalStore[t][s].age
  BY <1>1 DEF PaceBound
<1>2. CASE TimedTick
  <2>1. globalStore'[t][s] = Older(globalStore[t][s]) /\ sincePoll' = sincePoll + 1
    BY <1>2 DEF TimedTick, Tick
  <2>2. /\ Older(globalStore[t][s]).age \in Nat
        /\ Older(globalStore[t][s]).age <= globalStore[t][s].age + 1
    BY <1>a, OlderType
  <2>3. globalStore[t][s].age <= SensorTimeout + WatchPeriod + sincePoll
    BY DEF PaceBound
  <2>4. Older(globalStore[t][s]).age <= SensorTimeout + WatchPeriod + (sincePoll + 1)
    BY <1>a, <2>2, <2>3
  <2> QED
    BY <2>1, <2>4 DEF PaceBound
<1>3. ASSUME TimedCopy PROVE sincePoll' = sincePoll /\ globalStore'[t][s] = globalStore[t][s]
  <2>1. PICK e : globalStore' = [globalStore EXCEPT ![copying][polled] = e]
    BY <1>3 DEF TimedCopy, PollCopy
  <2>2. globalStore'[t][s] = globalStore[t][s]
    BY <1>3, <1>t, <2>1 DEF TypeOK
  <2> QED
    BY <1>3, <2>2 DEF TimedCopy, paceVars
<1>4. ASSUME GlobalWatchdog PROVE globalStore'[t][s].age = globalStore[t][s].age
  BY <1>4, <1>a, WatchedType DEF GlobalWatchdog
<1>5. ASSUME NEW r \in Sensor, SensorWatchdogPassEnds(r) \/ TimedMark(r)
      PROVE  UNCHANGED <<globalStore, sincePoll>>
  BY <1>5 DEF SensorWatchdogPassEnds, TimedMark, SensorWatchdogMark, paceVars, vars
<1>6. ASSUME NEW r \in Sensor, NEW u \in Type, TimedAssignMaster(r, u)
      PROVE  UNCHANGED <<globalStore, sincePoll>>
  BY <1>6 DEF TimedAssignMaster, AssignMasterSource, paceVars
<1>7. ASSUME \/ PollExtract \/ PollRead \/ \E u \in Type : PollElect(u) \/ PollCrash(u)
             \/ \E r \in Sensor, u \in Type :
                   ParserUpdateBegin(r, u) \/ SensorWatchdogTest(r, u)
             \/ \E r \in Sensor : ParserUpdateEnd(r)
      PROVE  UNCHANGED globalStore
  BY <1>7 DEF PollExtract, PollElect, PollCrash, PollRead, ParserUpdateBegin, ParserUpdateEnd,
              SensorWatchdogTest
<1>8. UNCHANGED timedVars => UNCHANGED <<globalStore, sincePoll>>
  BY DEF timedVars, vars
<1>9. UNCHANGED paceVars => sincePoll' = sincePoll
  BY DEF paceVars
<1> QED
  BY <1>1, <1>2, <1>3, <1>4, <1>5, <1>6, <1>7, <1>8, <1>9 DEF TimedNext

LEMMA CopiedStep ==
    ASSUME PaceInv, [TimedNext]_timedVars
    PROVE  CopiedInv'
<1> SUFFICES ASSUME NEW s \in Sensor, NEW t \in Type, CopiedGood(s, t)'
             PROVE  globalStore'[t][s].age <= PaceBound'
  BY DEF CopiedInv
<1>g. /\ s \notin raced' /\ globalStore'[t][s].quality = "Good"
      /\ s < polled' \/ (s = polled' /\ t \notin pending')
  BY DEF CopiedGood
<1>t. TypeOK /\ TimedTypeOK /\ PollInv /\ StoreInv /\ SeenInv /\ PresentInv /\ CopiedInv
  BY DEF PaceInv, TimedTypeOK
<1>r. s \notin raced
  BY <1>g, <1>t, TimersStep
<1>n. polled \in 0..NumSensors /\ NumSensors \in Nat /\ s \in 1..NumSensors
  BY <1>t, Paces DEF TypeOK, Sensor
<1>e. globalStore[t][s] \in Entry
  BY <1>t DEF TypeOK
<1>1. CASE TimedPublish
  <2>1. polled' = 0
    BY <1>1 DEF TimedPublish, PollPublish
  <2> QED
    BY <1>g, <1>n, <2>1
<1>2. CASE /\ ~TimedPublish /\ ~(TimedCopy /\ t = copying /\ s = polled)
           /\ globalStore[t][s].quality = "Good"
           /\ s < polled \/ (s = polled /\ t \notin pending)
  <2>1. globalStore[t][s].age <= PaceBound
    BY <1>2, <1>r, <1>t DEF CopiedInv, CopiedGood
  <2> QED
    BY <1>2, <1>t, <2>1, CopyStaysYoung
<1>3. CASE PollExtract
  <2>1. polled' = polled + 1 /\ pending' = Present(polled + 1) /\ pending = {}
          /\ UNCHANGED globalStore
    BY <1>3 DEF PollExtract
  <2>2. s < polled'
    <3>1. SUFFICES ASSUME s = polled + 1, t \notin pending' PROVE FALSE
      BY <1>g, <2>1
    <3>2. sensorStore[s][t].quality = "None"
      BY <2>1, <3>1 DEF Present
    <3> QED
      BY <1>g, <1>t, <2>1, <3>2 DEF PresentInv
  <2>3. s < polled \/ s = polled
    BY <1>n, <2>1, <2>2
  <2>4. ~TimedPublish /\ ~TimedCopy
    BY <1>n, <2>1 DEF TimedPublish, PollPublish, TimedCopy, PollCopy
  <2> QED
    BY <1>2, <1>g, <2>1, <2>3, <2>4
<1>4. CASE TimedCopy
  <2>1. polled' = polled /\ pending' = pending \ {copying} /\ copying # NoType
    BY <1>4 DEF TimedCopy, PollCopy
  <2>2. ~TimedPublish
    BY <2>1 DEF TimedPublish, PollPublish
  <2>3. CASE s = polled /\ t = copying
    <3>1. sensorStore[s][t].age <= PaceBound
      BY <1>4, <1>g, <1>t, <2>3, CopyIsYoung
    <3>2. globalStore'[t][s].age = sensorStore[s][t].age
      BY <1>4, <1>t, <2>3 DEF TimedCopy, PollCopy, TypeOK
    <3>3. sincePoll' = sincePoll
      BY <1>4 DEF TimedCopy, paceVars
    <3> QED
      BY <3>1, <3>2, <3>3 DEF PaceBound
  <2>4. CASE ~(s = polled /\ t = copying)
    <3>1. globalStore'[t][s] = globalStore[t][s]
      BY <1>4, <1>t, <2>4 DEF TimedCopy, PollCopy, TypeOK
    <3>2. s < polled \/ (s = polled /\ t \notin pending)
      BY <1>g, <2>1, <2>4
    <3> QED
      BY <1>2, <1>g, <2>2, <2>4, <3>1, <3>2
  <2> QED
    BY <2>3, <2>4
<1>5. CASE /\ UNCHANGED <<polled, pending>> /\ ~TimedPublish /\ ~TimedCopy
           /\ globalStore'[t][s].quality \in {globalStore[t][s].quality, "Poor"}
  BY <1>2, <1>5, <1>g
<1>6. ~TimedPublish /\ ~TimedCopy /\ UNCHANGED <<polled, pending, globalStore>>
        => globalStore'[t][s].age <= PaceBound'
  BY <1>5
<1>7. ASSUME ~TimedPublish, ~TimedCopy, GlobalWatchdog PROVE globalStore'[t][s].age <= PaceBound'
  <2>1. globalStore'[t][s].quality \in {globalStore[t][s].quality, "Poor"}
    BY <1>7, <1>e, WatchedType DEF GlobalWatchdog
  <2> QED
    BY <1>5, <1>7, <2>1 DEF GlobalWatchdog, pollVars
<1>8. ASSUME ~TimedPublish, ~TimedCopy, TimedTick PROVE globalStore'[t][s].age <= PaceBound'
  <2>1. globalStore'[t][s].quality = globalStore[t][s].quality
    BY <1>8, <1>e, OlderType DEF TimedTick, Tick
  <2> QED
    BY <1>5, <1>8, <2>1 DEF TimedTick, Tick, pollVars
<1>9. ASSUME NEW r \in Sensor, SensorWatchdogPassEnds(r) \/ TimedMark(r)
      PROVE  UNCHANGED <<polled, pending, globalStore>>
  BY <1>9 DEF SensorWatchdogPassEnds, TimedMark, SensorWatchdogMark, vars, pollVars
<1>10. ASSUME NEW r \in Sensor, NEW u \in Type, TimedAssignMaster(r, u)
       PROVE  UNCHANGED <<polled, pending, globalStore>>
  BY <1>10 DEF TimedAssignMaster, AssignMasterSource, pollVars
<1>11. ASSUME \/ PollRead \/ \E u \in Type : PollElect(u) \/ PollCrash(u)
              \/ \E r \in Sensor, u \in Type :
                    ParserUpdateBegin(r, u) \/ SensorWatchdogTest(r, u)
              \/ \E r \in Sensor : ParserUpdateEnd(r)
       PROVE  UNCHANGED <<polled, pending, globalStore>>
  BY <1>11 DEF PollElect, PollCrash, PollRead, ParserUpdateBegin, ParserUpdateEnd,
               SensorWatchdogTest, pollVars
<1>12. UNCHANGED timedVars => UNCHANGED <<polled, pending, globalStore>>
  BY DEF timedVars, vars, pollVars
<1> QED
  BY <1>1, <1>3, <1>4, <1>6, <1>7, <1>8, <1>9, <1>10, <1>11, <1>12 DEF TimedNext

-----------------------------------------------------------------------------

LEMMA PaceInit == TimedInit => PaceInv
<1> SUFFICES ASSUME TimedInit PROVE PaceInv
  OBVIOUS
<1>1. TypeOK /\ PollInv
  BY TypeInit DEF TimedInit, TypeInv
<1>2. TimedTypeOK
  BY <1>1, Paces DEF TimedInit, TimedTypeOK
<1>3. \A s \in Sensor, t \in Type : /\ sensorStore[s][t].quality = "None"
                                   /\ globalStore[t][s].quality = "None"
  BY DEF TimedInit, Init, Absent
<1>4. StoreInv /\ PresentInv
  BY <1>3 DEF TimedInit, Init, StoreInv, PresentInv
<1>5. SeenInv /\ CopiedInv
  BY <1>3 DEF TimedInit, Init, SeenInv, CopiedInv, CopiedGood
<1> QED
  BY <1>1, <1>2, <1>4, <1>5 DEF PaceInv

LEMMA PaceStep == PaceInv /\ [TimedNext]_timedVars => PaceInv'
<1> SUFFICES ASSUME PaceInv, [TimedNext]_timedVars PROVE PaceInv'
  OBVIOUS
<1>1. TimedTypeOK' /\ PollInv'
  BY TimedTypes DEF PaceInv
<1>2. StoreInv' /\ SeenInv' /\ CopiedInv'
  BY StoreStep, SeenStep, CopiedStep DEF PaceInv
<1>3. PresentInv'
  BY PresentStep, TimedIsStep DEF PaceInv, TypeInv, TimedTypeOK
<1> QED
  BY <1>1, <1>2, <1>3 DEF PaceInv

LEMMA PublishedIsYoung ==
    ASSUME PaceInv, [TimedNext]_timedVars
    PROVE  \A i \in published' :
             polled # 0 /\ polled' = 0 /\ i.sensor \notin raced
               => globalStore[i.type][i.sensor].age <= SensorTimeout + WatchPeriod + PollPeriod
<1> SUFFICES ASSUME NEW i \in published', polled # 0, polled' = 0, i.sensor \notin raced
             PROVE  globalStore[i.type][i.sensor].age
                      <= SensorTimeout + WatchPeriod + PollPeriod
  OBVIOUS
<1>t. TimedTypeOK /\ CopiedInv
  BY DEF PaceInv
<1>n. polled \in Nat
  BY <1>t, Paces DEF TimedTypeOK, TypeOK
<1>1. CASE PollPublish
  <2>1. i \in Extracted /\ polled = NumSensors /\ pending = {}
    BY <1>1 DEF PollPublish
  <2>2. /\ i.sensor \in Sensor /\ i.type \in Type
        /\ globalStore[i.type][i.sensor].quality = "Good"
    BY <2>1 DEF Extracted, Item, GoodIn
  <2>3. i.sensor < polled \/ i.sensor = polled
    BY <2>1, <2>2, Paces DEF Sensor
  <2>4. globalStore[i.type][i.sensor].age <= PaceBound
    BY <1>t, <2>1, <2>2, <2>3 DEF CopiedInv, CopiedGood
  <2>5. /\ globalStore[i.type][i.sensor].age \in Nat /\ sincePoll \in 0..PollPeriod
        /\ SensorTimeout \in Nat /\ WatchPeriod \in Nat /\ PollPeriod \in Nat
    BY <1>t, <2>2, Ages, Paces DEF Entry
  <2> QED
    BY <2>4, <2>5 DEF PaceBound
<1>2. CASE ~PollPublish
  <2>1. polled' = polled \/ polled' = polled + 1
    BY <1>2, TimedIsStep
       DEF Next, vars, pollVars, ParserUpdateBegin, ParserUpdateEnd, SensorWatchdogTest,
           SensorWatchdogMark, PollExtract, PollElect, PollCrash, PollRead, PollCopy, GlobalWatchdog,
           AssignMasterSource, Tick
  <2> QED
    BY <1>n, <2>1
<1> QED
  BY <1>1, <1>2

\* The copy that is broadcast as Good is at most the sensor's timeout and the periods of
\* the two threads old, unless a race hit its sensor.
THEOREM BroadcastAge == TimedSpec => BroadcastAgeBound
<1>1. PaceInv /\ [TimedNext]_timedVars
        => [\A i \in published' :
              polled # 0 /\ polled' = 0 /\ i.sensor \notin raced
                => globalStore[i.type][i.sensor].age
                     <= SensorTimeout + WatchPeriod + PollPeriod]_timedVars
  BY PublishedIsYoung
<1> QED
  BY <1>1, PaceInit, PaceStep, PTL DEF TimedSpec, BroadcastAgeBound

\* The threads' clocks and the histories keep their types.
THEOREM TimedTypeCorrect == TimedSpec => []TimedTypeOK
<1>1. PaceInv => TimedTypeOK
  BY DEF PaceInv
<1> QED
  BY <1>1, PaceInit, PaceStep, PTL DEF TimedSpec

-----------------------------------------------------------------------------
(* Steady sources *)

\* All that the proofs about them look at.
steadyVars == <<sensorStore, writing, globalStore, master, pollVars, offered, sincePoll,
                raced, masterless>>

\* The steps, those left out that change nothing of it.
LEMMA TimedCases ==
    ASSUME [TimedNext]_timedVars
    PROVE  \/ UNCHANGED steadyVars
           \/ \E r \in Sensor, u \in Type : TimedAssignMaster(r, u)
           \/ \E r \in Sensor : TimedMark(r)
           \/ TimedTick \/ TimedCopy \/ TimedPublish
           \/ /\ \/ \E r \in Sensor, u \in Type : ParserUpdateBegin(r, u)
                 \/ \E r \in Sensor : ParserUpdateEnd(r)
                 \/ PollExtract \/ PollRead \/ GlobalWatchdog
                 \/ \E u \in Type : PollElect(u)
              /\ UNCHANGED <<sincePoll, raced, masterless>>
<1>1. ASSUME NEW r \in Sensor, SensorWatchdogPassEnds(r) PROVE UNCHANGED steadyVars
  BY <1>1 DEF SensorWatchdogPassEnds, steadyVars, vars, pollVars
<1>2. ASSUME NEW r \in Sensor, NEW u \in Type, SensorWatchdogTest(r, u),
             UNCHANGED <<paceVars, raced, masterless>>
      PROVE  UNCHANGED steadyVars
  BY <1>2 DEF SensorWatchdogTest, steadyVars, pollVars, netVars, paceVars
<1>3. ASSUME NEW u \in Type, PollCrash(u), UNCHANGED <<paceVars, raced, masterless>>
      PROVE  UNCHANGED steadyVars
  BY <1>3 DEF PollCrash, steadyVars, storeVars, pollVars, netVars, paceVars
<1>4. UNCHANGED timedVars => UNCHANGED steadyVars
  BY DEF timedVars, vars, pollVars, steadyVars
<1>5. UNCHANGED paceVars => UNCHANGED sincePoll
  BY DEF paceVars
<1> QED
  BY <1>1, <1>2, <1>3, <1>4, <1>5 DEF TimedNext

\* Both storages count on s for t: it was broadcast, is in charge, has a Good copy or is
\* about to get one.
Vouched(s, t) ==
    \/ <<s, t>> \in offered
    \/ master[t] = s
    \/ globalStore[t][s].quality = "Good"
    \/ copying = t /\ polled = s /\ seen = "Good"

\* What a steady source has delivered once, it has delivered lately; the watchdogs do not
\* make parameters.
Delivered(s, t) ==
    \/ sensorStore[s][t].quality # "None" /\ writing[s] # t
    \/ polled = s /\ t \in pending

DeliveryInv ==
    \A s \in Steady, t \in Type :
        /\ Delivered(s, t) => sensorStore[s][t].age <= MaxSilence
        /\ doomed[s] = t => sensorStore[s][t].quality # "None"

\* What is counted on is Good and young at its sensor.
VouchedInv ==
    \A s \in Steady, t \in Type :
        s \notin raced /\ Vouched(s, t)
          => /\ sensorStore[s][t].quality = "Good"
             /\ sensorStore[s][t].age <= MaxSilence
             /\ copying = t /\ polled = s => seen = "Good"

\* The poll has been to t of s, or has found nothing there.
Visited(s, t) == s < polled \/ (s = polled /\ t \notin pending)

CopyBound(s, t) == MaxSilence + (sincePoll + IF Visited(s, t) THEN 0 ELSE PollPeriod)

\* Its copy is Good and was young when this poll or the last one made it.
CopyInv ==
    \A s \in Steady, t \in Type :
        s \notin raced /\ Vouched(s, t) /\ ~(copying = t /\ polled = s)
          => /\ globalStore[t][s].quality = "Good"
             /\ globalStore[t][s].age <= CopyBound(s, t)

SteadyInv == PaceInv /\ SlotInv /\ DeliveryInv /\ VouchedInv /\ CopyInv

LEMMA Steadies ==
    /\ \A s \in Steady : s \in Sensor /\ s \in Nat /\ s # NoMaster
    /\ MaxSilence \in Nat /\ GlobalTimeout \in Nat
BY ConstantsAssumption, PaceAssumption DEF Sensor, NoMaster

\* Only the steps of a poll at its sensor make a parameter one that is counted on.
LEMMA VouchedBefore ==
    ASSUME TrustedUI, TypeOK, PollInv, [TimedNext]_timedVars,
           NEW s \in Steady, NEW t \in Type, Vouched(s, t)', ~Vouched(s, t)
    PROVE  /\ polled = s /\ t \in pending
           /\ \/ PollElect(t) /\ sensorStore[s][t].quality = "Good"
              \/ PollRead /\ copying = t /\ sensorStore[s][t].quality = "Good"
              \/ TimedCopy /\ copying = t /\ globalStore'[t][s].quality = "Good"
<1> DEFINE Goal == /\ polled = s /\ t \in pending
                   /\ \/ PollElect(t) /\ sensorStore[s][t].quality = "Good"
                      \/ PollRead /\ copying = t /\ sensorStore[s][t].quality = "Good"
                      \/ TimedCopy /\ copying = t /\ globalStore'[t][s].quality = "Good"
<1>t. /\ s \in Sensor /\ s # NoMaster /\ NoType \notin Type
      /\ globalStore \in [Type -> [Sensor -> Entry]] /\ globalStore[t][s] \in Entry
      /\ master \in [Type -> Sensor \union {NoMaster}]
  BY Steadies, Paces DEF TypeOK
<1>n. <<s, t>> \notin offered /\ master[t] # s /\ globalStore[t][s].quality # "Good"
  BY DEF Vouched
<1>1. CASE UNCHANGED <<globalStore, master, copying, polled, seen, offered>>
  BY <1>1 DEF Vouched
<1>2. ASSUME NEW r \in Sensor, NEW u \in Type, TimedAssignMaster(r, u) PROVE FALSE
  <2>1. /\ copying = NoType /\ copying' = NoType /\ UNCHANGED <<globalStore, offered>>
        /\ <<r, u>> \in offered /\ master' = [master EXCEPT ![u] = r]
    BY <1>2 DEF TimedAssignMaster, AssignMasterSource, pollVars, netVars
  <2>2. master'[t] # s
    BY <1>t, <1>n, <2>1
  <2> QED
    BY <1>t, <1>n, <2>1, <2>2 DEF Vouched
<1>3. CASE TimedTick
  <2>1. globalStore'[t][s].quality = globalStore[t][s].quality
    BY <1>t, <1>3, OlderType DEF TimedTick, Tick
  <2> QED
    BY <1>3, <2>1 DEF TimedTick, Tick, pollVars, netVars, Vouched
<1>4. CASE TimedCopy
  <2>1. /\ copying # NoType /\ copying' = NoType /\ UNCHANGED <<master, offered>>
        /\ \E q \in {seen, sensorStore[polled][copying].quality} :
              globalStore' = [globalStore EXCEPT ![copying][polled] =
                                [quality |-> q, age |-> sensorStore[polled][copying].age]]
    BY <1>4 DEF TimedCopy, PollCopy, netVars
  <2>2. globalStore'[t][s].quality = "Good"
    BY <1>t, <1>n, <2>1 DEF Vouched
  <2>3. copying = t /\ polled = s
    BY <1>t, <1>n, <2>1, <2>2
  <2> QED
    BY <1>4, <2>2, <2>3 DEF TimedCopy, PollCopy, PollInv
<1>5. CASE TimedPublish
  <2>1. /\ copying = NoType /\ copying' = NoType /\ UNCHANGED <<master, globalStore>>
        /\ offered' = offered \union {<<i.sensor, i.type>> : i \in Extracted}
    BY <1>5 DEF TimedPublish, PollPublish
  <2>2. <<s, t>> \in offered'
    BY <1>t, <1>n, <2>1 DEF Vouched
  <2>3. globalStore[t][s].quality = "Good"
    BY <1>n, <2>1, <2>2 DEF Extracted, GoodIn
  <2> QED
    BY <1>n, <2>3
<1>6. CASE GlobalWatchdog
  <2>1. globalStore'[t][s].quality # "Good"
    BY <1>t, <1>n, <1>6, WatchedType DEF GlobalWatchdog
  <2>2. master'[t] # s
    BY <1>t, <1>n, <1>6 DEF GlobalWatchdog
  <2> QED
    BY <1>n, <1>6, <2>1, <2>2 DEF GlobalWatchdog, pollVars, netVars, Vouched
<1>7. CASE PollExtract
  <2>1. copying = NoType /\ copying' = NoType /\ UNCHANGED <<globalStore, master, offered>>
    BY <1>7 DEF PollExtract, netVars
  <2> QED
    BY <1>t, <1>n, <2>1 DEF Vouched
<1>8. ASSUME NEW u \in Type, PollElect(u) PROVE Goal
  <2>1. /\ u \in pending /\ copying' = u /\ seen' = sensorStore[polled][u].quality
        /\ UNCHANGED <<globalStore, polled, offered>>
        /\ master' = IF TakesMastership(polled, u)
                       THEN [master EXCEPT ![u] = polled] ELSE master
    BY <1>8 DEF PollElect, netVars
  <2>2. u = t /\ polled = s
    BY <1>t, <1>n, <2>1 DEF Vouched
  <2>3. sensorStore[s][t].quality = "Good"
    BY <1>n, <2>1, <2>2 DEF Vouched, TakesMastership
  <2> QED
    BY <1>8, <2>1, <2>2, <2>3
<1>9. ASSUME NEW r \in Sensor, NEW u \in Type, ParserUpdateBegin(r, u)
      PROVE  UNCHANGED <<globalStore, master, copying, polled, seen, offered>>
  BY <1>9 DEF ParserUpdateBegin, pollVars, netVars
<1>10. ASSUME NEW r \in Sensor, ParserUpdateEnd(r) \/ TimedMark(r)
       PROVE  UNCHANGED <<globalStore, master, copying, polled, seen, offered>>
  BY <1>10 DEF ParserUpdateEnd, TimedMark, SensorWatchdogMark, pollVars, netVars
<1>11. UNCHANGED steadyVars
         => UNCHANGED <<globalStore, master, copying, polled, seen, offered>>
  BY DEF steadyVars, pollVars
<1>12. ASSUME PollRead PROVE Goal
  <2>1. /\ UNCHANGED <<globalStore, master, copying, polled, offered>> /\ copying # NoType
        /\ seen' = sensorStore[polled][copying].quality
    BY <1>12 DEF PollRead, netVars
  <2>2. copying = t /\ polled = s /\ sensorStore[s][t].quality = "Good"
    BY <1>n, <2>1 DEF Vouched
  <2> QED
    BY <1>12, <2>1, <2>2 DEF PollInv
<1> QED
  BY <1>1, <1>2, <1>3, <1>4, <1>5, <1>6, <1>7, <1>8, <1>9, <1>10, <1>11, <1>12, TimedCases

\* What a step does to a parameter of a sensor: only the assignments and marks and the clock
\* change it.
LEMMA ParameterEffect ==
    ASSUME TypeOK, [TimedNext]_timedVars, NEW s \in Sensor, NEW t \in Type
    PROVE  \/ sensorStore'[s][t] = sensorStore[s][t]
           \/ /\ ParserUpdateBegin(s, t)
              /\ sensorStore'[s][t].quality = "Good"
              /\ sensorStore'[s][t].age = sensorStore[s][t].age
           \/ /\ ParserUpdateEnd(s) /\ writing[s] = t
              /\ sensorStore'[s][t].quality = sensorStore[s][t].quality
              /\ sensorStore'[s][t].age = 0
           \/ /\ TimedMark(s) /\ doomed[s] = t
              /\ sensorStore'[s][t].quality = "Poor"
              /\ sensorStore'[s][t].age = sensorStore[s][t].age
           \/ TimedTick /\ sensorStore'[s][t] = Older(sensorStore[s][t])
<1> DEFINE Goal ==
           \/ sensorStore'[s][t] = sensorStore[s][t]
           \/ /\ ParserUpdateBegin(s, t)
              /\ sensorStore'[s][t].quality = "Good"
              /\ sensorStore'[s][t].age = sensorStore[s][t].age
           \/ /\ ParserUpdateEnd(s) /\ writing[s] = t
              /\ sensorStore'[s][t].quality = sensorStore[s][t].quality
              /\ sensorStore'[s][t].age = 0
           \/ /\ TimedMark(s) /\ doomed[s] = t
              /\ sensorStore'[s][t].quality = "Poor"
              /\ sensorStore'[s][t].age = sensorStore[s][t].age
           \/ TimedTick /\ sensorStore'[s][t] = Older(sensorStore[s][t])
<1>t. sensorStore \in [Sensor -> [Type -> Entry]] /\ sensorStore[s][t] \in Entry
  BY DEF TypeOK
<1>1. ASSUME NEW r \in Sensor, NEW u \in Type, ParserUpdateBegin(r, u) PROVE Goal
  <2>1. sensorStore' = [sensorStore EXCEPT ![r][u].quality = "Good"]
    BY <1>1 DEF ParserUpdateBegin
  <2>2. CASE r = s /\ u = t
    <3>1. sensorStore'[s][t] = [sensorStore[s][t] EXCEPT !.quality = "Good"]
      BY <1>t, <2>1, <2>2
    <3>2. sensorStore'[s][t].quality = "Good" /\ sensorStore'[s][t].age = sensorStore[s][t].age
      BY <1>t, <3>1, FieldValues, EntryExcept
    <3> QED
      BY <1>1, <2>2, <3>2
  <2>3. CASE ~(r = s /\ u = t)
    BY <1>t, <2>1, <2>3
  <2> QED
    BY <2>2, <2>3
<1>2. ASSUME NEW r \in Sensor, ParserUpdateEnd(r) PROVE Goal
  <2>1. sensorStore' = [sensorStore EXCEPT ![r][writing[r]].age = 0]
    BY <1>2 DEF ParserUpdateEnd
  <2>2. CASE r = s /\ writing[r] = t
    <3>1. sensorStore'[s][t] = [sensorStore[s][t] EXCEPT !.age = 0]
      BY <1>t, <2>1, <2>2
    <3>2. /\ sensorStore'[s][t].quality = sensorStore[s][t].quality
          /\ sensorStore'[s][t].age = 0
      BY <1>t, <3>1, FieldValues, EntryExcept
    <3> QED
      BY <1>2, <2>2, <3>2
  <2>3. CASE ~(r = s /\ writing[r] = t)
    BY <1>t, <2>1, <2>3
  <2> QED
    BY <2>2, <2>3
<1>3. ASSUME NEW r \in Sensor, TimedMark(r) PROVE Goal
  <2>1. sensorStore' = [sensorStore EXCEPT ![r][doomed[r]].quality = "Poor"]
    BY <1>3 DEF TimedMark, SensorWatchdogMark
  <2>2. CASE r = s /\ doomed[r] = t
    <3>1. sensorStore'[s][t] = [sensorStore[s][t] EXCEPT !.quality = "Poor"]
      BY <1>t, <2>1, <2>2
    <3>2. sensorStore'[s][t].quality = "Poor" /\ sensorStore'[s][t].age = sensorStore[s][t].age
      BY <1>t, <3>1, FieldValues, EntryExcept
    <3> QED
      BY <1>3, <2>2, <3>2
  <2>3. CASE ~(r = s /\ doomed[r] = t)
    BY <1>t, <2>1, <2>3
  <2> QED
    BY <2>2, <2>3
<1>4. TimedTick => sensorStore'[s][t] = Older(sensorStore[s][t])
  BY DEF TimedTick, Tick
<1>5. UNCHANGED sensorStore => sensorStore'[s][t] = sensorStore[s][t]
  OBVIOUS
<1>6. UNCHANGED steadyVars \/ TimedCopy \/ TimedPublish \/ PollExtract \/ PollRead \/ GlobalWatchdog
        => UNCHANGED sensorStore
  BY DEF steadyVars, TimedCopy, PollCopy, TimedPublish, PollPublish, PollExtract,
         PollRead, GlobalWatchdog, storeVars
<1>7. ASSUME NEW u \in Type, PollElect(u) PROVE UNCHANGED sensorStore
  BY <1>7 DEF PollElect, storeVars
<1>8. ASSUME NEW r \in Sensor, NEW u \in Type, TimedAssignMaster(r, u)
      PROVE  UNCHANGED sensorStore
  BY <1>8 DEF TimedAssignMaster, AssignMasterSource, storeVars
<1> QED
  BY <1>1, <1>2, <1>3, <1>4, <1>5, <1>6, <1>7, <1>8, TimedCases

\* A steady source that was young stays so: it is heard from before it is not.
LEMMA SteadyStaysYoung ==
    ASSUME TimedTypeOK, [TimedNext]_timedVars, NEW s \in Steady, NEW t \in Type,
           sensorStore[s][t].quality # "None", sensorStore[s][t].age <= MaxSilence
    PROVE  sensorStore'[s][t].age <= MaxSilence
<1>1. s \in Sensor /\ MaxSilence \in Nat /\ TypeOK
  BY Steadies DEF TimedTypeOK
<1>2. sensorStore[s][t] \in Entry /\ sensorStore[s][t].age \in Nat
  BY <1>1, Ages
<1>3. CASE TimedTick /\ sensorStore'[s][t] = Older(sensorStore[s][t])
  <2>1. sensorStore[s][t].age < MaxSilence
    BY <1>3 DEF TimedTick, Present
  <2> QED
    BY <1>1, <1>2, <1>3, <2>1, OlderType
<1> QED
  BY <1>1, <1>2, <1>3, ParameterEffect

LEMMA DeliveryStep ==
    ASSUME TimedTypeOK, PollInv, PresentInv, DeliveryInv, [TimedNext]_timedVars
    PROVE  DeliveryInv'
<1> SUFFICES ASSUME NEW s \in Steady, NEW t \in Type
             PROVE  /\ Delivered(s, t)' => sensorStore'[s][t].age <= MaxSilence
                    /\ doomed'[s] = t => sensorStore'[s][t].quality # "None"
  BY DEF DeliveryInv
<1>t. TypeOK /\ s \in Sensor /\ MaxSilence \in Nat /\ NoType \notin Type
  BY Steadies, Paces DEF TimedTypeOK
<1>w. /\ writing \in [Sensor -> Type \union {NoType}]
      /\ doomed \in [Sensor -> Type \union {NoType}]
  BY <1>t DEF TypeOK
<1>d. doomed'[s] = t => sensorStore'[s][t].quality # "None"
  <2>1. SUFFICES ASSUME doomed'[s] = t PROVE sensorStore[s][t].quality # "None"
    BY TimedIsStep, ParametersStay, <1>t DEF TypeInv
  <2>2. CASE doomed[s] = t
    BY <2>2 DEF DeliveryInv
  <2>3. CASE \E r \in Sensor, u \in Type : SensorWatchdogTest(r, u)
    BY <1>t, <1>w, <2>1, <2>2, <2>3 DEF SensorWatchdogTest
  <2>4. CASE \E r \in Sensor : SensorWatchdogMark(r)
    BY <1>t, <1>w, <2>1, <2>2, <2>4 DEF SensorWatchdogMark
  <2> QED
    BY <2>1, <2>2, <2>3, <2>4, TimedIsStep
       DEF Next, vars, storeVars, ParserUpdateBegin, ParserUpdateEnd, PollExtract, PollElect,
           PollCrash, PollRead, PollCopy, PollPublish, GlobalWatchdog, AssignMasterSource, Tick
<1>1. CASE ParserUpdateEnd(s) /\ writing[s] = t /\ sensorStore'[s][t].age = 0
  BY <1>t, <1>d, <1>1
<1>2. CASE ~(ParserUpdateEnd(s) /\ writing[s] = t /\ sensorStore'[s][t].age = 0)
  <2>1. SUFFICES ASSUME Delivered(s, t)'
                 PROVE  sensorStore[s][t].quality # "None" /\ sensorStore[s][t].age <= MaxSilence
    BY <1>d, SteadyStaysYoung
  <2>2. CASE polled' = s /\ t \in pending'
    <3>1. CASE polled = s /\ t \in pending
      BY <3>1 DEF PresentInv, DeliveryInv, Delivered
    <3>2. CASE PollExtract
      <4>1. s = polled + 1 /\ writing[s] = NoType /\ t \in Present(s)
        BY <2>2, <3>2 DEF PollExtract
      <4>2. sensorStore[s][t].quality # "None" /\ writing[s] # t
        BY <1>t, <4>1 DEF Present
      <4> QED
        BY <4>2 DEF DeliveryInv, Delivered
    <3>3. CASE pending' \subseteq pending /\ polled' = polled
      BY <2>2, <3>1, <3>3
    <3>4. TimedPublish => pending' = {}
      BY DEF TimedPublish, PollPublish
    <3>5. ASSUME NEW r \in Sensor, NEW u \in Type, ParserUpdateBegin(r, u) \/ TimedAssignMaster(r, u)
          PROVE  UNCHANGED <<polled, pending>>
      BY <3>5 DEF ParserUpdateBegin, TimedAssignMaster, AssignMasterSource, pollVars
    <3>6. ASSUME NEW r \in Sensor, ParserUpdateEnd(r) \/ TimedMark(r)
          PROVE  UNCHANGED <<polled, pending>>
      BY <3>6 DEF ParserUpdateEnd, TimedMark, SensorWatchdogMark, pollVars
    <3>7. UNCHANGED steadyVars \/ TimedTick \/ GlobalWatchdog \/ PollRead
            \/ (\E u \in Type : PollElect(u)) => UNCHANGED <<polled, pending>>
      BY DEF steadyVars, TimedTick, Tick, GlobalWatchdog, PollRead, PollElect, pollVars
    <3>8. TimedCopy => pending' \subseteq pending /\ polled' = polled
      BY DEF TimedCopy, PollCopy
    <3> QED
      BY <2>2, <3>2, <3>3, <3>4, <3>5, <3>6, <3>7, <3>8, TimedCases
  <2>3. CASE sensorStore'[s][t].quality # "None" /\ writing'[s] # t
    <3>1. SUFFICES sensorStore[s][t].quality # "None" /\ writing[s] # t
      BY DEF DeliveryInv, Delivered
    <3>2. sensorStore[s][t].quality # "None"
      <4>1. CASE ParserUpdateBegin(s, t)
        <5>1. writing'[s] = t
          BY <1>t, <1>w, <4>1 DEF ParserUpdateBegin
        <5> QED
          BY <2>3, <5>1
      <4>2. CASE TimedMark(s) /\ doomed[s] = t
        BY <4>2 DEF DeliveryInv
      <4>3. sensorStore[s][t] \in Entry
        BY <1>t DEF TypeOK
      <4> QED
        BY <1>t, <2>3, <4>1, <4>2, <4>3, ParameterEffect, OlderType
    <3>3. writing[s] # t
      <4>1. CASE UNCHANGED writing
        BY <2>3, <4>1
      <4>2. ASSUME NEW r \in Sensor, NEW u \in Type, ParserUpdateBegin(r, u)
            PROVE  writing[s] # t
        <5>1. writing[r] = NoType /\ (r # s => writing'[s] = writing[s])
          BY <1>w, <1>t, <4>2 DEF ParserUpdateBegin
        <5> QED
          BY <1>t, <2>3, <5>1
      <4>3. ASSUME NEW r \in Sensor, ParserUpdateEnd(r) PROVE writing[s] # t
        <5>1. r # s => writing'[s] = writing[s]
          BY <1>w, <1>t, <4>3 DEF ParserUpdateEnd
        <5>2. r = s => writing[s] # t
          <6>1. SUFFICES ASSUME r = s, writing[s] = t PROVE FALSE
            OBVIOUS
          <6>2. sensorStore'[s][t].age = 0
            BY <1>t, <4>3, <6>1 DEF ParserUpdateEnd, TypeOK, Entry
          <6> QED
            BY <1>2, <4>3, <6>1, <6>2
        <5> QED
          BY <2>3, <5>1, <5>2
      <4>4. UNCHANGED steadyVars \/ TimedTick \/ TimedCopy \/ TimedPublish \/ PollExtract
              \/ PollRead \/ GlobalWatchdog \/ (\E u \in Type : PollElect(u))
                => UNCHANGED writing
        BY DEF steadyVars, TimedTick, Tick, TimedCopy, PollCopy, TimedPublish, PollPublish,
               PollExtract, PollRead, GlobalWatchdog, PollElect, storeVars
      <4>5. ASSUME NEW r \in Sensor, NEW u \in Type, TimedAssignMaster(r, u)
            PROVE  UNCHANGED writing
        BY <4>5 DEF TimedAssignMaster, AssignMasterSource, storeVars
      <4>6. ASSUME NEW r \in Sensor, TimedMark(r) PROVE UNCHANGED writing
        BY <4>6 DEF TimedMark, SensorWatchdogMark
      <4> QED
        BY <4>1, <4>2, <4>3, <4>4, <4>5, <4>6, TimedCases
    <3> QED
      BY <3>2, <3>3
  <2> QED
    BY <2>1, <2>2, <2>3 DEF Delivered
<1> QED
  BY <1>d, <1>1, <1>2

LEMMA VouchedStep ==
    ASSUME Paced, TimedTypeOK, PollInv, PresentInv, DeliveryInv, VouchedInv,
           [TimedNext]_timedVars
    PROVE  VouchedInv'
<1> SUFFICES ASSUME NEW s \in Steady, NEW t \in Type, s \notin raced', Vouched(s, t)'
             PROVE  /\ sensorStore'[s][t].quality = "Good"
                    /\ sensorStore'[s][t].age <= MaxSilence
                    /\ copying' = t /\ polled' = s => seen' = "Good"
  BY DEF VouchedInv
<1>t. /\ TypeOK /\ s \in Sensor /\ MaxSilence \in Nat /\ SensorTimeout \in Nat
      /\ sensorStore[s][t] \in Entry /\ sensorStore[s][t].age \in Nat
      /\ NoType \notin Type /\ s \notin raced /\ TrustedUI /\ MaxSilence <= SensorTimeout
  BY Steadies, Paces, Ages, TimersStep DEF TimedTypeOK, TypeOK, Paced
<1>1. CASE Vouched(s, t)
  <2>1. /\ sensorStore[s][t].quality = "Good" /\ sensorStore[s][t].age <= MaxSilence
        /\ copying = t /\ polled = s => seen = "Good"
    BY <1>t, <1>1 DEF VouchedInv
  <2>2. sensorStore'[s][t].age <= MaxSilence
    BY <2>1, SteadyStaysYoung
  <2>3. ~(TimedMark(s) /\ doomed[s] = t)
    BY <1>t, <2>1 DEF TimedMark
  <2>4. sensorStore'[s][t].quality = "Good"
    BY <1>t, <2>1, <2>3, ParameterEffect, OlderType
  <2>5. copying' = t /\ polled' = s => seen' = "Good"
    <3>1. CASE \E u \in Type : PollElect(u)
      <4>1. PICK u \in Type : PollElect(u)
        BY <3>1
      <4> QED
        BY <2>1, <4>1 DEF PollElect
    <3>2. CASE TimedCopy \/ TimedPublish \/ PollExtract
      BY <1>t, <3>2 DEF TimedCopy, PollCopy, TimedPublish, PollPublish, PollExtract
    <3>3. CASE UNCHANGED <<copying, polled, seen>>
      BY <2>1, <3>3
    <3>4. UNCHANGED steadyVars \/ TimedTick \/ GlobalWatchdog => UNCHANGED <<copying, polled, seen>>
      BY DEF steadyVars, TimedTick, Tick, GlobalWatchdog, pollVars
    <3>5. ASSUME NEW r \in Sensor, NEW u \in Type, ParserUpdateBegin(r, u) \/ TimedAssignMaster(r, u)
          PROVE  UNCHANGED <<copying, polled, seen>>
      BY <3>5 DEF ParserUpdateBegin, TimedAssignMaster, AssignMasterSource, pollVars
    <3>6. ASSUME NEW r \in Sensor, ParserUpdateEnd(r) \/ TimedMark(r)
          PROVE  UNCHANGED <<copying, polled, seen>>
      BY <3>6 DEF ParserUpdateEnd, TimedMark, SensorWatchdogMark, pollVars
    <3>7. CASE PollRead
      BY <2>1, <3>7 DEF PollRead
    <3> QED
      BY <3>1, <3>2, <3>3, <3>4, <3>5, <3>6, <3>7, TimedCases
  <2> QED
    BY <2>2, <2>4, <2>5
<1>2. CASE ~Vouched(s, t)
  <2>1. /\ polled = s /\ t \in pending
        /\ \/ PollElect(t) /\ sensorStore[s][t].quality = "Good"
           \/ PollRead /\ copying = t /\ sensorStore[s][t].quality = "Good"
           \/ TimedCopy /\ copying = t /\ globalStore'[t][s].quality = "Good"
    BY <1>t, <1>2, VouchedBefore
  <2>2. sensorStore[s][t].age <= MaxSilence
    BY <2>1 DEF DeliveryInv, Delivered
  <2>3. CASE PollElect(t) /\ sensorStore[s][t].quality = "Good"
    BY <2>1, <2>2, <2>3 DEF PollElect, storeVars
  <2>4. CASE TimedCopy /\ copying = t /\ globalStore'[t][s].quality = "Good"
    <3>1. PICK q \in {seen, sensorStore[s][t].quality} :
             globalStore' = [globalStore EXCEPT ![t][s] =
                               [quality |-> q, age |-> sensorStore[s][t].age]]
      BY <2>1, <2>4 DEF TimedCopy, PollCopy
    <3>2. q = "Good"
      BY <1>t, <2>4, <3>1 DEF TypeOK
    <3>3. seen # "Good"
      BY <1>2, <2>1, <2>4 DEF Vouched
    <3>4. UNCHANGED sensorStore /\ copying' = NoType
      BY <2>4 DEF TimedCopy, PollCopy, storeVars
    <3> QED
      BY <1>t, <2>2, <3>1, <3>2, <3>3, <3>4
  <2>5. CASE PollRead /\ copying = t /\ sensorStore[s][t].quality = "Good"
    BY <2>1, <2>2, <2>5 DEF PollRead, storeVars
  <2> QED
    BY <2>1, <2>3, <2>4, <2>5
<1> QED
  BY <1>1, <1>2

\* What a poll copies of a steady source that is counted on.
LEMMA SteadyCopied ==
    ASSUME Paced, TimedTypeOK, PollInv, DeliveryInv, VouchedInv, TimedCopy,
           NEW s \in Steady, NEW t \in Type, s \notin raced, Vouched(s, t)',
           copying = t, polled = s
    PROVE  /\ globalStore'[t][s].quality = "Good"
           /\ globalStore'[t][s].age <= MaxSilence
<1>t. TypeOK /\ s \in Sensor /\ NoType \notin Type
  BY Steadies, Paces DEF TimedTypeOK
<1>1. PICK q \in {seen, sensorStore[s][t].quality} :
         globalStore' = [globalStore EXCEPT ![t][s] =
                           [quality |-> q, age |-> sensorStore[s][t].age]]
  BY DEF TimedCopy, PollCopy
<1>2. /\ globalStore'[t][s].quality = q /\ globalStore'[t][s].age = sensorStore[s][t].age
  BY <1>t, <1>1 DEF TypeOK
<1>3. sensorStore[s][t].age <= MaxSilence
  <2>1. t \in pending
    BY <1>t DEF PollInv
  <2> QED
    BY <2>1 DEF DeliveryInv, Delivered
<1>4. q = "Good"
  <2>1. CASE Vouched(s, t)
    BY <1>1, <2>1 DEF VouchedInv
  <2>2. CASE ~Vouched(s, t)
    <3>1. copying' = NoType /\ UNCHANGED <<master, offered>>
      BY DEF TimedCopy, PollCopy, netVars
    <3>2. globalStore'[t][s].quality = "Good"
      BY <1>t, <2>2, <3>1 DEF Vouched
    <3> QED
      BY <1>2, <3>2
  <2> QED
    BY <2>1, <2>2
<1> QED
  BY <1>2, <1>3, <1>4

\* A copy on which the watchdog passes no verdict.
LEMMA WatchedGood ==
    ASSUME Paced, TimedTypeOK, CopyInv, NEW s \in Steady, NEW t \in Type,
           s \notin raced, Vouched(s, t), copying = NoType
    PROVE  globalStore[t][s].quality = "Good" /\ Watched(globalStore[t][s]) = globalStore[t][s]
<1>1. /\ s \in Sensor /\ MaxSilence \in Nat /\ PollPeriod \in Nat /\ GlobalTimeout \in Nat
      /\ sincePoll \in 0..PollPeriod /\ NoType \notin Type /\ MaxAge \in Nat
      /\ globalStore[t][s] \in Entry
  BY Steadies, Paces, Ages
<1>2. globalStore[t][s].quality = "Good" /\ globalStore[t][s].age <= CopyBound(s, t)
  BY <1>1 DEF CopyInv
<1>3. globalStore[t][s].age \in Nat
  BY <1>1 DEF Entry
<1>4. CopyBound(s, t) <= MaxSilence + 2 * PollPeriod
  BY <1>1 DEF CopyBound
<1>5. MaxSilence + 2 * PollPeriod <= GlobalTimeout
  BY DEF Paced
<1>6. CopyBound(s, t) \in Nat
  BY <1>1 DEF CopyBound
<1>7. ~(globalStore[t][s].age > GlobalTimeout)
  <2> HIDE DEF CopyBound
  <2>1. 2 * PollPeriod \in Nat
    BY <1>1
  <2> QED
    BY <1>1, <1>2, <1>3, <1>4, <1>5, <1>6, <2>1
<1> QED
  BY <1>2, <1>7 DEF Watched

\* Between election and copy the poll stays where it is.
LEMMA CopyingStays ==
    ASSUME TypeOK, [TimedNext]_timedVars, copying # NoType, ~TimedCopy
    PROVE  UNCHANGED <<copying, polled>>
<1>1. UNCHANGED steadyVars \/ TimedTick \/ PollRead => UNCHANGED <<copying, polled>>
  BY DEF steadyVars, TimedTick, Tick, PollRead, pollVars
<1>2. ~TimedPublish /\ ~PollExtract /\ ~GlobalWatchdog /\ \A u \in Type : ~PollElect(u)
  BY DEF TimedPublish, PollPublish, PollExtract, GlobalWatchdog, PollElect
<1>3. ASSUME NEW r \in Sensor, NEW u \in Type, ParserUpdateBegin(r, u) \/ TimedAssignMaster(r, u)
      PROVE  UNCHANGED <<copying, polled>>
  BY <1>3 DEF ParserUpdateBegin, TimedAssignMaster, AssignMasterSource, pollVars
<1>4. ASSUME NEW r \in Sensor, ParserUpdateEnd(r) \/ TimedMark(r)
      PROVE  UNCHANGED <<copying, polled>>
  BY <1>4 DEF ParserUpdateEnd, TimedMark, SensorWatchdogMark, pollVars
<1> QED
  BY <1>1, <1>2, <1>3, <1>4, TimedCases

LEMMA CopyStep ==
    ASSUME Paced, PaceInv, DeliveryInv, VouchedInv, CopyInv, [TimedNext]_timedVars
    PROVE  CopyInv'
<1> SUFFICES ASSUME NEW s \in Steady, NEW t \in Type, s \notin raced', Vouched(s, t)',
                    ~(copying' = t /\ polled' = s)
             PROVE  /\ globalStore'[t][s].quality = "Good"
                    /\ globalStore'[t][s].age <= CopyBound(s, t)'
  BY DEF CopyInv
<1>p. TimedTypeOK /\ PollInv /\ PresentInv /\ TypeOK
  BY DEF PaceInv, TimedTypeOK
<1>t. /\ s \in Sensor /\ s \in Nat /\ MaxSilence \in Nat /\ PollPeriod \in Nat
      /\ globalStore \in [Type -> [Sensor -> Entry]]
      /\ globalStore[t][s] \in Entry /\ globalStore[t][s].age \in Nat
      /\ NoType \notin Type /\ s \notin raced /\ TrustedUI /\ sincePoll \in 0..PollPeriod
      /\ polled \in 0..NumSensors /\ NumSensors \in Nat /\ s \in 1..NumSensors
  <2>1. s \in Sensor /\ globalStore[t][s] \in Entry
    BY <1>p, Steadies DEF TypeOK
  <2>2. globalStore[t][s].age \in 0..MaxAge
    BY <2>1 DEF Entry
  <2> QED
    BY <1>p, <2>1, <2>2, Steadies, Paces, Ages, TimersStep DEF TypeOK, Paced, Sensor
<1>1. CASE TimedCopy /\ copying = t /\ polled = s
  <2>1. globalStore'[t][s].quality = "Good" /\ globalStore'[t][s].age <= MaxSilence
    BY <1>1, <1>p, <1>t, SteadyCopied
  <2>2. polled' = s /\ t \notin pending' /\ sincePoll' = sincePoll
    BY <1>1 DEF TimedCopy, PollCopy, paceVars
  <2>3. CopyBound(s, t)' = MaxSilence + sincePoll
    BY <1>t, <2>2 DEF CopyBound, Visited
  <2>4. globalStore'[t][s].age \in Nat
    <3>1. globalStore'[t][s] \in Entry
      BY <1>p, <1>t, TimedTypes DEF TimedTypeOK, TypeOK
    <3> QED
      BY <3>1, Paces DEF Entry
  <2> QED
    BY <1>t, <2>1, <2>3, <2>4
<1>2. CASE ~(TimedCopy /\ copying = t /\ polled = s)
  <2>1. Vouched(s, t)
    <3>1. /\ PollElect(t) => copying' = t /\ polled' = polled
          /\ PollRead => UNCHANGED <<copying, polled>>
      BY DEF PollElect, PollRead
    <3> QED
      BY <1>2, <1>p, <1>t, <3>1, VouchedBefore
  <2>2. ~(copying = t /\ polled = s)
    BY <1>2, <1>p, <1>t, CopyingStays
  <2>3. globalStore[t][s].quality = "Good" /\ globalStore[t][s].age <= CopyBound(s, t)
    BY <1>t, <2>1, <2>2 DEF CopyInv
  <2>4. CASE UNCHANGED <<globalStore, polled, pending, sincePoll>>
    BY <2>3, <2>4 DEF CopyBound, Visited
  <2>5. CASE TimedCopy
    <3>1. globalStore'[t][s] = globalStore[t][s]
      <4>1. PICK q \in {seen, sensorStore[polled][copying].quality} :
               globalStore' = [globalStore EXCEPT ![copying][polled] =
                                 [quality |-> q, age |-> sensorStore[polled][copying].age]]
        BY <2>5 DEF TimedCopy, PollCopy
      <4> QED
        BY <1>t, <2>2, <4>1
    <3>2. UNCHANGED <<polled, sincePoll>> /\ pending' = pending \ {copying}
      BY <2>5 DEF TimedCopy, PollCopy, paceVars
    <3>3. Visited(s, t)' = Visited(s, t)
      BY <2>2, <3>2 DEF Visited
    <3> QED
      BY <2>3, <3>1, <3>2, <3>3 DEF CopyBound
  <2>6. CASE TimedPublish
    <3>1. /\ polled = NumSensors /\ pending = {} /\ UNCHANGED globalStore
          /\ polled' = 0 /\ sincePoll' = 0
      BY <2>6 DEF TimedPublish, PollPublish
    <3>2. CopyBound(s, t) = MaxSilence + sincePoll
      BY <1>t, <3>1 DEF CopyBound, Visited
    <3>3. CopyBound(s, t)' = MaxSilence + PollPeriod
      BY <1>t, <3>1 DEF CopyBound, Visited
    <3> QED
      BY <1>t, <2>3, <3>1, <3>2, <3>3
  <2>7. CASE PollExtract /\ UNCHANGED sincePoll
    <3>1. /\ polled' = polled + 1 /\ pending = {} /\ pending' = Present(polled + 1)
          /\ UNCHANGED globalStore
      BY <2>7 DEF PollExtract
    <3>2. s # polled
      => (Visited(s, t)' => Visited(s, t))
      <4>1. SUFFICES ASSUME s # polled, Visited(s, t)' PROVE s < polled
        BY DEF Visited
      <4>2. s < polled + 1 \/ (s = polled + 1 /\ t \notin Present(s))
        BY <3>1, <4>1 DEF Visited
      <4>3. t \in Present(s)
        BY <1>t, <2>1 DEF VouchedInv, Present
      <4> QED
        BY <1>t, <4>1, <4>2, <4>3
    <3>3. s = polled => Visited(s, t)
      BY <3>1 DEF Visited
    <3>4. Visited(s, t)' => Visited(s, t)
      BY <3>2, <3>3
    <3>5. CopyBound(s, t)' \in Nat /\ CopyBound(s, t) \in Nat /\ CopyBound(s, t) <= CopyBound(s, t)'
      BY <1>t, <2>7, <3>4 DEF CopyBound
    <3> QED
      BY <1>t, <2>3, <3>1, <3>5
  <2>8. CASE GlobalWatchdog /\ UNCHANGED sincePoll
    <3>1. UNCHANGED <<polled, pending>> /\ copying = NoType
      BY <2>8 DEF GlobalWatchdog, pollVars
    <3>2. globalStore'[t][s] = globalStore[t][s]
      <4>1. Watched(globalStore[t][s]) = globalStore[t][s]
        BY <1>p, <1>t, <2>1, <3>1, WatchedGood
      <4> QED
        BY <1>t, <2>8, <4>1 DEF GlobalWatchdog
    <3> QED
      BY <2>3, <2>8, <3>1, <3>2 DEF CopyBound, Visited
  <2>9. CASE TimedTick
    <3>1. /\ UNCHANGED <<polled, pending>> /\ sincePoll' = sincePoll + 1
          /\ globalStore'[t][s] = Older(globalStore[t][s])
      BY <1>t, <2>9 DEF TimedTick, Tick, pollVars
    <3>2. /\ globalStore'[t][s].quality = globalStore[t][s].quality
          /\ globalStore'[t][s].age <= globalStore[t][s].age + 1
          /\ globalStore'[t][s].age \in Nat
      BY <1>t, <3>1, OlderType
    <3>3. CopyBound(s, t)' = CopyBound(s, t) + 1 /\ CopyBound(s, t) \in Nat
      <4>1. Visited(s, t)' = Visited(s, t)
        BY <3>1 DEF Visited
      <4> QED
        BY <1>t, <3>1, <4>1 DEF CopyBound
    <3> QED
      BY <1>t, <2>3, <3>2, <3>3
  <2>10. ASSUME NEW r \in Sensor, NEW u \in Type,
                TimedAssignMaster(r, u) \/ (ParserUpdateBegin(r, u) /\ UNCHANGED sincePoll)
         PROVE  UNCHANGED <<globalStore, polled, pending, sincePoll>>
    BY <2>10 DEF ParserUpdateBegin, TimedAssignMaster, AssignMasterSource, pollVars, paceVars
  <2>11. ASSUME NEW r \in Sensor, TimedMark(r) \/ (ParserUpdateEnd(r) /\ UNCHANGED sincePoll)
         PROVE  UNCHANGED <<globalStore, polled, pending, sincePoll>>
    BY <2>11 DEF ParserUpdateEnd, TimedMark, SensorWatchdogMark, pollVars, paceVars
  <2>12. ASSUME NEW u \in Type, PollElect(u), UNCHANGED sincePoll
         PROVE  UNCHANGED <<globalStore, polled, pending, sincePoll>>
    BY <2>12 DEF PollElect
  <2>13. UNCHANGED steadyVars \/ (PollRead /\ UNCHANGED sincePoll)
           => UNCHANGED <<globalStore, polled, pending, sincePoll>>
    BY DEF steadyVars, PollRead, pollVars
  <2> QED
    BY <2>4, <2>5, <2>6, <2>7, <2>8, <2>9, <2>10, <2>11, <2>12, <2>13, TimedCases
<1> QED
  BY <1>1, <1>2

LEMMA SteadyInit == TimedInit => SteadyInv
<1> SUFFICES ASSUME TimedInit PROVE SteadyInv
  OBVIOUS
<1>1. PaceInv /\ SlotInv
  BY PaceInit, SlotInit DEF TimedInit
<1>2. \A s \in Steady, t \in Type :
        /\ sensorStore[s][t].quality = "None" /\ globalStore[t][s].quality = "None"
        /\ master[t] # s /\ offered = {} /\ copying # t /\ pending = {} /\ doomed[s] # t
  BY Steadies, Paces DEF TimedInit, Init, Absent
<1>3. DeliveryInv
  BY <1>2 DEF DeliveryInv, Delivered
<1>4. \A s \in Steady, t \in Type : ~Vouched(s, t)
  BY <1>2 DEF Vouched
<1>5. VouchedInv /\ CopyInv
  BY <1>4 DEF VouchedInv, CopyInv
<1> QED
  BY <1>1, <1>3, <1>5 DEF SteadyInv

LEMMA SteadyStep == Paced => (SteadyInv /\ [TimedNext]_timedVars => SteadyInv')
<1> SUFFICES ASSUME Paced, SteadyInv, [TimedNext]_timedVars PROVE SteadyInv'
  OBVIOUS
<1>1. /\ PaceInv /\ SlotInv /\ DeliveryInv /\ VouchedInv /\ CopyInv
      /\ TimedTypeOK /\ TypeOK /\ PollInv /\ PresentInv
  BY DEF SteadyInv, PaceInv, TimedTypeOK
<1>2. PaceInv'
  BY <1>1, PaceStep
<1>3. SlotInv'
  BY <1>1, TimedIsStep, SlotStep DEF TypeInv
<1>4. DeliveryInv' /\ VouchedInv' /\ CopyInv'
  BY <1>1, DeliveryStep, VouchedStep, CopyStep
<1> QED
  BY <1>2, <1>3, <1>4 DEF SteadyInv

\* A steady master is replaced by the operator only.
LEMMA KeptStep ==
    ASSUME Paced, SteadyInv, [TimedNext]_timedVars, NEW s \in Steady, NEW t \in Type,
           s \notin raced, master[t] = s
    PROVE  master'[t] = s \/ \E r \in Sensor : TimedAssignMaster(r, t)
<1>p. /\ CopyInv /\ VouchedInv /\ TimedTypeOK /\ TypeOK /\ PollInv
  BY DEF SteadyInv, PaceInv, TimedTypeOK
<1>t. /\ s \in Sensor /\ s # NoMaster /\ NoType \notin Type
      /\ master \in [Type -> Sensor \union {NoMaster}] /\ Vouched(s, t)
  BY <1>p, Steadies, Paces DEF TypeOK, Vouched
<1>1. ASSUME NEW u \in Type, PollElect(u) PROVE master'[t] = s
  <2>1. /\ copying = NoType
        /\ master' = IF TakesMastership(polled, u)
                       THEN [master EXCEPT ![u] = polled] ELSE master
    BY <1>1 DEF PollElect
  <2>2. globalStore[t][s].quality = "Good"
    BY <1>p, <1>t, <2>1 DEF CopyInv
  <2>3. CASE u = t
    <3>1. TakesMastership(polled, t) => polled = s
      BY <1>t, <2>2 DEF TakesMastership
    <3> QED
      BY <1>t, <2>1, <2>3, <3>1
  <2>4. CASE u # t
    BY <1>t, <2>1, <2>4
  <2> QED
    BY <2>3, <2>4
<1>2. ASSUME GlobalWatchdog PROVE master'[t] = s
  <2>1. copying = NoType
    BY <1>2 DEF GlobalWatchdog
  <2>2. globalStore[t][s].quality = "Good" /\ Watched(globalStore[t][s]) = globalStore[t][s]
    BY <1>p, <1>t, <2>1, WatchedGood DEF SteadyInv
  <2>3. globalStore'[t][s].quality = "Good"
    BY <1>2, <1>t, <2>2 DEF GlobalWatchdog
  <2> QED
    BY <1>2, <1>t, <2>3 DEF GlobalWatchdog
<1>3. ASSUME NEW r \in Sensor, NEW u \in Type, TimedAssignMaster(r, u)
      PROVE  master'[t] = s \/ TimedAssignMaster(r, t)
  BY <1>3, <1>t DEF TimedAssignMaster, AssignMasterSource
<1>4. UNCHANGED steadyVars \/ TimedTick \/ TimedCopy \/ TimedPublish \/ PollExtract \/ PollRead
        => UNCHANGED master
  BY DEF steadyVars, TimedTick, Tick, TimedCopy, PollCopy, TimedPublish, PollPublish,
         PollExtract, PollRead
<1>5. ASSUME NEW r \in Sensor, NEW u \in Type, ParserUpdateBegin(r, u) PROVE UNCHANGED master
  BY <1>5 DEF ParserUpdateBegin
<1>6. ASSUME NEW r \in Sensor, ParserUpdateEnd(r) \/ TimedMark(r) PROVE UNCHANGED master
  BY <1>6 DEF ParserUpdateEnd, TimedMark, SensorWatchdogMark
<1> QED
  BY <1>1, <1>2, <1>3, <1>4, <1>5, <1>6, TimedCases

\* Neither a watchdog nor a poll takes the mastership of a steady source, for any sensors
\* and types and any timeouts and periods that leave room for its silence.
THEOREM SteadyKept == Paced => (TimedSpec => SteadyMasterKept)
<1> SUFFICES ASSUME Paced PROVE TimedSpec => SteadyMasterKept
  OBVIOUS
<1>1. SteadyInv /\ [TimedNext]_timedVars
        => [\A t \in Type, s \in Steady :
              master[t] = s /\ (master'[t] = NoMaster \/ copying' = t)
                => master'[t] = s \/ s \in raced]_timedVars
  <2> SUFFICES ASSUME SteadyInv, [TimedNext]_timedVars, NEW t \in Type, NEW s \in Steady,
                      master[t] = s, master'[t] = NoMaster \/ copying' = t, s \notin raced
               PROVE  master'[t] = s
    OBVIOUS
  <2>1. ASSUME NEW r \in Sensor, TimedAssignMaster(r, t) PROVE FALSE
    <3>1. master' = [master EXCEPT ![t] = r] /\ copying' = NoType
      BY <2>1 DEF TimedAssignMaster, AssignMasterSource, pollVars
    <3>2. master'[t] = r
      BY <3>1 DEF SteadyInv, PaceInv, TimedTypeOK, TypeOK
    <3>3. r # NoMaster /\ NoType # t
      BY Paces DEF Sensor, NoMaster
    <3> QED
      BY <3>1, <3>2, <3>3
  <2> QED
    BY <2>1, KeptStep
<1> QED
  BY <1>1, SteadyInit, SteadyStep, PTL DEF TimedSpec, SteadyMasterKept

-----------------------------------------------------------------------------
(* Broadcasts without a master *)

\* The first source of t, once broadcast.
FirstOffered(s, t) ==
    /\ <<s, t>> \in offered
    /\ \A lower \in 1..s - 1 : globalStore[t][lower].quality = "None"

\* The poll has come to t of s and has elected.
Elected(s, t) == s < polled \/ (s = polled /\ (t \notin pending \/ copying = t))

NoGoodMaster(t) == master[t] = NoMaster \/ globalStore[t][master[t]].quality # "Good"

\* After a broadcast without a master the post stays open for the first source, if that is
\* a steady one, and is filled when the poll comes to it.
MasterlessInv ==
    raced = {} =>
        /\ \A t \in Type : masterless[t] <= 1
        /\ \A t \in Type, s \in Steady :
             masterless[t] = 1 /\ FirstOffered(s, t)
               => IF Elected(s, t) THEN master[t] = s ELSE NoGoodMaster(t)

\* A broadcast flags a Good master.
LEMMA MasterFlagged ==
    ASSUME NEW t \in Type, master[t] \in Sensor, globalStore[t][master[t]].quality = "Good",
           PollPublish
    PROVE  \E i \in published' : i.type = t /\ i.master
<1> DEFINE i == [type |-> t, sensor |-> master[t], master |-> TRUE]
<1>1. i \in Item
  BY DEF Item
<1>2. i \in Extracted
  BY <1>1 DEF Extracted, GoodIn
<1> QED
  BY <1>2 DEF PollPublish

LEMMA MasterlessPublish ==
    ASSUME Paced, SteadyInv, MasterlessInv, raced = {}, TimedPublish, NEW t \in Type
    PROVE  /\ masterless'[t] <= 1
           /\ masterless'[t] = 1 => NoGoodMaster(t)'
<1>t. /\ master[t] \in Sensor \union {NoMaster} /\ masterless \in [Type -> 0..2]
      /\ masterless[t] \in {0, 1} /\ NoType \notin Type
  BY Paces DEF SteadyInv, PaceInv, TimedTypeOK, TypeOK, MasterlessInv
<1>1. /\ PollPublish /\ polled = NumSensors /\ pending = {} /\ UNCHANGED <<master, globalStore>>
      /\ masterless'[t] =
           IF /\ \E s \in Steady : Standing(s, t)
              /\ ~\E i \in published' : i.type = t /\ i.master
             THEN IF masterless[t] < 2 THEN masterless[t] + 1 ELSE 2
             ELSE 0
  BY DEF TimedPublish, PollPublish
<1>2. CASE \E i \in published' : i.type = t /\ i.master
  BY <1>1, <1>2
<1>3. CASE ~\E i \in published' : i.type = t /\ i.master
  <2>1. NoGoodMaster(t)
    BY <1>t, <1>1, <1>3, MasterFlagged DEF NoGoodMaster
  <2>2. NoGoodMaster(t)'
    BY <1>1, <2>1 DEF NoGoodMaster
  <2>3. ASSUME NEW s \in Steady, Standing(s, t), masterless[t] = 1 PROVE FALSE
    <3>1. s \in Sensor /\ s # NoMaster /\ NumSensors \in Nat
      BY Steadies, Paces
    <3>2. FirstOffered(s, t) /\ globalStore[t][s].quality = "Good"
      BY <2>3 DEF Standing, FirstOffered
    <3>3. Elected(s, t)
      BY <1>1, <3>1 DEF Elected, Sensor
    <3>4. master[t] = s
      BY <2>3, <3>2, <3>3 DEF MasterlessInv
    <3> QED
      BY <2>1, <3>1, <3>2, <3>4 DEF NoGoodMaster
  <2>4. masterless'[t] <= 1
    BY <1>t, <1>1, <2>3
  <2> QED
    BY <2>2, <2>4
<1> QED
  BY <1>2, <1>3

\* The first source of t is not only now the first, and not only now broadcast.
LEMMA FirstBefore ==
    ASSUME Paced, SteadyInv, [TimedNext]_timedVars, ~TimedPublish,
           NEW s \in Steady, NEW t \in Type, FirstOffered(s, t)'
    PROVE  FirstOffered(s, t)
<1>1. TypeInv /\ SlotInv /\ TrustedUI /\ [Next]_vars
  BY TimedIsStep DEF SteadyInv, PaceInv, TimedTypeOK, TypeInv, Paced
<1>2. UNCHANGED offered
  <2>1. ASSUME NEW r \in Sensor, NEW u \in Type, TimedAssignMaster(r, u) PROVE UNCHANGED offered
    BY <2>1 DEF TimedAssignMaster, AssignMasterSource, netVars
  <2>2. ASSUME NEW r \in Sensor, TimedMark(r) \/ ParserUpdateEnd(r) PROVE UNCHANGED offered
    BY <2>2 DEF TimedMark, SensorWatchdogMark, ParserUpdateEnd, netVars
  <2>3. ASSUME NEW r \in Sensor, NEW u \in Type, ParserUpdateBegin(r, u) PROVE UNCHANGED offered
    BY <2>3 DEF ParserUpdateBegin, netVars
  <2>4. ASSUME NEW u \in Type, PollElect(u) PROVE UNCHANGED offered
    BY <2>4 DEF PollElect, netVars
  <2>5. UNCHANGED steadyVars \/ TimedTick \/ TimedCopy \/ PollExtract \/ PollRead \/ GlobalWatchdog
          => UNCHANGED offered
    BY DEF steadyVars, TimedTick, Tick, TimedCopy, PollCopy, PollExtract, PollRead,
           GlobalWatchdog, netVars
  <2> QED
    BY <2>1, <2>2, <2>3, <2>4, <2>5, TimedCases
<1>3. ASSUME NEW lower \in 1..s - 1 PROVE globalStore[t][lower].quality = "None"
  <2>1. lower \in Sensor
    BY Steadies, Paces DEF Sensor
  <2>2. lower \notin Slots(t)'
    BY <2>1 DEF FirstOffered, Slots
  <2>3. lower \notin Slots(t)
    BY <1>1, <2>1, <2>2, SlotsStay
  <2> QED
    BY <2>1, <2>3 DEF Slots
<1> QED
  BY <1>2, <1>3 DEF FirstOffered

\* An election is over until the next poll.
LEMMA ElectedStays ==
    ASSUME SteadyInv, [TimedNext]_timedVars, ~TimedPublish,
           NEW s \in Steady, NEW t \in Type, Elected(s, t)
    PROVE  Elected(s, t)'
<1>t. polled \in 0..NumSensors /\ NumSensors \in Nat /\ s \in Nat /\ NoType \notin Type
  BY Steadies, Paces DEF SteadyInv, PaceInv, TimedTypeOK, TypeOK
<1>1. UNCHANGED <<polled, pending, copying>> => Elected(s, t)'
  BY DEF Elected
<1>2. ASSUME PollExtract PROVE Elected(s, t)'
  BY <1>t, <1>2 DEF PollExtract, Elected
<1>3. ASSUME NEW u \in Type, PollElect(u) PROVE Elected(s, t)'
  BY <1>t, <1>3 DEF PollElect, Elected
<1>4. ASSUME TimedCopy PROVE Elected(s, t)'
  BY <1>t, <1>4 DEF TimedCopy, PollCopy, Elected
<1>5. ASSUME NEW r \in Sensor, NEW u \in Type, TimedAssignMaster(r, u) \/ ParserUpdateBegin(r, u)
      PROVE  UNCHANGED <<polled, pending, copying>>
  BY <1>5 DEF TimedAssignMaster, AssignMasterSource, ParserUpdateBegin, pollVars
<1>6. ASSUME NEW r \in Sensor, TimedMark(r) \/ ParserUpdateEnd(r)
      PROVE  UNCHANGED <<polled, pending, copying>>
  BY <1>6 DEF TimedMark, SensorWatchdogMark, ParserUpdateEnd, pollVars
<1>7. UNCHANGED steadyVars \/ TimedTick \/ GlobalWatchdog \/ PollRead
        => UNCHANGED <<polled, pending, copying>>
  BY DEF steadyVars, TimedTick, Tick, GlobalWatchdog, PollRead, pollVars
<1> QED
  BY <1>1, <1>2, <1>3, <1>4, <1>5, <1>6, <1>7, TimedCases

\* The election of t at a steady source fills a post that is open.
LEMMA PostFilled ==
    ASSUME SteadyInv, [TimedNext]_timedVars, ~TimedPublish,
           NEW s \in Steady, NEW t \in Type, s \notin raced, <<s, t>> \in offered,
           NoGoodMaster(t), ~Elected(s, t), Elected(s, t)'
    PROVE  master'[t] = s
<1>t. /\ polled \in 0..NumSensors /\ NumSensors \in Nat /\ s \in Nat /\ s \in Sensor
      /\ NoType \notin Type /\ s # NoMaster
      /\ sensorStore \in [Sensor -> [Type -> Entry]]
      /\ master \in [Type -> Sensor \union {NoMaster}]
  BY Steadies, Paces DEF SteadyInv, PaceInv, TimedTypeOK, TypeOK
<1>g. sensorStore[s][t].quality = "Good"
  BY DEF SteadyInv, VouchedInv, Vouched
<1>1. UNCHANGED <<polled, pending, copying>> => FALSE
  BY DEF Elected
<1>2. ASSUME PollExtract PROVE FALSE
  <2>1. polled' = polled + 1 /\ pending = {} /\ copying' = NoType /\ pending' = Present(polled + 1)
    BY <1>2 DEF PollExtract
  <2>2. s = polled + 1
    BY <1>t, <2>1 DEF Elected
  <2>3. t \in Present(s)
    BY <1>g DEF Present
  <2> QED
    BY <1>t, <2>1, <2>2, <2>3 DEF Elected
<1>3. ASSUME NEW u \in Type, PollElect(u) PROVE master'[t] = s
  <2>1. /\ UNCHANGED <<polled, pending>> /\ copying' = u
        /\ master' = IF TakesMastership(polled, u)
                       THEN [master EXCEPT ![u] = polled] ELSE master
    BY <1>3 DEF PollElect
  <2>2. u = t /\ polled = s
    BY <1>t, <2>1 DEF Elected
  <2>3. TakesMastership(s, t) \/ master[t] = s
    BY <1>g DEF TakesMastership, NoGoodMaster
  <2> QED
    BY <1>t, <2>1, <2>2, <2>3
<1>4. ASSUME TimedCopy PROVE FALSE
  BY <1>t, <1>4 DEF TimedCopy, PollCopy, Elected
<1>5. ASSUME NEW r \in Sensor, NEW u \in Type, TimedAssignMaster(r, u) \/ ParserUpdateBegin(r, u)
      PROVE  UNCHANGED <<polled, pending, copying>>
  BY <1>5 DEF TimedAssignMaster, AssignMasterSource, ParserUpdateBegin, pollVars
<1>6. ASSUME NEW r \in Sensor, TimedMark(r) \/ ParserUpdateEnd(r)
      PROVE  UNCHANGED <<polled, pending, copying>>
  BY <1>6 DEF TimedMark, SensorWatchdogMark, ParserUpdateEnd, pollVars
<1>7. UNCHANGED steadyVars \/ TimedTick \/ GlobalWatchdog \/ PollRead
        => UNCHANGED <<polled, pending, copying>>
  BY DEF steadyVars, TimedTick, Tick, GlobalWatchdog, PollRead, pollVars
<1> QED
  BY <1>1, <1>2, <1>3, <1>4, <1>5, <1>6, <1>7, TimedCases

\* Before it, no copy and no source polled earlier fills it.
LEMMA PostStaysOpen ==
    ASSUME Paced, SteadyInv, [TimedNext]_timedVars, ~TimedPublish,
           NEW s \in Steady, NEW t \in Type, FirstOffered(s, t)',
           ~\E r \in Sensor : TimedAssignMaster(r, t),
           NoGoodMaster(t), ~Elected(s, t), ~Elected(s, t)'
    PROVE  NoGoodMaster(t)'
<1>t. /\ polled \in 0..NumSensors /\ NumSensors \in Nat /\ s \in Nat /\ s \in Sensor
      /\ NoType \notin Type /\ PollInv /\ TypeOK /\ copying \in Type \union {NoType}
      /\ globalStore \in [Type -> [Sensor -> Entry]]
      /\ master \in [Type -> Sensor \union {NoMaster}]
  BY Steadies, Paces DEF SteadyInv, PaceInv, TimedTypeOK, TypeOK
<1>f. FirstOffered(s, t)
  BY FirstBefore
<1>1. UNCHANGED <<globalStore, master>> => NoGoodMaster(t)'
  BY DEF NoGoodMaster
<1>2. ASSUME NEW u \in Type, PollElect(u) PROVE NoGoodMaster(t)'
  <2>1. /\ UNCHANGED <<globalStore, polled, pending>> /\ u \in pending /\ copying' = u
        /\ master' = IF TakesMastership(polled, u)
                       THEN [master EXCEPT ![u] = polled] ELSE master
    BY <1>2 DEF PollElect
  <2>2. polled \in Sensor
    BY <1>t, <2>1 DEF PollInv
  <2>3. CASE u = t /\ TakesMastership(polled, u)
    <3>1. polled \in 1..s - 1
      BY <1>t, <2>1, <2>2, <2>3 DEF Elected, Sensor
    <3>2. globalStore[t][polled].quality = "None" /\ master'[t] = polled
      BY <1>t, <1>f, <2>1, <2>3, <3>1 DEF FirstOffered
    <3> QED
      BY <2>1, <3>2 DEF NoGoodMaster
  <2>4. CASE ~(u = t /\ TakesMastership(polled, u))
    <3>1. master'[t] = master[t]
      BY <1>t, <2>1, <2>4
    <3> QED
      BY <2>1, <3>1 DEF NoGoodMaster
  <2> QED
    BY <2>3, <2>4
<1>3. ASSUME TimedCopy PROVE NoGoodMaster(t)'
  <2>1. copying \in pending /\ copying \in Type /\ polled \in Sensor /\ UNCHANGED <<master, polled>>
    BY <1>t, <1>3 DEF TimedCopy, PollCopy, PollInv
  <2>2. PICK q \in {seen, sensorStore[polled][copying].quality} :
          globalStore' = [globalStore EXCEPT ![copying][polled] =
                            [quality |-> q, age |-> sensorStore[polled][copying].age]]
    BY <1>3 DEF TimedCopy, PollCopy
  <2>3. q # "None"
    <3>1. seen # "None" /\ sensorStore[polled][copying].quality # "None"
      BY <1>3, <2>1 DEF TimedCopy, PollCopy, SteadyInv, SlotInv, Paced
    <3> QED
      BY <2>2, <3>1
  <2>4. copying # t
    <3>1. SUFFICES ASSUME copying = t PROVE FALSE
      OBVIOUS
    <3>2. polled \in 1..s - 1
      BY <1>t, <2>1, <3>1 DEF Elected, Sensor
    <3>3. globalStore'[t][polled].quality = q
      BY <1>t, <2>1, <2>2, <3>1
    <3>4. globalStore'[t][polled].quality = "None"
      BY <3>2 DEF FirstOffered
    <3> QED
      BY <2>3, <3>3, <3>4
  <2>5. globalStore'[t] = globalStore[t]
    BY <1>t, <2>2, <2>4
  <2> QED
    BY <2>1, <2>5 DEF NoGoodMaster
<1>4. ASSUME GlobalWatchdog PROVE NoGoodMaster(t)'
  <2>1. /\ globalStore' = [u \in Type |-> [r \in Sensor |-> Watched(globalStore[u][r])]]
        /\ master'[t] \in {NoMaster, master[t]}
    BY <1>4 DEF GlobalWatchdog
  <2>2. ASSUME master'[t] # NoMaster PROVE globalStore'[t][master'[t]].quality # "Good"
    <3>1. master'[t] = master[t] /\ master[t] \in Sensor
      BY <1>t, <2>1, <2>2
    <3>2. globalStore[t][master[t]] \in Entry /\ globalStore[t][master[t]].quality # "Good"
      BY <1>t, <2>1, <2>2, <3>1 DEF NoGoodMaster
    <3>3. Watched(globalStore[t][master[t]]).quality # "Good"
      BY <3>2, WatchedType
    <3>4. globalStore'[t][master[t]] = Watched(globalStore[t][master[t]])
      BY <2>1, <3>1
    <3> QED
      BY <3>1, <3>3, <3>4
  <2> QED
    BY <2>2 DEF NoGoodMaster
<1>5. ASSUME TimedTick PROVE NoGoodMaster(t)'
  <2>1. globalStore' = [u \in Type |-> [r \in Sensor |-> Older(globalStore[u][r])]]
          /\ UNCHANGED master
    BY <1>5 DEF TimedTick, Tick
  <2>2. ASSUME master[t] # NoMaster PROVE globalStore'[t][master[t]].quality # "Good"
    <3>1. master[t] \in Sensor /\ globalStore[t][master[t]] \in Entry
            /\ globalStore[t][master[t]].quality # "Good"
      BY <1>t, <2>2 DEF NoGoodMaster
    <3>2. Older(globalStore[t][master[t]]).quality # "Good"
      BY <3>1, OlderType
    <3> QED
      BY <2>1, <3>1, <3>2
  <2> QED
    BY <2>1, <2>2 DEF NoGoodMaster
<1>6. ASSUME NEW r \in Sensor, NEW u \in Type, TimedAssignMaster(r, u) PROVE NoGoodMaster(t)'
  <2>1. u # t
    BY <1>6
  <2>2. UNCHANGED globalStore /\ master'[t] = master[t]
    BY <1>t, <1>6, <2>1 DEF TimedAssignMaster, AssignMasterSource
  <2> QED
    BY <2>2 DEF NoGoodMaster
<1>7. ASSUME NEW r \in Sensor, NEW u \in Type, ParserUpdateBegin(r, u)
      PROVE  UNCHANGED <<globalStore, master>>
  BY <1>7 DEF ParserUpdateBegin
<1>8. ASSUME NEW r \in Sensor, TimedMark(r) \/ ParserUpdateEnd(r)
      PROVE  UNCHANGED <<globalStore, master>>
  BY <1>8 DEF TimedMark, SensorWatchdogMark, ParserUpdateEnd
<1>9. UNCHANGED steadyVars \/ PollExtract \/ PollRead => UNCHANGED <<globalStore, master>>
  BY DEF steadyVars, PollExtract, PollRead
<1> QED
  BY <1>1, <1>2, <1>3, <1>4, <1>5, <1>6, <1>7, <1>8, <1>9, TimedCases

LEMMA MasterlessStep ==
    Paced => (SteadyInv /\ MasterlessInv /\ [TimedNext]_timedVars => MasterlessInv')
<1> SUFFICES ASSUME Paced, SteadyInv, MasterlessInv, [TimedNext]_timedVars, raced' = {}
             PROVE  /\ \A t \in Type : masterless'[t] <= 1
                    /\ \A t \in Type, s \in Steady :
                         masterless'[t] = 1 /\ FirstOffered(s, t)'
                           => IF Elected(s, t)' THEN master'[t] = s ELSE NoGoodMaster(t)'
  BY DEF MasterlessInv
<1>r. raced = {}
  BY TimersStep DEF SteadyInv, PaceInv
<1>i. /\ \A t \in Type : masterless[t] <= 1
      /\ \A t \in Type, s \in Steady :
           masterless[t] = 1 /\ FirstOffered(s, t)
             => IF Elected(s, t) THEN master[t] = s ELSE NoGoodMaster(t)
  BY <1>r DEF MasterlessInv
<1>t. masterless \in [Type -> 0..2]
  BY DEF SteadyInv, PaceInv, TimedTypeOK
<1>1. CASE TimedPublish
  <2>1. \A t \in Type : /\ masterless'[t] <= 1
                        /\ masterless'[t] = 1 => NoGoodMaster(t)'
    BY <1>1, <1>r, MasterlessPublish
  <2>2. ASSUME NEW t \in Type, NEW s \in Steady PROVE ~Elected(s, t)'
    <3>1. polled' = 0 /\ s \in Nat /\ s # 0
      BY <1>1, Steadies DEF TimedPublish, PollPublish, NoMaster
    <3> QED
      BY <3>1 DEF Elected
  <2> QED
    BY <2>1, <2>2
<1>2. CASE ~TimedPublish
  <2>1. ASSUME NEW t \in Type
        PROVE  masterless'[t] = IF \E r \in Sensor : TimedAssignMaster(r, t)
                                  THEN 0 ELSE masterless[t]
    <3>1. ASSUME NEW r \in Sensor, NEW u \in Type, TimedAssignMaster(r, u)
          PROVE  /\ masterless' = [masterless EXCEPT ![u] = 0]
      BY <3>1 DEF TimedAssignMaster
    <3>2. (~\E r \in Sensor, u \in Type : TimedAssignMaster(r, u)) => UNCHANGED masterless
      <4>1. UNCHANGED steadyVars \/ TimedTick \/ TimedCopy => UNCHANGED masterless
        BY DEF steadyVars, TimedTick, TimedCopy
      <4>2. ASSUME NEW r \in Sensor, TimedMark(r) PROVE UNCHANGED masterless
        BY <4>2 DEF TimedMark
      <4> QED
        BY <1>2, <4>1, <4>2, TimedCases
    <3> QED
      BY <1>t, <3>1, <3>2
  <2>2. ASSUME NEW t \in Type PROVE masterless'[t] <= 1
    BY <1>i, <1>t, <2>1
  <2>3. ASSUME NEW t \in Type, NEW s \in Steady, masterless'[t] = 1, FirstOffered(s, t)'
        PROVE  IF Elected(s, t)' THEN master'[t] = s ELSE NoGoodMaster(t)'
    <3>1. masterless[t] = 1 /\ ~\E r \in Sensor : TimedAssignMaster(r, t)
      BY <2>1, <2>3
    <3>2. FirstOffered(s, t) /\ s \notin raced /\ <<s, t>> \in offered
      BY <1>2, <1>r, <2>3, FirstBefore DEF FirstOffered
    <3>3. CASE Elected(s, t)
      BY <1>2, <1>i, <3>1, <3>2, <3>3, KeptStep, ElectedStays
    <3>4. CASE ~Elected(s, t)
      <4>1. NoGoodMaster(t)
        BY <1>i, <3>1, <3>2, <3>4
      <4> QED
        BY <1>2, <2>3, <3>1, <3>2, <3>4, <4>1, PostFilled, PostStaysOpen
    <3> QED
      BY <3>3, <3>4
  <2> QED
    BY <2>2, <2>3
<1> QED
  BY <1>1, <1>2

\* As long as the source of a type that is polled first delivers steadily, one broadcast in a
\* row at most lacks a master, for any sensors and types and any timeouts and periods that
\* leave room for its silence.
THEOREM MasterlessOnce == Paced => (TimedSpec => []MasterlessAtMostOnce)
<1> SUFFICES ASSUME Paced PROVE TimedSpec => []MasterlessAtMostOnce
  OBVIOUS
<1>1. TimedInit => MasterlessInv
  BY DEF TimedInit, MasterlessInv
<1>2. SteadyInv /\ MasterlessInv /\ [TimedNext]_timedVars => SteadyInv' /\ MasterlessInv'
  BY SteadyStep, MasterlessStep
<1>3. MasterlessInv => MasterlessAtMostOnce
  BY DEF MasterlessInv, MasterlessAtMostOnce
<1> QED
  BY <1>1, <1>2, <1>3, SteadyInit, PTL DEF TimedSpec

-----------------------------------------------------------------------------
(* What happens in the end. Of ENABLED, which the fairness is about, nothing can be     *)
(* proved: that a step can be taken and changes something where its guard says so is a   *)
(* hypothesis.                                                                           *)

\* Where a pass of the global watchdog changes something for type t of sensor s.
WatchdogChanges(s, t) ==
    \/ globalStore[t][s].quality = "Good" /\ globalStore[t][s].age > GlobalTimeout
    \/ master[t] = s /\ globalStore[t][s].quality = "Poor"

PairGuards(s, t) ==
    /\ up /\ writing[s] # NoType => ENABLED <<ParserUpdateEnd(s)>>_vars
    /\ up /\ doomed[s] # NoType => ENABLED <<SensorWatchdogMark(s)>>_vars
    /\ /\ up /\ doomed[s] = NoType
       /\ sensorStore[s][t].quality # "None" /\ sensorStore[s][t].age > SensorTimeout
       => ENABLED <<SensorWatchdogTest(s, t)>>_vars
    /\ up /\ copying = NoType /\ WatchdogChanges(s, t) => ENABLED <<GlobalWatchdog>>_vars

CopyGuard == up /\ copying # NoType => ENABLED <<PollCopy>>_vars

StorageGuards == CopyGuard /\ \A s \in Sensor, t \in Type : PairGuards(s, t)

\* The poll gives the mutex of the global storage back.
LEMMA StorageComesFree == FairSpec /\ []StorageGuards => ([]up => []<>(copying = NoType))
<1> DEFINE Free == copying = NoType
<1>1. FairSpec => WF_vars(PollCopy)
  <2>1. FairSpec => GlobalFairness
    BY DEF FairSpec, Fairness
  <2> QED
    BY <2>1, PTL DEF GlobalFairness
<1>2. <<PollCopy>>_vars => Free'
  BY DEF PollCopy
<1>3. StorageGuards => (up /\ ~Free => ENABLED <<PollCopy>>_vars)
  <2>1. ~Free => copying # NoType
    OBVIOUS
  <2> QED
    BY <2>1, PTL DEF StorageGuards, CopyGuard
<1> HIDE DEF Free
<1>4. FairSpec /\ []StorageGuards => ([]up => []<>Free)
  BY <1>1, <1>2, <1>3, PTL
<1> QED
  BY <1>4 DEF Free

\* As long as the UI names only what was broadcast, a master whose copy is Poor is deposed or
\* delivers again, in whatever order polls, watchdogs and commands come.
THEOREM PoorDeposed == TrustedUI => (FairSpec /\ []StorageGuards => PoorMasterDeposed)
<1> SUFFICES ASSUME TrustedUI, NEW t \in Type, NEW s \in Sensor
             PROVE  FairSpec /\ []StorageGuards =>
                      ((master[t] = s /\ globalStore[t][s].quality = "Poor")
                         ~> (master[t] # s \/ globalStore[t][s].quality = "Good"))
  BY DEF PoorMasterDeposed
<1> DEFINE P == master[t] = s /\ globalStore[t][s].quality = "Poor"
           Q == master[t] # s \/ globalStore[t][s].quality = "Good"
           I == TypeInv /\ SlotInv
           Free == copying = NoType
<1>1. FairSpec => []I /\ [][Next]_vars
  BY TypeInvariant, SlotInit, SlotStep, PTL DEF FairSpec, Spec
<1>2. FairSpec => SF_vars(GlobalWatchdog)
  <2>1. FairSpec => GlobalFairness
    BY DEF FairSpec, Fairness
  <2> QED
    BY <2>1, PTL DEF GlobalFairness
<1>3. I => up
  BY DEF SlotInv
<1>4. I /\ I' /\ [Next]_vars /\ P => P' \/ Q'
  <2> SUFFICES ASSUME I, I', [Next]_vars, P, ~Q' PROVE P'
    OBVIOUS
  <2>1. s \in Slots(t)'
    BY SlotsStay DEF Slots
  <2>2. globalStore'[t][s] \in Entry
    BY DEF TypeInv, TypeOK
  <2> QED
    BY <2>1, <2>2 DEF Slots, Entry, Quality
<1>5. I /\ P /\ <<GlobalWatchdog>>_vars => Q'
  <2> SUFFICES ASSUME TypeInv, P, GlobalWatchdog PROVE master'[t] # s
    OBVIOUS
  <2>1. /\ globalStore'[t][s] = Watched(globalStore[t][s])
        /\ globalStore[t][s] \in Entry
    BY DEF GlobalWatchdog, TypeInv, TypeOK
  <2>2. globalStore'[t][s].quality = "Poor"
    BY <2>1, WatchedType
  <2>3. s # NoMaster
    BY DEF Sensor, NoMaster
  <2> QED
    BY <2>2, <2>3 DEF GlobalWatchdog
<1>6. StorageGuards => (up /\ Free /\ P => ENABLED <<GlobalWatchdog>>_vars)
  <2>1. StorageGuards => PairGuards(s, t)
    BY DEF StorageGuards
  <2>2. P => WatchdogChanges(s, t)
    BY DEF WatchdogChanges
  <2> QED
    BY <2>1, <2>2, PTL DEF PairGuards
<1>7. FairSpec /\ []StorageGuards => ([]up => []<>Free)
  BY StorageComesFree
<1> HIDE DEF P, Q, I, Free
<1>8. FairSpec /\ []StorageGuards => (P ~> Q)
  BY <1>1, <1>2, <1>3, <1>4, <1>5, <1>6, <1>7, PTL
<1> QED
  BY <1>8 DEF P, Q

\* The fairness of the steps that carry a sensor's silence into the broadcasts.
LEMMA Fair ==
    ASSUME NEW s \in Sensor, NEW t \in Type
    PROVE  /\ FairSpec => WF_vars(ParserUpdateEnd(s))
           /\ FairSpec => WF_vars(SensorWatchdogMark(s))
           /\ FairSpec => SF_vars(SensorWatchdogTest(s, t))
           /\ FairSpec => WF_vars(PollCopy)
           /\ FairSpec => SF_vars(GlobalWatchdog)
<1>1. FairSpec => SensorFairness(s)
  BY DEF FairSpec, Fairness
<1>2. FairSpec => VisitFairness(s, t)
  BY DEF FairSpec, Fairness
<1>3. FairSpec => GlobalFairness
  BY DEF FairSpec, Fairness
<1>4. FairSpec => WF_vars(ParserUpdateEnd(s)) /\ WF_vars(SensorWatchdogMark(s))
  BY <1>1, PTL DEF SensorFairness
<1>5. FairSpec => SF_vars(SensorWatchdogTest(s, t))
  BY <1>2, PTL DEF VisitFairness
<1>6. FairSpec => WF_vars(PollCopy) /\ SF_vars(GlobalWatchdog)
  BY <1>3, PTL DEF GlobalFairness
<1> QED
  BY <1>4, <1>5, <1>6, PTL

LEMMA GuardsOfPair ==
    ASSUME NEW s \in Sensor, NEW t \in Type
    PROVE  StorageGuards => PairGuards(s, t)
  BY DEF StorageGuards

Old(s, t)     == sensorStore[s][t].age = MaxAge
Good(s, t)    == sensorStore[s][t].quality = "Good"
Writes(s, t)  == writing[s] = t
\* The running poll has found t of s Good and not copied it yet.
Taking(s, t)  == copying = t /\ polled = s /\ seen = "Good"
Held(s, t)    == globalStore[t][s].quality = "Good"

\* A parameter that stays old is not being assigned: the assignment would end.
LEMMA OldNotWritten ==
    ASSUME NEW s \in Sensor, NEW t \in Type
    PROVE  FairSpec /\ []StorageGuards /\ []up => []([]Old(s, t) => []~Writes(s, t))
<1>1. FairSpec => []TypeInv /\ [][Next]_vars
  BY TypeInvariant, PTL DEF FairSpec, Spec
<1>2. TypeInv /\ Writes(s, t) /\ [Next]_vars /\ Old(s, t)' => Writes(s, t)'
  <2> SUFFICES ASSUME TypeInv, Writes(s, t), [Next]_vars, Old(s, t)'
               PROVE  Writes(s, t)'
    OBVIOUS
  <2>t. writing \in [Sensor -> Type \union {NoType}] /\ t # NoType
    BY ConstantsAssumption DEF TypeInv, TypeOK
  <2>1. ASSUME NEW r \in Sensor, NEW u \in Type, ParserUpdateBegin(r, u)
        PROVE  Writes(s, t)'
    BY <2>t, <2>1 DEF ParserUpdateBegin, Writes
  <2>2. ASSUME NEW r \in Sensor, ParserUpdateEnd(r)
        PROVE  Writes(s, t)'
    <3>1. CASE r = s
      <4>1. sensorStore \in [Sensor -> [Type -> Entry]]
        BY DEF TypeInv, TypeOK
      <4>2. sensorStore' = [sensorStore EXCEPT ![s][t].age = 0]
        BY <2>2, <3>1 DEF ParserUpdateEnd, Writes
      <4>3. sensorStore'[s][t].age = 0
        BY <4>1, <4>2, FieldValues, EntryExcept
      <4> QED
        BY <4>3, ConstantsAssumption DEF Old
    <3>2. CASE r # s
      BY <2>t, <2>2, <3>2 DEF ParserUpdateEnd, Writes
    <3> QED
      BY <3>1, <3>2
  <2>3. ASSUME UNCHANGED writing PROVE Writes(s, t)'
    BY <2>3 DEF Writes
  <2> QED
    BY <2>1, <2>2, <2>3
       DEF Next, vars, storeVars, SensorWatchdogTest, SensorWatchdogMark, PollExtract,
           PollElect, PollCrash, PollRead, PollCopy, PollPublish, GlobalWatchdog,
           AssignMasterSource, Tick
<1>3. TypeInv /\ Writes(s, t) /\ <<ParserUpdateEnd(s)>>_vars => ~Writes(s, t)'
  BY ConstantsAssumption DEF TypeInv, TypeOK, Writes, ParserUpdateEnd
<1>4. StorageGuards => (up /\ Writes(s, t) => ENABLED <<ParserUpdateEnd(s)>>_vars)
  <2>1. Writes(s, t) => writing[s] # NoType
    BY ConstantsAssumption DEF Writes
  <2> QED
    BY <2>1, GuardsOfPair, PTL DEF PairGuards
<1>5. FairSpec => WF_vars(ParserUpdateEnd(s))
  BY Fair, PTL
<1> QED
  BY <1>1, <1>2, <1>3, <1>4, <1>5, PTL

\* Only an assignment makes a parameter Good.
LEMMA GoodComesByWriting ==
    ASSUME NEW s \in Sensor, NEW t \in Type,
           TypeInv, [Next]_vars, ~Good(s, t), ~Writes(s, t)'
    PROVE  ~Good(s, t)'
<1>t. TypeOK
  BY DEF TypeInv
<1>1. ASSUME NEW r \in Sensor, NEW u \in Type, ParserUpdateBegin(r, u)
      PROVE  ~Good(s, t)'
  <2>1. r # s \/ u # t
    BY <1>t, <1>1 DEF ParserUpdateBegin, TypeOK, Writes
  <2>2. sensorStore'[s][t] = sensorStore[s][t]
    BY <1>t, <1>1, <2>1 DEF ParserUpdateBegin, TypeOK
  <2> QED
    BY <2>2 DEF Good
<1>2. ASSUME NEW r \in Sensor, ParserUpdateEnd(r) PROVE ~Good(s, t)'
  BY <1>t, <1>2, UpdateEndEffect DEF Good
<1>3. ASSUME NEW r \in Sensor, SensorWatchdogMark(r) PROVE ~Good(s, t)'
  BY <1>t, <1>3, MarkEffect DEF Good
<1>4. CASE Tick
  <2>1. sensorStore[s][t] \in Entry
    BY <1>t DEF TypeOK
  <2> QED
    BY <1>4, <2>1, OlderType DEF Tick, Good
<1>5. ASSUME UNCHANGED sensorStore PROVE ~Good(s, t)'
  BY <1>5 DEF Good
<1> QED
  BY <1>1, <1>2, <1>3, <1>4, <1>5
     DEF Next, vars, storeVars, SensorWatchdogTest, PollExtract, PollElect, PollCrash, PollRead,
         PollCopy, PollPublish, GlobalWatchdog, AssignMasterSource

\* A mark in hand stays there until it is made.
LEMMA MarkStays ==
    ASSUME NEW s \in Sensor, NEW t \in Type, TypeInv, [Next]_vars, doomed[s] = t
    PROVE  doomed'[s] = t \/ SensorWatchdogMark(s)
<1>t. doomed \in [Sensor -> Type \union {NoType}] /\ t # NoType
  BY ConstantsAssumption DEF TypeInv, TypeOK
<1>1. ASSUME NEW r \in Sensor, NEW u \in Type, SensorWatchdogTest(r, u)
      PROVE  doomed'[s] = t
  BY <1>t, <1>1 DEF SensorWatchdogTest
<1>2. ASSUME NEW r \in Sensor, SensorWatchdogMark(r)
      PROVE  doomed'[s] = t \/ SensorWatchdogMark(s)
  BY <1>t, <1>2 DEF SensorWatchdogMark
<1> QED
  BY <1>1, <1>2
     DEF Next, vars, storeVars, ParserUpdateBegin, ParserUpdateEnd, PollExtract,
         PollElect, PollCrash, PollRead, PollCopy, PollPublish, GlobalWatchdog, AssignMasterSource,
         Tick

\* The watchdog of the sensor marks a parameter that stays old.
LEMMA OldIsMarked ==
    ASSUME NEW s \in Sensor, NEW t \in Type
    PROVE  FairSpec /\ []StorageGuards /\ []up => ([]Old(s, t) ~> []~Good(s, t))
<1> DEFINE Free == doomed[s] = NoType
           Mine == doomed[s] = t
<1>1. FairSpec => []TypeInv /\ [][Next]_vars
  BY TypeInvariant, PTL DEF FairSpec, Spec
<1>2. FairSpec => WF_vars(SensorWatchdogMark(s)) /\ SF_vars(SensorWatchdogTest(s, t))
  BY Fair, PTL
<1>3. FairSpec /\ []StorageGuards /\ []up => []([]Old(s, t) => []~Writes(s, t))
  BY OldNotWritten
<1>4. TypeInv /\ [Next]_vars /\ ~Good(s, t) /\ ~Writes(s, t)' => ~Good(s, t)'
  BY GoodComesByWriting
<1>5. TypeInv /\ <<SensorWatchdogMark(s)>>_vars => Free' /\ (Mine => ~Good(s, t)')
  <2> SUFFICES ASSUME TypeInv, SensorWatchdogMark(s)
               PROVE  Free' /\ (Mine => ~Good(s, t)')
    OBVIOUS
  <2>1. Free'
    BY DEF SensorWatchdogMark, TypeInv, TypeOK
  <2>2. ASSUME Mine PROVE ~Good(s, t)'
    <3>1. sensorStore \in [Sensor -> [Type -> Entry]]
      BY DEF TypeInv, TypeOK
    <3>2. sensorStore' = [sensorStore EXCEPT ![s][t].quality = "Poor"]
      BY <2>2 DEF SensorWatchdogMark
    <3>3. sensorStore'[s][t].quality = "Poor"
      BY <3>1, <3>2, FieldValues, EntryExcept
    <3> QED
      BY <3>3 DEF Good
  <2> QED
    BY <2>1, <2>2
<1>6. TypeInv /\ [Next]_vars /\ Mine => Mine' \/ ~Good(s, t)'
  <2> SUFFICES ASSUME TypeInv, [Next]_vars, Mine, ~Mine' PROVE ~Good(s, t)'
    OBVIOUS
  <2>1. SensorWatchdogMark(s)
    BY MarkStays
  <2>2. sensorStore \in [Sensor -> [Type -> Entry]]
    BY DEF TypeInv, TypeOK
  <2>3. sensorStore' = [sensorStore EXCEPT ![s][t].quality = "Poor"]
    BY <2>1 DEF SensorWatchdogMark
  <2>4. sensorStore'[s][t].quality = "Poor"
    BY <2>2, <2>3, FieldValues, EntryExcept
  <2> QED
    BY <2>4 DEF Good
<1>7. TypeInv /\ <<SensorWatchdogTest(s, t)>>_vars => Mine'
  BY DEF SensorWatchdogTest, TypeInv, TypeOK
<1>8. StorageGuards =>
        /\ up /\ ~Free => ENABLED <<SensorWatchdogMark(s)>>_vars
        /\ up /\ Free /\ Good(s, t) /\ Old(s, t) => ENABLED <<SensorWatchdogTest(s, t)>>_vars
  <2>1. ~Free => doomed[s] # NoType
    OBVIOUS
  <2>2. Good(s, t) /\ Old(s, t) =>
          sensorStore[s][t].quality # "None" /\ sensorStore[s][t].age > SensorTimeout
    BY ConstantsAssumption DEF Good, Old
  <2> QED
    BY <2>1, <2>2, GuardsOfPair, PTL DEF PairGuards
<1>9. Mine => ~Free
  BY ConstantsAssumption
<1> HIDE DEF Free, Mine
<1>10. FairSpec /\ []StorageGuards /\ []up => []<>Free
  BY <1>1, <1>2, <1>5, <1>8, PTL
<1>11. FairSpec /\ []StorageGuards /\ []up => []~[]Mine
  BY <1>1, <1>2, <1>5, <1>8, <1>9, PTL
<1>12. FairSpec /\ []StorageGuards /\ []up => []([]Old(s, t) /\ []Good(s, t) => <>Mine)
  BY <1>1, <1>2, <1>7, <1>8, <1>10, PTL
<1>13. FairSpec /\ []StorageGuards /\ []up => ([]Old(s, t) ~> ~Good(s, t))
  BY <1>1, <1>6, <1>11, <1>12, PTL
<1> QED
  BY <1>1, <1>3, <1>4, <1>13, PTL

\* No poll takes a parameter that is not Good for Good, once the one under way is over.
LEMMA TakingEnds ==
    ASSUME NEW s \in Sensor, NEW t \in Type
    PROVE  FairSpec /\ []StorageGuards /\ []up => ([]~Good(s, t) ~> []~Taking(s, t))
<1> DEFINE Free == copying = NoType
<1>1. FairSpec => []TypeInv /\ [][Next]_vars
  BY TypeInvariant, PTL DEF FairSpec, Spec
<1>2. TypeInv /\ [Next]_vars /\ ~Good(s, t) /\ ~Taking(s, t) => ~Taking(s, t)'
  <2> SUFFICES ASSUME TypeInv, [Next]_vars, ~Good(s, t), ~Taking(s, t)
               PROVE  ~Taking(s, t)'
    OBVIOUS
  <2>n. t # NoType
    BY ConstantsAssumption
  <2>1. ASSUME NEW u \in Type, PollElect(u) PROVE ~Taking(s, t)'
    BY <2>1 DEF PollElect, Taking, Good
  <2>2. CASE PollCopy
    BY <2>n, <2>2 DEF PollCopy, Taking
  <2>3. CASE PollExtract
    BY <2>n, <2>3 DEF PollExtract, Taking
  <2>4. CASE PollPublish
    BY <2>n, <2>4 DEF PollPublish, Taking
  <2>5. ASSUME UNCHANGED pollVars PROVE ~Taking(s, t)'
    BY <2>5 DEF pollVars, Taking
  <2>6. CASE PollRead
    BY <2>6 DEF PollRead, Taking, Good
  <2> QED
    BY <2>1, <2>2, <2>3, <2>4, <2>5, <2>6
       DEF Next, vars, pollVars, ParserUpdateBegin, ParserUpdateEnd, SensorWatchdogTest,
           SensorWatchdogMark, PollCrash, GlobalWatchdog, AssignMasterSource, Tick
<1>3. FairSpec /\ []StorageGuards => ([]up => []<>Free)
  BY StorageComesFree
<1>4. Free => ~Taking(s, t)
  BY ConstantsAssumption DEF Taking
<1> HIDE DEF Free
<1> QED
  BY <1>1, <1>2, <1>3, <1>4, PTL

\* The copy of a parameter that stays old, and that no poll takes for Good, loses its quality
\* to the global watchdog, and no poll gives it back.
LEMMA CopyIsMarked ==
    ASSUME NEW s \in Sensor, NEW t \in Type
    PROVE  FairSpec /\ []StorageGuards /\ []up =>
             ([]Old(s, t) /\ []~Good(s, t) /\ []~Taking(s, t) ~> []~Held(s, t))
<1> DEFINE Free == copying = NoType
           Lost == ~Good(s, t) /\ ~Taking(s, t)
<1>1. FairSpec => []TypeInv /\ []CopyNotYounger /\ [][Next]_vars
  BY TypeInvariant, CopyNeverYounger, PTL DEF FairSpec, Spec
<1>2. TypeInv /\ [Next]_vars /\ Lost /\ ~Held(s, t) => ~Held(s, t)'
  <2> SUFFICES ASSUME TypeInv, [Next]_vars, ~Good(s, t), ~Taking(s, t), ~Held(s, t)
               PROVE  ~Held(s, t)'
    OBVIOUS
  <2>c. globalStore[t][s] \in Entry
    BY DEF TypeInv, TypeOK
  <2>1. CASE PollCopy
    <3>1. PICK q \in {seen, sensorStore[polled][copying].quality} :
            globalStore' = [globalStore EXCEPT ![copying][polled] =
                              [quality |-> q, age |-> sensorStore[polled][copying].age]]
      BY <2>1 DEF PollCopy
    <3>2. copying \in Type /\ polled \in Sensor
      BY <2>1 DEF PollCopy, TypeInv, TypeOK, PollInv
    <3>3. CASE copying = t /\ polled = s
      <4>1. q # "Good"
        BY <3>1, <3>3 DEF Good, Taking
      <4>2. globalStore'[t][s].quality = q
        BY <3>1, <3>2, <3>3 DEF TypeInv, TypeOK
      <4> QED
        BY <4>1, <4>2 DEF Held
    <3>4. CASE ~(copying = t /\ polled = s)
      <4>1. globalStore'[t][s] = globalStore[t][s]
        BY <3>1, <3>2, <3>4 DEF TypeInv, TypeOK
      <4> QED
        BY <4>1 DEF Held
    <3> QED
      BY <3>3, <3>4
  <2>2. CASE GlobalWatchdog
    <3>1. globalStore'[t][s] = Watched(globalStore[t][s])
      BY <2>2 DEF GlobalWatchdog
    <3> QED
      BY <2>c, <3>1, WatchedType DEF Held
  <2>3. CASE Tick
    <3>1. globalStore'[t][s] = Older(globalStore[t][s])
      BY <2>3 DEF Tick
    <3> QED
      BY <2>c, <3>1, OlderType DEF Held
  <2>4. ASSUME UNCHANGED globalStore PROVE ~Held(s, t)'
    BY <2>4 DEF Held
  <2> QED
    BY <2>1, <2>2, <2>3, <2>4
       DEF Next, vars, storeVars, ParserUpdateBegin, ParserUpdateEnd, SensorWatchdogTest,
           SensorWatchdogMark, PollExtract, PollElect, PollCrash, PollRead, PollPublish,
           AssignMasterSource
<1>3. TypeInv /\ CopyNotYounger /\ Old(s, t) => globalStore[t][s].age > GlobalTimeout
  <2> SUFFICES ASSUME TypeInv, CopyNotYounger, Old(s, t)
               PROVE  globalStore[t][s].age > GlobalTimeout
    OBVIOUS
  <2>1. globalStore[t][s].age >= MaxAge
    BY DEF CopyNotYounger, Old
  <2>2. globalStore[t][s].age \in 0..MaxAge
    BY DEF TypeInv, TypeOK, Entry
  <2> QED
    BY <2>1, <2>2, ConstantsAssumption
<1>4. TypeInv /\ CopyNotYounger /\ Old(s, t) /\ <<GlobalWatchdog>>_vars => ~Held(s, t)'
  <2> SUFFICES ASSUME TypeInv, CopyNotYounger, Old(s, t), GlobalWatchdog
               PROVE  ~Held(s, t)'
    OBVIOUS
  <2>1. /\ globalStore'[t][s] = Watched(globalStore[t][s])
        /\ globalStore[t][s] \in Entry
    BY DEF GlobalWatchdog, TypeInv, TypeOK
  <2>2. Watched(globalStore[t][s]).quality # "Good"
    <3>1. CASE globalStore[t][s].quality = "None"
      BY <2>1, <3>1 DEF Watched
    <3>2. CASE globalStore[t][s].quality # "None"
      <4>1. Watched(globalStore[t][s]) = [globalStore[t][s] EXCEPT !.quality = "Poor"]
        BY <1>3, <3>2 DEF Watched
      <4> QED
        BY <2>1, <4>1, FieldValues, EntryExcept
    <3> QED
      BY <3>1, <3>2
  <2> QED
    BY <2>1, <2>2 DEF Held
<1>5. TypeInv /\ CopyNotYounger /\ Old(s, t) /\ StorageGuards =>
        (up /\ Free /\ Held(s, t) => ENABLED <<GlobalWatchdog>>_vars)
  <2>1. TypeInv /\ CopyNotYounger /\ Old(s, t) /\ Held(s, t) => WatchdogChanges(s, t)
    BY <1>3 DEF Held, WatchdogChanges
  <2> QED
    BY <2>1, GuardsOfPair, PTL DEF PairGuards
<1>6. FairSpec => SF_vars(GlobalWatchdog)
  BY Fair, PTL
<1>7. FairSpec /\ []StorageGuards => ([]up => []<>Free)
  BY StorageComesFree
<1>8. Lost <=> ~Good(s, t) /\ ~Taking(s, t)
  OBVIOUS
<1> HIDE DEF Free, Lost
<1>9. FairSpec /\ []StorageGuards /\ []up => ([]Old(s, t) /\ []Lost ~> ~Held(s, t))
  BY <1>1, <1>4, <1>5, <1>6, <1>7, PTL
<1> QED
  BY <1>1, <1>2, <1>8, <1>9, PTL

\* A parameter a sensor has stopped delivering is in the end no longer broadcast, however its
\* last deliveries, the unlocked watchdog and the unlocked copies of the polls interleave, as
\* long as the polls go on.
THEOREM SilentDropped == FairSpec /\ []StorageGuards /\ PollsGoOn => SilentSourceDropped
<1> SUFFICES ASSUME NEW s \in Sensor, NEW t \in Type
             PROVE  FairSpec /\ []StorageGuards /\ PollsGoOn =>
                      (<>[](sensorStore[s][t].age = MaxAge) => <>[]~Broadcast(s, t))
  BY DEF SilentSourceDropped
<1>1. FairSpec => [][Next]_vars
  BY PTL DEF FairSpec, Spec
<1>2. FairSpec /\ PollsGoOn => []up
  <2>1. <<PollPublish>>_vars => up
    BY DEF PollPublish
  <2>2. [Next]_vars => (~up => ~up')
    BY DEF Next, vars, ParserUpdateBegin, ParserUpdateEnd, SensorWatchdogTest,
           SensorWatchdogMark, PollExtract, PollElect, PollCrash, PollRead, PollCopy, PollPublish,
           GlobalWatchdog, AssignMasterSource, Tick
  <2> QED
    BY <1>1, <2>1, <2>2, PTL DEF PollsGoOn
<1>3. <<PollPublish>>_vars => (~Held(s, t) => ~Broadcast(s, t)')
  BY DEF PollPublish, Extracted, GoodIn, Held, Broadcast
<1>4. [Next]_vars => (~Held(s, t) /\ ~Broadcast(s, t) => ~Broadcast(s, t)')
  <2> SUFFICES ASSUME [Next]_vars, ~Held(s, t), ~Broadcast(s, t)
               PROVE  ~Broadcast(s, t)'
    OBVIOUS
  <2>1. CASE PollPublish
    BY <2>1 DEF PollPublish, Extracted, GoodIn, Held, Broadcast
  <2>2. ASSUME UNCHANGED published PROVE ~Broadcast(s, t)'
    BY <2>2 DEF Broadcast
  <2> QED
    BY <2>1, <2>2
       DEF Next, vars, netVars, ParserUpdateBegin, ParserUpdateEnd, SensorWatchdogTest,
           SensorWatchdogMark, PollExtract, PollElect, PollCrash, PollRead, PollCopy,
           GlobalWatchdog, AssignMasterSource, Tick
<1>5. FairSpec /\ []StorageGuards /\ []up => ([]Old(s, t) ~> []~Good(s, t))
  BY OldIsMarked
<1>6. FairSpec /\ []StorageGuards /\ []up => ([]~Good(s, t) ~> []~Taking(s, t))
  BY TakingEnds
<1>7. FairSpec /\ []StorageGuards /\ []up =>
        ([]Old(s, t) /\ []~Good(s, t) /\ []~Taking(s, t) ~> []~Held(s, t))
  BY CopyIsMarked
<1>8. FairSpec /\ []StorageGuards /\ []up => (<>[]Old(s, t) => <>[]~Held(s, t))
  BY <1>5, <1>6, <1>7, PTL
<1>9. FairSpec /\ PollsGoOn => (<>[]~Held(s, t) => <>[]~Broadcast(s, t))
  BY <1>1, <1>3, <1>4, PTL DEF PollsGoOn
<1>10. FairSpec /\ []StorageGuards /\ PollsGoOn => (<>[]Old(s, t) => <>[]~Broadcast(s, t))
  BY <1>2, <1>8, <1>9, PTL
<1>11. Old(s, t) <=> sensorStore[s][t].age = MaxAge
  BY DEF Old
<1> QED
  BY <1>10, <1>11, PTL

=============================================================================
