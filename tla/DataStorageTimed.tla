-------------------------- MODULE DataStorageTimed --------------------------
(***************************************************************************)
(* DataStorage with the pace of its threads: processedDataSenderProc and   *)
(* the sensors' watchdogs sleep one second between passes, so a pass comes *)
(* every second or, when the sleeps drift, every other one, and a steady   *)
(* source repeats each of its sentences within MaxSilence seconds. This is *)
(* what the bounds on stale data and on mastership rest on.                *)
(***************************************************************************)
EXTENDS DataStorage

CONSTANTS
    Steady,       \* the sensors that never fall silent once they delivered
    MaxSilence,   \* seconds between two deliveries of a steady sensor
    PollPeriod,   \* seconds between two polls
    WatchPeriod   \* seconds between two passes of a sensor's watchdog

ASSUME PaceAssumption ==
    /\ Steady \subseteq Sensor
    /\ MaxSilence \in Nat \ {0}
    /\ PollPeriod \in Nat \ {0}
    /\ WatchPeriod \in Nat \ {0}

\* What a steady source's mastership rests on: no command but the UI's, and its silence,
\* with two polls between, is no reason for a watchdog to give it up.
Paced ==
    /\ TrustedUI
    /\ MaxSilence <= SensorTimeout
    /\ MaxSilence + 2 * PollPeriod <= GlobalTimeout

VARIABLES
    sincePoll,   \* seconds since the last broadcast
    sinceWatch,  \* sinceWatch[s]: seconds since s's watchdog ended a pass
    raced,       \* sensors hit by a race of the unlocked reads (history)
    masterless   \* consecutive broadcasts of a type with no master, though its first
                 \*   source is a standing one, as far as the operator let it be (history)

paceVars  == <<sincePoll, sinceWatch>>
timedVars == <<vars, sincePoll, sinceWatch, raced, masterless>>

TimedTypeOK ==
    /\ TypeOK
    /\ sincePoll \in 0..PollPeriod
    /\ sinceWatch \in [Sensor -> 0..WatchPeriod]
    /\ raced \in SUBSET Sensor
    /\ masterless \in [Type -> 0..2]

TimedInit ==
    /\ Init
    /\ sincePoll = 0
    /\ sinceWatch = [s \in Sensor |-> 0]
    /\ raced = {}
    /\ masterless = [t \in Type |-> 0]

-----------------------------------------------------------------------------

\* Expired s's parameters that are still called Good.
Overdue(s) == {t \in Type : /\ sensorStore[s][t].quality = "Good"
                            /\ sensorStore[s][t].age > SensorTimeout}

\* The watchdog of s has visited every parameter.
SensorWatchdogPassEnds(s) ==
    /\ up
    /\ doomed[s] = NoType
    /\ Overdue(s) = {}
    /\ sinceWatch' = [sinceWatch EXCEPT ![s] = 0]
    /\ UNCHANGED <<vars, sincePoll, raced, masterless>>

\* A second passes, if no thread is late and no steady source silent.
TimedTick ==
    /\ Tick
    /\ sincePoll < PollPeriod
    /\ \A s \in Sensor : sinceWatch[s] < WatchPeriod
    /\ \A s \in Steady : \A t \in Present(s) : sensorStore[s][t].age < MaxSilence
    /\ sincePoll' = sincePoll + 1
    /\ sinceWatch' = [s \in Sensor |-> sinceWatch[s] + 1]
    /\ UNCHANGED <<raced, masterless>>

\* A mark that hits a parameter refreshed since the test.
TimedMark(s) ==
    /\ SensorWatchdogMark(s)
    /\ raced' = IF sensorStore[s][doomed[s]].age <= SensorTimeout
                  THEN raced \union {s} ELSE raced
    /\ UNCHANGED <<paceVars, masterless>>

\* A copy taken between the quality and the updateTime of an assignment.
TimedCopy ==
    /\ PollCopy
    /\ raced' = IF writing[polled] = copying THEN raced \union {polled} ELSE raced
    /\ UNCHANGED <<paceVars, masterless>>

\* A steady sensor whose t was broadcast before is again, and no source of t is polled
\* before it.
Standing(s, t) ==
    /\ s \in Steady
    /\ <<s, t>> \in offered
    /\ globalStore[t][s].quality = "Good"
    /\ \A lower \in 1..s - 1 : globalStore[t][lower].quality = "None"

TimedPublish ==
    /\ PollPublish
    /\ sincePoll' = 0
    /\ masterless' = [t \in Type |->
         IF /\ \E s \in Steady : Standing(s, t)
            /\ ~\E i \in published' : i.type = t /\ i.master
           THEN IF masterless[t] < 2 THEN masterless[t] + 1 ELSE 2
           ELSE 0]
    /\ UNCHANGED <<sinceWatch, raced>>

TimedAssignMaster(s, t) ==
    /\ AssignMasterSource(s, t)
    /\ masterless' = [masterless EXCEPT ![t] = 0]
    /\ UNCHANGED <<paceVars, raced>>

TimedNext ==
    \/ \E s \in Sensor, t \in Type : TimedAssignMaster(s, t)
    \/ \E s \in Sensor : SensorWatchdogPassEnds(s) \/ TimedMark(s)
    \/ TimedTick
    \/ TimedCopy
    \/ TimedPublish
    \/ /\ \/ \E s \in Sensor, t \in Type :
               ParserUpdateBegin(s, t) \/ SensorWatchdogTest(s, t)
          \/ \E s \in Sensor : ParserUpdateEnd(s)
          \/ PollExtract \/ PollRead
          \/ \E t \in Type : PollElect(t) \/ PollCrash(t)
          \/ GlobalWatchdog
       /\ UNCHANGED <<paceVars, raced, masterless>>

TimedSpec == TimedInit /\ [][TimedNext]_timedVars

-----------------------------------------------------------------------------
(* Properties *)

\* The copy that is broadcast as Good is at most SensorTimeout seconds old, give or take
\* the periods of the threads: not GlobalTimeout, since every poll overwrites the global
\* watchdog's verdict, and not more if the sensor has delivered since the poll copied. A
\* racing assignment of that sensor is the only exception.
BroadcastAgeBound ==
    [][\A i \in published' :
         polled # 0 /\ polled' = 0 /\ i.sensor \notin raced
           => globalStore[i.type][i.sensor].age <= SensorTimeout + WatchPeriod + PollPeriod]_timedVars

\* A steady source keeps a mastership it has: neither the global watchdog nor a poll
\* takes it, only the operator does, or a mark that raced its sensor's deliveries.
SteadyMasterKept ==
    [][\A t \in Type, s \in Steady :
         master[t] = s /\ (master'[t] = NoMaster \/ copying' = t)
           => master'[t] = s \/ s \in raced]_timedVars

\* As long as the source of a type that is polled first delivers steadily, at most one
\* broadcast in a row lacks a master: the poll that finds the old master Poor has passed
\* that source already, the next one comes to it first. A steady source that is polled
\* after others has no such bound: one of them that has fallen silent is taken in every
\* poll, and disregarded after it, as long as its age lies between the two timeouts.
MasterlessAtMostOnce ==
    raced = {} => \A t \in Type : masterless[t] <= 1

=============================================================================
