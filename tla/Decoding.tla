------------------------------ MODULE Decoding ------------------------------
(***************************************************************************)
(* A sensor is what is behind its port: an AIS transponder, whose messages *)
(* go into the target of a ship, or a device with sentences of its own.    *)
(* TextSensor::extractData serves both with the same parsers.              *)
(***************************************************************************)
EXTENDS AISPayload, NmeaParsers

CONSTANT Devices    \* the devices, each the set of sentence types it sends

ASSUME DevicesAssumption == \A d \in Devices : d \subseteq NmeaTypes \union {"VDM"}

VARIABLE device

sensorVars == <<targetVars, nmeaVars, device>>

SensorInit ==
    /\ TargetInit
    /\ NmeaInit
    /\ device \in Devices

\* VDM is the type of the sentences that carry AIS messages.
AISMessage ==
    /\ "VDM" \in device
    /\ Message
    /\ UNCHANGED <<nmeaVars, device>>

NmeaSentence ==
    /\ \/ \E type \in device \ {"VDM"} : \E s \in SentencesOf(type) : Sentence(s)
       \/ UpdateData
    /\ UNCHANGED <<targetVars, device>>

SensorSpec == SensorInit /\ [][AISMessage \/ NmeaSentence]_sensorVars

=============================================================================
