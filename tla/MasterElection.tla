--------------------------- MODULE MasterElection ---------------------------
(***************************************************************************)
(* What the global storage promises about master sources, without sensors, *)
(* clocks, polls or races: sources report each parameter type as Good or   *)
(* not, one of them may be the type's master, and broadcasts carry the     *)
(* Good sources and say which is the master. DataStorage implements this.  *)
(***************************************************************************)
EXTENDS Naturals

CONSTANTS
    Source,          \* the sensors
    Type,            \* the parameter types
    AlwaysSelected,  \* types all of whose sources count as masters
    NoMaster,        \* no source
    NoType           \* no type

VARIABLES
    good,       \* good[t]: the sources whose last report of t was Good
    master,     \* master[t]: the source in charge of t
    reporting,  \* the type being reported on, one report at a time
    reporter,   \* the source that reports
    published   \* the items of the last broadcast

electionVars == <<good, master, reporting, reporter, published>>

Init ==
    /\ good = [t \in Type |-> {}]
    /\ master = [t \in Type |-> NoMaster]
    /\ reporting = NoType
    /\ reporter = NoMaster
    /\ published = {}

\* A source starts to report on t, and becomes the master only where there is none, or
\* none that is Good. It need not become one.
Elect(s, t) ==
    /\ reporting = NoType
    /\ reporting' = t
    /\ reporter' = s
    /\ \/ master' = master
       \/ /\ master[t] = NoMaster \/ master[t] \notin good[t]
          /\ master' = [master EXCEPT ![t] = s]
    /\ UNCHANGED <<good, published>>

\* The storage takes over that source's verdict on its parameter.
Report ==
    /\ reporting # NoType
    /\ \/ good' = [good EXCEPT ![reporting] = @ \union {reporter}]
       \/ good' = [good EXCEPT ![reporting] = @ \ {reporter}]
    /\ reporting' = NoType
    /\ reporter' = NoMaster
    /\ UNCHANGED <<master, published>>

\* Sources are found too old: they are no longer Good, and a master among them
\* loses its post, as does one that was not Good before. No other master does.
Expire ==
    /\ reporting = NoType
    /\ \E old \in [Type -> SUBSET Source] :
         /\ good' = [t \in Type |-> good[t] \ old[t]]
         /\ master' \in [Type -> Source \union {NoMaster}]
         /\ \A t \in Type :
              /\ master'[t] \in {master[t], NoMaster}
              /\ master[t] \in old[t] => master'[t] = NoMaster
              /\ master[t] \in good'[t] => master'[t] = master[t]
    /\ UNCHANGED <<reporting, reporter, published>>

\* The operator's choice, whatever the state of the source.
Select(s, t) ==
    /\ reporting = NoType
    /\ master' = [master EXCEPT ![t] = s]
    /\ UNCHANGED <<good, reporting, reporter, published>>

\* A broadcast: exactly the Good sources, each with its claim to mastership.
Publish ==
    /\ reporting = NoType
    /\ published' = {i \in [type : Type, sensor : Source, master : BOOLEAN] :
                       /\ i.sensor \in good[i.type]
                       /\ i.master <=> (i.type \in AlwaysSelected
                                          \/ master[i.type] = i.sensor)}
    /\ UNCHANGED <<good, master, reporting, reporter>>

Next ==
    \/ \E s \in Source, t \in Type : Elect(s, t) \/ Select(s, t)
    \/ Report
    \/ Expire
    \/ Publish

Spec == Init /\ [][Next]_electionVars

=============================================================================
