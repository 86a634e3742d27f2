------------------------------ MODULE Display -------------------------------
(***************************************************************************)
(* The operator's main window: the tree of parameters with the masters     *)
(* marked, the list of the simple protocol and the list of AIS targets,    *)
(* each filled from datagrams the daemon broadcasts on a port of its own   *)
(* and drawn by the window's timers.                                       *)
(*                                                                         *)
(* A broadcast carries what MasterElection's Publish allows: Good sources, *)
(* of which at most one per type is the master. A datagram arrives in the  *)
(* second it is sent or is lost, and the daemon may die and come back at   *)
(* any time; its sender sleeps for a second between two broadcasts. The    *)
(* three views share nothing but the window's timer, so a behaviour        *)
(* follows the traffic on one port.                                        *)
(***************************************************************************)
EXTENDS Integers, FiniteSetsExt, SequencesExt

CONSTANTS
    Traffics,        \* a port, the slots (type and source) and the ships it is about
    AlwaysSelected,  \* types all of whose sources count as masters
    Positions,       \* types the simple protocol sends as a latitude and a longitude
    Timeout,         \* PARAM_TIMEOUT
    Period,          \* DEAD_ELIM_PERIOD
    ListTimeout,     \* how old a target of the list may become (120 s)
    WatchPeriod,     \* of TIMER_WATCHDOG (5 s)
    MaxAge           \* bound: seconds are counted up to here

ASSUME DisplayAssumption ==
    /\ \A t \in Traffics : /\ t.slots \subseteq Int \X Int
                          /\ IsFiniteSet(t.slots)
    /\ {Timeout, Period, ListTimeout, WatchPeriod, MaxAge} \subseteq Nat
    /\ MaxAge > Timeout + Period + 1
    /\ MaxAge > ListTimeout + WatchPeriod + 1

VARIABLES
    traffic,   \* the port that is followed
    sent,      \* processed data was broadcast in this second
    known,     \* slots the running daemon has broadcast as processed data (history)
    uptime,    \* seconds since the daemon started
    tree,      \* params: by slot, whether marked, whether drawn, seconds since updateTime
    checked,   \* seconds since lastDeadsCheck
    buffer,    \* SimpleProtoBuffer: the items, each with the seconds since it was received
    items,     \* its numOfItems
    received,  \* seconds since lastUpdate
    rows,      \* rows drawn in the list of the simple protocol
    ships,     \* the targets the daemon's table holds
    targets,   \* the window's targets, with the seconds since their time
    listed,    \* those drawn in the list
    watched,   \* seconds since TIMER_WATCHDOG
    heard,     \* by ship, seconds since a record of it arrived (history)
    gone,      \* by ship, seconds since the daemon's table held it (history)
    due        \* TIMER_STATE_UPDATE has not run in this second

treeVars == <<tree, checked>>
listVars == <<buffer, items, received, rows>>
aisVars  == <<targets, listed, watched, heard>>
vars     == <<traffic, sent, known, uptime, treeVars, listVars, ships, aisVars, gone, due>>

Unwritten == [item |-> <<>>, age |-> MaxAge]

Init ==
    /\ traffic \in Traffics
    /\ sent = FALSE /\ known = {} /\ uptime = 0
    /\ tree = [slot \in {} |-> 0] /\ checked = MaxAge
    /\ buffer = <<Unwritten>> /\ items = 0 /\ received = MaxAge /\ rows = <<>>
    /\ ships = {}
    /\ targets = [s \in {} |-> 0] /\ listed = {} /\ watched = 0
    /\ heard = [s \in traffic.ships |-> MaxAge] /\ gone = heard
    /\ due = FALSE

TypeOf(slot) == slot[1]
OfType(t)    == {slot \in DOMAIN tree : TypeOf(slot) = t}

-----------------------------------------------------------------------------
(* The broadcasts of processed data *)

\* The tree's updateData, for each parameter of a datagram: unmarked but for the masters.
UpdateData(good, masters) ==
    tree' = [slot \in DOMAIN tree \union good |->
                IF slot \in good
                THEN [master |-> slot \in masters, age |-> 0,
                      drawn |-> slot \in DOMAIN tree /\ tree[slot].drawn]
                ELSE tree[slot]]

ProcessedData(good, masters) ==
    /\ traffic.port = "ProcessedDataPort"
    /\ ~sent
    /\ sent' = TRUE
    /\ good # {}
    /\ known' = known \union good
    /\ UpdateData(good, masters) \/ UNCHANGED tree
    /\ UNCHANGED <<traffic, uptime, checked, listVars, ships, aisVars, gone, due>>

\* addData of a storage's parameters: the first of each type, which is that of the lowest
\* sensor and not of the master; a position becomes two items.
First(good, t) == Min({slot[2] : slot \in {g \in good : TypeOf(g) = t}})

ItemsOf(good, t) ==
    {<<t, First(good, t), part>> : part \in IF t \in Positions THEN {"Lat", "Lon"} ELSE {""}}

\* By type, the latitude before the longitude.
Before(a, b) == a[1] < b[1] \/ (a[1] = b[1] /\ a[3] = "Lat" /\ b[3] = "Lon")

Packet(good) ==
    LET all == UNION {ItemsOf(good, TypeOf(slot)) : slot \in good}
    IN  [i \in 1..Cardinality(all) |->
            CHOOSE item \in all : Cardinality({other \in all : Before(other, item)}) = i - 1]

\* Mutant: one item more.
NumOfItemsTwoMore(packet) == Len(packet) + 2

\* The size of a pointer is taken for that of the packet: one item too many.
NumOfItems(packet) == Len(packet) + 1

\* fromBuffer: the datagram lies over what is in the buffer.
SimpleProto(good) ==
    /\ traffic.port = "SimpleProtocolPort"
    /\ ~sent
    /\ sent' = TRUE
    /\ LET packet == [i \in DOMAIN Packet(good) |-> [item |-> Packet(good)[i], age |-> 0]]
           over == [i \in 1..NumOfItems(packet) |->
                       CASE i \in DOMAIN packet -> packet[i]
                         [] i \in DOMAIN buffer \ DOMAIN packet -> buffer[i]
                         [] OTHER -> Unwritten]
       IN  \/ UNCHANGED listVars
           \/ /\ buffer' = over \o SubSeq(buffer, Len(over) + 1, Len(buffer))
              /\ items' = NumOfItems(packet)
              /\ received' = 0
              /\ UNCHANGED rows
    /\ UNCHANGED <<traffic, known, uptime, treeVars, ships, aisVars, gone, due>>

-----------------------------------------------------------------------------
(* The broadcasts of AIS targets *)

\* The daemon's table: a ship is added or erased.
TableChanges(now) ==
    /\ traffic.port = "AISTargetPort"
    /\ ships' = now
    /\ gone' = [s \in DOMAIN gone |-> IF s \in now \union ships THEN 0 ELSE gone[s]]
    /\ UNCHANGED <<traffic, sent, known, uptime, treeVars, listVars, aisVars, due>>

Stamped(got) == [s \in DOMAIN targets \union got |-> IF s \in got THEN 0 ELSE targets[s]]

\* Mutant: static data does not stamp a target that is there.
UpdateStaticIfNew(got) ==
    targets' = [s \in DOMAIN targets \union got |-> IF s \in DOMAIN targets THEN targets[s] ELSE 0]

UpdateDynamic(got) == targets' = Stamped(got)
UpdateStatic(got) == targets' = Stamped(got)

\* A table goes out in several datagrams, of which some arrive.
AISTargets(got) ==
    /\ traffic.port = "AISTargetPort"
    /\ got # {}
    /\ UpdateDynamic(got) \/ UpdateStatic(got)
    /\ heard' = [s \in DOMAIN heard |-> IF s \in got THEN 0 ELSE heard[s]]
    /\ UNCHANGED <<traffic, sent, known, uptime, treeVars, listVars, ships, listed, watched, gone, due>>

Restart ==
    /\ known' = {} /\ uptime' = 0 /\ ships' = {}
    /\ UNCHANGED <<traffic, sent, treeVars, listVars, aisVars, gone, due>>

-----------------------------------------------------------------------------
(* The timers *)

Alive == {slot \in DOMAIN tree : tree[slot].age <= Timeout}

Masterless(t) ==
    /\ \E slot \in OfType(t) \ Alive : tree[slot].master
    /\ \A slot \in OfType(t) \intersect Alive : ~tree[slot].master

\* Mutant: without a break all of them are marked.
Appointed(slot) == Masterless(TypeOf(slot))

\* A type whose mark was erased and that has no other: its first source is marked.
AppointedFirst(slot) ==
    /\ Masterless(TypeOf(slot))
    /\ \A other \in OfType(TypeOf(slot)) \intersect Alive : slot[2] <= other[2]

\* Mutant: only masters die.
EliminateMasters ==
    [slot \in Alive \union {dead \in DOMAIN tree : ~tree[dead].master}
        |-> [tree[slot] EXCEPT !.master = @ \/ AppointedFirst(slot)]]

EliminateDeads ==
    [slot \in Alive |-> [tree[slot] EXCEPT !.master = @ \/ AppointedFirst(slot)]]

Drawn(params) == [slot \in DOMAIN params |-> [params[slot] EXCEPT !.drawn = TRUE]]

UpdateTree ==
    IF checked > Period
    THEN checked' = 0 /\ tree' = Drawn(EliminateDeads)
    ELSE tree' = Drawn(tree) /\ UNCHANGED checked

UpdateSimpleList == rows' = IF received > Timeout THEN <<>> ELSE SubSeq(buffer, 1, items)

\* OnTimer of TIMER_STATE_UPDATE.
StateUpdate ==
    /\ due
    /\ due' = FALSE
    /\ UpdateTree
    /\ listed' = DOMAIN targets
    /\ UpdateSimpleList
    /\ UNCHANGED <<traffic, sent, known, uptime, buffer, items, received, ships, targets, watched,
                   heard, gone>>

\* OnTimer of TIMER_WATCHDOG and the thread it starts.
RemoveDeads ==
    /\ watched >= WatchPeriod
    /\ watched' = 0
    /\ targets' = [s \in {s \in DOMAIN targets : targets[s] <= ListTimeout} |-> targets[s]]
    /\ UNCHANGED <<traffic, sent, known, uptime, treeVars, listVars, ships, listed, heard, gone, due>>

Older(n) == IF n < MaxAge THEN n + 1 ELSE n
OlderItems(list) == [i \in DOMAIN list |-> [list[i] EXCEPT !.age = Older(@)]]

\* A second passes, for what is fed from the port; the timers that are due have run.
For(port, n) == IF traffic.port = port THEN Older(n) ELSE n

Tick ==
    /\ ~due /\ watched < WatchPeriod
    /\ due' = TRUE
    /\ sent' = FALSE
    /\ uptime' = For("ProcessedDataPort", uptime)
    /\ tree' = [slot \in DOMAIN tree |-> [tree[slot] EXCEPT !.age = Older(@)]]
    /\ checked' = For("ProcessedDataPort", checked)
    /\ buffer' = OlderItems(buffer) /\ rows' = OlderItems(rows)
    /\ received' = For("SimpleProtocolPort", received)
    /\ targets' = [s \in DOMAIN targets |-> Older(targets[s])]
    /\ watched' = For("AISTargetPort", watched)
    /\ heard' = [s \in DOMAIN heard |-> Older(heard[s])]
    /\ gone' = [s \in DOMAIN gone |-> IF s \in ships THEN 0 ELSE Older(gone[s])]
    /\ UNCHANGED <<traffic, known, items, ships, listed>>

\* The masters of a broadcast.
MastersOf(good) ==
    {masters \in SUBSET good :
        \A slot \in good :
            IF TypeOf(slot) \in AlwaysSelected THEN slot \in masters
            ELSE Cardinality({m \in masters : TypeOf(m) = TypeOf(slot)}) <= 1}

Next ==
    \/ \E good \in SUBSET traffic.slots :
          \/ \E masters \in MastersOf(good) : ProcessedData(good, masters)
          \/ SimpleProto(good)
    \/ \E now \in SUBSET traffic.ships : TableChanges(now)
    \/ \E got \in SUBSET ships : AISTargets(got)
    \/ Restart
    \/ StateUpdate
    \/ RemoveDeads
    \/ Tick

Spec == Init /\ [][Next]_vars

-----------------------------------------------------------------------------
(* Properties *)

\* A click on the icon of a source sends SelectMasterParam for its slot.
Clickable == {slot \in DOMAIN tree : tree[slot].drawn /\ TypeOf(slot) \notin AlwaysSelected}

\* What the operator can select has been broadcast by the daemon that is running, unless it
\* has started within the life of a row: then a click may name a parameter it never had.
ClickableIsKnown == uptime > Timeout + Period + 1 => Clickable \subseteq known

\* Two sources of a type may be marked as its master at a time, but never with data of the
\* same age: the older mark is one the broadcasts have left behind.
MarksDiffer ==
    \A a, b \in DOMAIN tree :
        /\ a # b /\ TypeOf(a) = TypeOf(b) /\ TypeOf(a) \notin AlwaysSelected
        /\ tree[a].master /\ tree[b].master
        => tree[a].age # tree[b].age

\* Every row of the simple list but the last shows a value received within the timeout;
\* the last one may show what an earlier, longer datagram left, or nothing ever written.
RowsAreRecent == \A i \in DOMAIN rows : i < Len(rows) => rows[i].age <= Timeout + 1

\* The list of targets follows the daemon's table: no ship is drawn long after the table
\* lost it, daemon restarts and lost datagrams included, and none of which a record came
\* within the timeout is missing.
ListFollowsTable ==
    /\ \A s \in listed : gone[s] <= ListTimeout + WatchPeriod + 1
    /\ \A s \in DOMAIN heard : heard[s] <= ListTimeout => s \in DOMAIN targets

=============================================================================
