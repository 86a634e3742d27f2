--------------------------- MODULE AISTargetTable ---------------------------
(***************************************************************************)
(* The table of AIS targets: VDM::parseData puts what a decoded message    *)
(* says of a ship into it, under a filter that limits the number and the   *)
(* range of targets, and a watchdog drops what is older than the timeout.  *)
(*                                                                         *)
(* The table has a mutex. parseData takes it after it has decoded the      *)
(* header and keeps it to its end, so one message at a time is handled,    *)
(* whatever number of sensors deliver; its reads of the own position are   *)
(* apart because the processed data sender, which writes it without the    *)
(* mutex, may come between any two of them. The filter is loaded once: mainProc makes its data *)
(* node without the table, and ReapplyAISFilter follows a null pointer.    *)
(***************************************************************************)
EXTENDS Naturals, Sequences, FiniteSets

CONSTANTS
    Ship,        \* MMSIs, as numbers: the map is ordered by them
    Null,        \* a null mostDistant
    Place,       \* positions a message can carry
    Zero,        \* latitude and longitude 0: what an empty AISTarget holds
    NoPlace,     \* no position in a message; an impossible one for the own ship
    OwnPlace,    \* what the own ship's curPosition may hold
    Distance,    \* calcDistanceRaftly, from a place or from what is none to a place
    Unwritten,   \* what mostDistantRange may hold before it is written
    Filters,     \* what settings.cfg may hold
    Timeout,     \* how old a target may become (60 s)
    MaxAge,      \* bound: ages are counted up to here
    Listened     \* ships whose silence is recorded

\* A Filtering.
Filter == [limitAmount : BOOLEAN, limitRange : BOOLEAN, maxAmount : Nat, maxRange : Nat]

ASSUME ConstantsAssumption ==
    /\ Ship \subseteq Nat
    /\ Null \notin Ship
    /\ Zero \in Place
    /\ NoPlace \notin Place
    /\ OwnPlace \subseteq Place \union {NoPlace}
    /\ Distance \in [(Place \union {NoPlace}) \X Place -> Nat]
    /\ Unwritten \subseteq Nat
    /\ Unwritten # {}
    /\ Filters \subseteq Filter
    /\ Filters # {}
    /\ Timeout \in Nat
    /\ MaxAge \in Nat
    /\ Timeout < MaxAge
    /\ Listened \subseteq Ship

VARIABLES
    table,    \* container: by key, the ship the target names, where it is, and
              \*   how many seconds ago its record was stamped
    filter,   \* filtering
    own,      \* *curPosition
    parser,   \* the thread inside parseData: where it is, its message and its locals
    silent,   \* seconds since a message of the ship was handled with no limit set (history)
    turned,   \* the own position was found and became none before the search that
              \*   followed asked for it again (history of the message)
    up        \* FALSE once a null pointer was followed

vars == <<table, filter, own, parser, silent, turned, up>>

Age    == 0..MaxAge
Record == [ship : Ship, place : Place, age : Age]

\* parseData holds the mutex: where, the message, curRange, mostDistant (as a key),
\* mostDistantRange and, in a search, the own position it began with.
Where == {"unfiltered", "first", "firstLoop", "valid", "second", "secondLoop", "current",
          "range", "amount", "place"}
Busy  == [at : Where, ship : Ship, place : Place \union {NoPlace}, range : Nat,
          most : Ship \union {Null}, mostRange : Nat, from : Place \union {NoPlace}]
Idle == [at |-> "idle"]

TypeOK ==
    /\ DOMAIN table \subseteq Ship
    /\ \A k \in DOMAIN table : table[k] \in Record
    /\ filter \in Filter
    /\ own \in Place \union {NoPlace}
    /\ parser \in Busy \union {Idle}
    /\ silent \in [Listened -> Age]
    /\ turned \in BOOLEAN
    /\ up \in BOOLEAN

Init ==
    /\ table = [k \in {} |-> Null]
    /\ filter \in Filters
    /\ own = NoPlace
    /\ parser = Idle
    /\ silent = [m \in Listened |-> MaxAge]
    /\ turned = FALSE
    /\ up = TRUE

-----------------------------------------------------------------------------
(* The table's operations *)

Size == Cardinality(DOMAIN table)

Older(n) == IF n < MaxAge THEN n + 1 ELSE n

\* parseAIS: a message without a position leaves the one that is there.
Parsed(r, p) == [r EXCEPT !.place = IF p = NoPlace THEN @ ELSE p]

\* Mutant: a known target is not stamped.
AddedUnstamped(m, p) ==
    LET old == IF m \in DOMAIN table THEN table[m] ELSE [ship |-> m, place |-> Zero, age |-> 0]
    IN  [k \in DOMAIN table \union {m} |-> IF k = m THEN Parsed(old, p) ELSE table[k]]

\* checkAddTarget, then parseAIS.
Added(m, p) ==
    LET old == IF m \in DOMAIN table THEN table[m] ELSE [ship |-> m, place |-> Zero]
        new == Parsed([ship |-> old.ship, place |-> old.place, age |-> 0], p)
    IN  [k \in DOMAIN table \union {m} |-> IF k = m THEN new ELSE table[k]]

\* Where the own ship is seen when the loop of findMostDistantTarget comes to a target.
RangeOf(seen, k) == Distance[<<seen[k], table[k].place>>]

\* The first of those farthest away, none when all are here.
IsMostDistant(seen, k) ==
    IF k = Null
      THEN \A j \in DOMAIN table : RangeOf(seen, j) = 0
      ELSE /\ RangeOf(seen, k) > 0
           /\ \A j \in DOMAIN table :
                 /\ RangeOf(seen, j) <= RangeOf(seen, k)
                 /\ RangeOf(seen, j) = RangeOf(seen, k) => k <= j

\* The replacement of the most distant target: its key stays, ship and message change.
Replaced(k, m, p) ==
    [table EXCEPT ![k] = Parsed([ship |-> m, place |-> @.place, age |-> 0], p)]

Heard(m) == silent' = IF m \in Listened THEN [silent EXCEPT ![m] = 0] ELSE silent

-----------------------------------------------------------------------------
(* VDM::parseData *)

Filtered == filter.limitAmount \/ filter.limitRange

Holding(where, m, p, mostRange) ==
    [at |-> where, ship |-> m, place |-> p, range |-> 0, most |-> Null,
     mostRange |-> mostRange, from |-> NoPlace]

\* Line 103 finds no limit: the target will be looked up and stamped, or added.
HearUnfiltered(m, p) ==
    /\ up /\ parser = Idle
    /\ ~Filtered
    /\ parser' = Holding("unfiltered", m, p, 0)
    /\ UNCHANGED <<table, filter, own, silent, turned, up>>

AddUnfiltered ==
    /\ up /\ parser.at = "unfiltered"
    /\ table' = Added(parser.ship, parser.place)
    /\ Heard(parser.ship)
    /\ parser' = Idle
    /\ UNCHANGED <<filter, own, turned, up>>

\* With a limit, a target the table holds is updated, and its time is not.
HearKnown(m, p) ==
    /\ up /\ parser = Idle
    /\ Filtered
    /\ m \in DOMAIN table
    /\ table' = [table EXCEPT ![m] = Parsed(@, p)]
    /\ UNCHANGED <<filter, own, parser, silent, turned, up>>

\* A new one goes through the limits.
HearNew(m, p) ==
    /\ up /\ parser = Idle
    /\ Filtered
    /\ m \notin DOMAIN table
    /\ \E unwritten \in Unwritten : parser' = Holding("first", m, p, unwritten)
    /\ UNCHANGED <<table, filter, own, silent, turned, up>>

Ignore ==
    /\ parser' = Idle /\ turned' = FALSE
    /\ UNCHANGED <<table, filter, own, silent, up>>

Moved(where) ==
    /\ parser' = [parser EXCEPT !.at = where]
    /\ UNCHANGED <<table, filter, own, silent, turned, up>>

\* findMostDistantTarget. Without an own position it returns null and leaves
\* mostDistantRange as it is.
SearchBegins(where, loop, next) ==
    /\ up /\ parser.at = where
    /\ parser' = IF own = NoPlace THEN [parser EXCEPT !.at = next, !.most = Null]
                                  ELSE [parser EXCEPT !.at = loop, !.from = own]
    /\ UNCHANGED <<table, filter, own, silent, turned, up>>

\* Its loop reads the own position for each target: a change may come between two targets.
SearchEnds(loop, next) ==
    /\ up /\ parser.at = loop
    /\ \E seen \in [DOMAIN table -> {parser.from, own}], most \in DOMAIN table \union {Null} :
          /\ IsMostDistant(seen, most)
          /\ parser' = [parser EXCEPT !.at = next, !.from = NoPlace, !.most = most,
                           !.mostRange = IF most = Null THEN 0 ELSE RangeOf(seen, most)]
    /\ UNCHANGED <<table, filter, own, silent, turned, up>>

\* Line 115. Line 118 measures a range that is overwritten.
First == SearchBegins("first", "firstLoop", "valid") \/ SearchEnds("firstLoop", "valid")

\* Mutant: without an own position a full table turns nobody away.
OwnInvalidAnyway ==
    /\ up /\ parser.at = "valid"
    /\ own = NoPlace
    /\ parser' = [parser EXCEPT !.at = "range", !.range = 0, !.most = Null]
    /\ UNCHANGED <<table, filter, own, silent, turned, up>>

\* Lines 121-134.
OwnValid ==
    /\ up /\ parser.at = "valid"
    /\ own # NoPlace
    /\ Moved("second")

OwnInvalid ==
    /\ up /\ parser.at = "valid"
    /\ own = NoPlace
    /\ IF filter.limitAmount /\ Size >= filter.maxAmount
         THEN Ignore
         ELSE /\ parser' = [parser EXCEPT !.at = "range", !.range = 0, !.most = Null]
              /\ UNCHANGED <<table, filter, own, silent, turned, up>>

\* Line 123.
Second == SearchBegins("second", "secondLoop", "current") \/ SearchEnds("secondLoop", "current")

\* Line 124. The range is that of tempTarget, before anything is parsed to it.
Measure ==
    /\ up /\ parser.at = "current"
    /\ parser' = [parser EXCEPT !.at = "range", !.range = Distance[<<own, Zero>>]]
    /\ UNCHANGED <<table, filter, own, silent, turned, up>>

Compare == First \/ OwnValid \/ OwnInvalid \/ Second \/ Measure

\* Lines 140-144.
CheckRange ==
    /\ up /\ parser.at = "range"
    /\ IF filter.limitRange /\ parser.range > filter.maxRange
         THEN Ignore
         ELSE Moved("amount")

\* Lines 146-153.
CheckAmount ==
    /\ up /\ parser.at = "amount"
    /\ \/ /\ filter.limitAmount /\ Size >= filter.maxAmount
          /\ parser.range >= parser.mostRange
          /\ Ignore
       \/ /\ (filter.limitAmount /\ Size >= filter.maxAmount)
                => parser.range < parser.mostRange
          /\ Moved("place")

\* Lines 155-170: whether or not the amount is limited.
Replace ==
    /\ up /\ parser.at = "place"
    /\ Size >= filter.maxAmount
    /\ parser.most # Null
    /\ table' = Replaced(parser.most, parser.ship, parser.place)
    /\ parser' = Idle /\ turned' = FALSE
    /\ UNCHANGED <<filter, own, silent, up>>

ReplaceNull ==
    /\ up /\ parser.at = "place"
    /\ Size >= filter.maxAmount
    /\ parser.most = Null
    /\ up' = FALSE
    /\ UNCHANGED <<table, filter, own, parser, silent, turned>>

\* Mutant: one target more than the limit.
AddOneMore ==
    /\ up /\ parser.at = "place"
    /\ Size <= filter.maxAmount
    /\ table' = Added(parser.ship, parser.place)
    /\ parser' = Idle /\ turned' = FALSE
    /\ UNCHANGED <<filter, own, silent, up>>

AddFiltered ==
    /\ up /\ parser.at = "place"
    /\ Size < filter.maxAmount
    /\ table' = Added(parser.ship, parser.place)
    /\ parser' = Idle /\ turned' = FALSE
    /\ UNCHANGED <<filter, own, silent, up>>

-----------------------------------------------------------------------------
(* The other threads *)

\* A pass of watchdogProc, under the mutex.
Expired(k) == table[k].age > Timeout

\* Mutant: the pass begins at the second target.
WatchdogFromSecond ==
    /\ up /\ parser = Idle
    /\ table' = [k \in {j \in DOMAIN table : ~Expired(j) \/ \A i \in DOMAIN table : j <= i}
                    |-> table[k]]
    /\ UNCHANGED <<filter, own, parser, silent, turned, up>>

Watchdog ==
    /\ up /\ parser = Idle
    /\ table' = [k \in {j \in DOMAIN table : ~Expired(j)} |-> table[k]]
    /\ UNCHANGED <<filter, own, parser, silent, turned, up>>

\* GlobalDataStorage::update writes the bytes of a pointer over curPosition: some place,
\* or none.
OwnPosition(p) ==
    /\ up
    /\ own' = p
    /\ turned' = (turned \/ (parser # Idle /\ parser.at = "second" /\ p = NoPlace))
    /\ UNCHANGED <<table, filter, parser, silent, up>>

\* A second passes.
Tick ==
    /\ up
    /\ table' = [k \in DOMAIN table |-> [table[k] EXCEPT !.age = Older(@)]]
    /\ silent' = [m \in Listened |-> Older(silent[m])]
    /\ UNCHANGED <<filter, own, parser, turned, up>>

Hear ==
    \E m \in Ship : \E p \in Place \union {NoPlace} :
        HearUnfiltered(m, p) \/ HearKnown(m, p) \/ HearNew(m, p)

Handle ==
    \/ AddUnfiltered
    \/ Compare
    \/ CheckRange
    \/ CheckAmount
    \/ Replace
    \/ ReplaceNull
    \/ AddFiltered

Next ==
    \/ Hear
    \/ Handle
    \/ Watchdog
    \/ \E p \in OwnPlace : OwnPosition(p)
    \/ Tick

Spec == Init /\ [][Next]_vars

\* Time passes, the thread that holds the mutex goes on, and the watchdog, which other
\* threads keep from the mutex, gets it again and again. No ship has to report.
FairSpec == Spec /\ WF_vars(Tick) /\ WF_vars(Handle) /\ SF_vars(Watchdog)

-----------------------------------------------------------------------------
(* Properties *)

\* Under a limit on the amount the table keeps it, whatever is replaced, expires and comes
\* back.
LimitHolds == filter.limitAmount => Size <= filter.maxAmount

\* Under a limit on the amount mostDistant is null where it is replaced only if the own
\* position was lost after line 121 had found it and before line 123's search looked for it:
\* without one a full table has turned the target away, and a range below the largest has a
\* target behind it, wherever the own ship is seen meanwhile. A limit on the range alone
\* follows null anyhow.
NeverNull == filter.limitAmount => up \/ turned

\* Without a limit, a ship leaves the table only if no message of it was handled for longer
\* than the timeout. Messages that are handled under a limit do not keep it.
HeardShipStays ==
    [][\A m \in Listened :
        m \in DOMAIN table /\ m \notin DOMAIN table' => silent[m] > Timeout]_vars

\* A message in parseData has a next step, whatever the limits, the own position and the
\* distances are: the cases of its checks leave none out.
MessageNeverStuck == up /\ parser # Idle => ENABLED <<Handle>>_vars

\* As long as the process lives, nothing stays forever by age alone: each key is again
\* and again out of the table or in it with a record that is not too old.
StaleErased ==
    \A k \in Ship : []<>(up => k \notin DOMAIN table \/ ~Expired(k))

=============================================================================
