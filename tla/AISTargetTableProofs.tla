------------------------ MODULE AISTargetTableProofs ------------------------
(***************************************************************************)
(* Proofs about AISTargetTable, for any ships, places, distances, filters  *)
(* and timeout: the types, under a limit on the number of targets that the *)
(* limit is kept and that a target to replace is never null, and without   *)
(* one that no ship which is heard is dropped. From the fairness of the    *)
(* watchdog: an old target is erased, and no message stands in its way.    *)
(***************************************************************************)
EXTENDS AISTargetTable, FiniteSetTheorems, WellFoundedInduction, TLAPS

USE ConstantsAssumption

-----------------------------------------------------------------------------
(* The operators *)

\* A message keeps a record a record.
LEMMA ParsedType ==
    ASSUME NEW r \in Record, NEW p \in Place \union {NoPlace}
    PROVE  Parsed(r, p) \in Record
BY SMT DEF Parsed, Record

\* A record with another ship and no age is one too.
LEMMA RenamedType ==
    ASSUME NEW r \in Record, NEW m \in Ship
    PROVE  [ship |-> m, place |-> r.place, age |-> 0] \in Record
BY SMT DEF Record, Age

\* Where parseData stands and what it holds change: still a place in parseData.
LEMMA MovedType ==
    ASSUME NEW b \in Busy, NEW at \in Where
    PROVE  [b EXCEPT !.at = at] \in Busy
BY Zenon DEF Busy

LEMMA HeldType ==
    ASSUME NEW b \in Busy
    PROVE  /\ \A k \in Ship \union {Null} : [b EXCEPT !.most = k] \in Busy
           /\ \A p \in Place \union {NoPlace} : [b EXCEPT !.from = p] \in Busy
           /\ \A n \in Nat : [b EXCEPT !.range = n] \in Busy
           /\ \A n \in Nat : [b EXCEPT !.mostRange = n] \in Busy
<1>1. \A k \in Ship \union {Null} : [b EXCEPT !.most = k] \in Busy
  BY Zenon DEF Busy
<1>2. \A p \in Place \union {NoPlace} : [b EXCEPT !.from = p] \in Busy
  BY Zenon DEF Busy
<1>3. \A n \in Nat : [b EXCEPT !.range = n] \in Busy
  BY Zenon DEF Busy
<1>4. \A n \in Nat : [b EXCEPT !.mostRange = n] \in Busy
  BY Zenon DEF Busy
<1> QED
  BY <1>1, <1>2, <1>3, <1>4

LEMMA MovedNowhere ==
    ASSUME NEW b \in Busy
    PROVE  /\ \A at \in Where : [b EXCEPT !.at = at, !.most = Null] \in Busy
           /\ \A at \in Where, p \in Place : [b EXCEPT !.at = at, !.from = p] \in Busy
           /\ \A at \in Where, n \in Nat : [b EXCEPT !.at = at, !.range = n] \in Busy
           /\ \A at \in Where, n \in Nat :
                 [b EXCEPT !.at = at, !.range = n, !.most = Null] \in Busy
<1>0. \A at \in Where : [b EXCEPT !.at = at] \in Busy
  BY MovedType, Zenon
<1>1. \A at \in Where : [b EXCEPT !.at = at, !.most = Null] \in Busy
  BY <1>0, HeldType, Zenon
<1>2. \A at \in Where, p \in Place : [b EXCEPT !.at = at, !.from = p] \in Busy
  BY <1>0, HeldType, Zenon
<1>3. \A at \in Where, n \in Nat : [b EXCEPT !.at = at, !.range = n] \in Busy
  BY <1>0, HeldType, Zenon
<1>4. \A at \in Where, n \in Nat : [b EXCEPT !.at = at, !.range = n, !.most = Null] \in Busy
  BY <1>3, HeldType, Zenon
<1> QED
  BY <1>1, <1>2, <1>3, <1>4

LEMMA FoundType ==
    ASSUME NEW b \in Busy, NEW at \in Where, NEW k \in Ship \union {Null}, NEW n \in Nat
    PROVE  [b EXCEPT !.at = at, !.from = NoPlace, !.most = k, !.mostRange = n] \in Busy
<1>1. [b EXCEPT !.at = at] \in Busy
  BY MovedType, Zenon
<1>2. [b EXCEPT !.at = at, !.from = NoPlace] \in Busy
  BY <1>1, HeldType, Zenon
<1>3. [b EXCEPT !.at = at, !.from = NoPlace, !.most = k] \in Busy
  BY <1>2, HeldType, Zenon
<1> QED
  BY <1>3, HeldType, Zenon

\* What a busy parser holds.
LEMMA BusyParts ==
    ASSUME TypeOK, parser # Idle
    PROVE  /\ parser \in Busy
           /\ parser.at \in Where
           /\ parser.ship \in Ship
           /\ parser.place \in Place \union {NoPlace}
           /\ parser.range \in Nat
           /\ parser.most \in Ship \union {Null}
           /\ parser.mostRange \in Nat
           /\ parser.from \in Place \union {NoPlace}
<1>1. parser \in Busy
  BY DEF TypeOK
<1> QED
  BY <1>1 DEF Busy

\* Line by line, what a search leaves.
LEMMA SearchEffect ==
    ASSUME TypeOK, NEW at \in Where, NEW loop \in Where, NEW next \in Where,
           SearchBegins(at, loop, next) \/ SearchEnds(loop, next), loop # next
    PROVE  /\ parser # Idle /\ parser' \in Busy
           /\ UNCHANGED <<table, filter, own, silent, turned, up>>
           /\ \/ parser.at = at /\ parser'.at = loop /\ own # NoPlace
              \/ parser.at = at /\ parser'.at = next /\ own = NoPlace
              \/ /\ parser.at = loop /\ parser'.at = next
                 /\ parser'.most = Null => parser'.mostRange = 0
<1>1. CASE SearchBegins(at, loop, next)
  <2>1. parser # Idle
    BY <1>1 DEF SearchBegins, Idle, Where
  <2>2. parser \in Busy
    BY <2>1, BusyParts
  <2>3. CASE own = NoPlace
    <3>1. parser' = [parser EXCEPT !.at = next, !.most = Null]
      BY <1>1, <2>3 DEF SearchBegins
    <3>2. parser' \in Busy
      BY <2>2, <3>1, MovedNowhere, Zenon
    <3>3. parser'.at = next
      BY <2>2, <3>1 DEF Busy
    <3> QED
      BY <1>1, <2>1, <2>3, <3>2, <3>3 DEF SearchBegins
  <2>4. CASE own # NoPlace
    <3>1. parser' = [parser EXCEPT !.at = loop, !.from = own] /\ own \in Place
      BY <1>1, <2>4 DEF SearchBegins, TypeOK
    <3>2. parser' \in Busy
      BY <2>2, <3>1, MovedNowhere, Zenon
    <3>3. parser'.at = loop
      BY <2>2, <3>1 DEF Busy
    <3> QED
      BY <1>1, <2>1, <2>4, <3>2, <3>3 DEF SearchBegins
  <2> QED
    BY <2>3, <2>4
<1>2. CASE SearchEnds(loop, next)
  <2>1. parser # Idle
    <3>1. parser.at = loop
      BY <1>2 DEF SearchEnds
    <3> QED
      BY <3>1 DEF Idle, Where
  <2>2. parser \in Busy /\ parser.from \in Place \union {NoPlace}
    BY <2>1, BusyParts
  <2>3. PICK seen \in [DOMAIN table -> {parser.from, own}], most \in DOMAIN table \union {Null} :
          parser' = [parser EXCEPT !.at = next, !.from = NoPlace, !.most = most,
                       !.mostRange = IF most = Null THEN 0 ELSE RangeOf(seen, most)]
    BY <1>2 DEF SearchEnds
  <2> DEFINE n == IF most = Null THEN 0 ELSE RangeOf(seen, most)
  <2>4. most \in Ship \union {Null} /\ n \in Nat
    <3>1. most # Null => table[most].place \in Place /\ seen[most] \in Place \union {NoPlace}
      BY <2>2 DEF TypeOK, Record
    <3> QED
      BY <3>1 DEF RangeOf, TypeOK
  <2>5. parser' = [parser EXCEPT !.at = next, !.from = NoPlace, !.most = most, !.mostRange = n]
    BY <2>3
  <2>6. most = Null => n = 0
    OBVIOUS
  <2> HIDE DEF n
  <2>7. parser' \in Busy
    BY <2>2, <2>4, <2>5, FoundType, Zenon
  <2>8. parser'.at = next /\ parser'.most = most /\ parser'.mostRange = n
    BY <2>2, <2>5 DEF Busy
  <2> QED
    BY <1>2, <2>1, <2>6, <2>7, <2>8 DEF SearchEnds
<1> QED
  BY <1>1, <1>2

\* What lines 114 to 134 do with a message: on to the limits, or away.
LEMMA CompareEffect ==
    ASSUME TypeOK, Compare
    PROVE  /\ parser # Idle
           /\ UNCHANGED <<table, filter, own, silent, up>>
           /\ \/ parser' = Idle /\ turned' = FALSE
              \/ /\ parser' \in Busy /\ turned' = turned
                 /\ \/ parser.at = "first" /\ parser'.at \in {"firstLoop", "valid"}
                    \/ parser.at = "firstLoop" /\ parser'.at = "valid"
                    \/ parser.at = "valid" /\ parser'.at = "second" /\ own # NoPlace
                    \/ /\ parser.at = "valid" /\ parser'.at = "range"
                       /\ ~(filter.limitAmount /\ Size >= filter.maxAmount)
                    \/ parser.at = "second" /\ parser'.at = "secondLoop"
                    \/ parser.at = "second" /\ parser'.at = "current" /\ own = NoPlace
                    \/ /\ parser.at = "secondLoop" /\ parser'.at = "current"
                       /\ parser'.most = Null => parser'.mostRange = 0
                    \/ /\ parser.at = "current" /\ parser'.at = "range"
                       /\ parser'.most = parser.most /\ parser'.mostRange = parser.mostRange
<1>1. CASE First
  <2>1. SearchBegins("first", "firstLoop", "valid") \/ SearchEnds("firstLoop", "valid")
    BY <1>1 DEF First
  <2> QED
    BY <2>1, SearchEffect DEF Where
<1>2. CASE Second
  <2>1. SearchBegins("second", "secondLoop", "current") \/ SearchEnds("secondLoop", "current")
    BY <1>2 DEF Second
  <2> QED
    BY <2>1, SearchEffect DEF Where
<1>3. CASE OwnValid
  <2>1. parser # Idle
    BY <1>3 DEF OwnValid, Idle
  <2>2. parser \in Busy /\ parser' = [parser EXCEPT !.at = "second"]
    BY <1>3, <2>1, BusyParts DEF OwnValid, Moved
  <2>3. parser' \in Busy
    BY <2>2, MovedType DEF Where
  <2>4. parser'.at = "second"
    BY <2>2 DEF Busy
  <2> QED
    BY <1>3, <2>1, <2>3, <2>4 DEF OwnValid, Moved
<1>4. CASE OwnInvalid
  <2>1. parser # Idle
    BY <1>4 DEF OwnInvalid, Idle
  <2>2. CASE Ignore
    BY <2>1, <2>2 DEF Ignore
  <2>3. CASE ~(filter.limitAmount /\ Size >= filter.maxAmount)
    <3>1. parser \in Busy /\ parser' = [parser EXCEPT !.at = "range", !.range = 0, !.most = Null]
      BY <1>4, <2>1, <2>3, BusyParts DEF OwnInvalid
    <3>2. parser' \in Busy
      <4>1. "range" \in Where /\ 0 \in Nat
        BY DEF Where
      <4> QED
        BY <3>1, <4>1, MovedNowhere, Zenon
    <3>3. parser'.at = "range"
      BY <3>1 DEF Busy
    <3> QED
      BY <1>4, <2>1, <2>3, <3>2, <3>3 DEF OwnInvalid
  <2> QED
    BY <1>4, <2>2, <2>3 DEF OwnInvalid
<1>5. CASE Measure
  <2>1. parser # Idle
    BY <1>5 DEF Measure, Idle
  <2>2. parser \in Busy /\ parser' = [parser EXCEPT !.at = "range", !.range = Distance[<<own, Zero>>]]
    BY <1>5, <2>1, BusyParts DEF Measure
  <2>3. Distance[<<own, Zero>>] \in Nat
    BY DEF TypeOK
  <2>4. parser' \in Busy
    <3>1. "range" \in Where
      BY DEF Where
    <3> QED
      BY <2>2, <2>3, <3>1, MovedNowhere, Zenon
  <2>5. parser'.at = "range" /\ parser'.most = parser.most /\ parser'.mostRange = parser.mostRange
    BY <2>2 DEF Busy
  <2> QED
    BY <1>5, <2>1, <2>4, <2>5 DEF Measure
<1> QED
  BY <1>1, <1>2, <1>3, <1>4, <1>5 DEF Compare

\* Adding a ship keeps the table a table, and its keys are the old ones and the ship.
LEMMA AddedType ==
    ASSUME TypeOK, NEW m \in Ship, NEW p \in Place \union {NoPlace}
    PROVE  /\ DOMAIN Added(m, p) = DOMAIN table \union {m}
           /\ \A k \in DOMAIN Added(m, p) : Added(m, p)[k] \in Record
<1> DEFINE old == IF m \in DOMAIN table THEN table[m] ELSE [ship |-> m, place |-> Zero]
           fresh == [ship |-> old.ship, place |-> old.place, age |-> 0]
           new == Parsed(fresh, p)
<1>1. fresh \in Record
  BY SMT DEF TypeOK, Record, Age
<1>2. new \in Record
  BY <1>1, ParsedType
<1>3. Added(m, p) = [k \in DOMAIN table \union {m} |-> IF k = m THEN new ELSE table[k]]
  BY DEF Added
<1>4. \A k \in DOMAIN table : table[k] \in Record
  BY DEF TypeOK
<1> HIDE DEF new
<1> QED
  BY <1>2, <1>3, <1>4

-----------------------------------------------------------------------------
(* Types *)

\* Every step keeps the types.
THEOREM TypeInvariant == TypeOK /\ [Next]_vars => TypeOK'
<1> SUFFICES ASSUME TypeOK, [Next]_vars
             PROVE  TypeOK'
  OBVIOUS
<1>1. ASSUME NEW m \in Ship, NEW p \in Place \union {NoPlace},
             HearUnfiltered(m, p) \/ HearNew(m, p)
      PROVE  TypeOK'
  <2>1. parser' \in Busy
    <3>1. PICK at \in Where, n \in Nat : parser' = Holding(at, m, p, n)
      BY <1>1 DEF HearUnfiltered, HearNew, Where
    <3> QED
      BY <3>1, SMT DEF Holding, Busy
  <2> QED
    BY <1>1, <2>1 DEF TypeOK, HearUnfiltered, HearNew
<1>2. ASSUME NEW m \in Ship, NEW p \in Place \union {NoPlace}, HearKnown(m, p)
      PROVE  TypeOK'
  <2>1. m \in DOMAIN table /\ table[m] \in Record
    BY <1>2 DEF HearKnown, TypeOK
  <2>2. Parsed(table[m], p) \in Record
    BY <2>1, ParsedType
  <2>3. DOMAIN table' = DOMAIN table /\ \A k \in DOMAIN table' : table'[k] \in Record
    BY <1>2, <2>2 DEF HearKnown, TypeOK
  <2>4. silent' \in [Listened -> Age]
    BY <1>2 DEF HearKnown, TypeOK
  <2> QED
    BY <1>2, <2>3, <2>4 DEF HearKnown, TypeOK
<1>3. ASSUME AddUnfiltered \/ AddFiltered
      PROVE  TypeOK'
  <2>1. parser # Idle
    BY <1>3 DEF AddUnfiltered, AddFiltered, Idle
  <2>2. parser.ship \in Ship /\ parser.place \in Place \union {NoPlace}
    BY <2>1, BusyParts
  <2>3. DOMAIN table' \subseteq Ship /\ \A k \in DOMAIN table' : table'[k] \in Record
    <3> DEFINE grown == Added(parser.ship, parser.place)
    <3>1. /\ DOMAIN grown = DOMAIN table \union {parser.ship}
          /\ \A k \in DOMAIN grown : grown[k] \in Record
      BY <2>2, AddedType, Zenon
    <3>2. table' = grown
      BY <1>3 DEF AddUnfiltered, AddFiltered
    <3>3. DOMAIN table \subseteq Ship
      BY DEF TypeOK
    <3> HIDE DEF grown
    <3> QED
      BY <2>2, <3>1, <3>2, <3>3, Zenon
  <2>4. silent' \in [Listened -> Age]
    BY <1>3 DEF AddUnfiltered, AddFiltered, Heard, TypeOK, Age
  <2> QED
    BY <1>3, <2>3, <2>4 DEF AddUnfiltered, AddFiltered, TypeOK
<1>4. ASSUME Compare
      PROVE  TypeOK'
  BY <1>4, CompareEffect DEF TypeOK
<1>5. ASSUME CheckRange \/ CheckAmount
      PROVE  TypeOK'
  <2>1. parser # Idle
    BY <1>5 DEF CheckRange, CheckAmount, Idle
  <2>2. CASE Ignore
    BY <2>2 DEF Ignore, TypeOK
  <2>3. CASE /\ \E at \in {"amount", "place"} : parser' = [parser EXCEPT !.at = at]
             /\ UNCHANGED <<table, filter, own, silent, turned, up>>
    <3>1. PICK at \in {"amount", "place"} : parser' = [parser EXCEPT !.at = at]
      BY <2>3
    <3>2. parser \in Busy
      BY <2>1, BusyParts
    <3>3. parser' \in Busy
      BY <3>1, <3>2, MovedType DEF Where
    <3> QED
      BY <2>3, <3>3 DEF TypeOK
  <2> QED
    BY <1>5, <2>2, <2>3 DEF CheckRange, CheckAmount, Moved
<1>6. ASSUME Replace
      PROVE  TypeOK'
  <2>1. parser # Idle
    BY <1>6 DEF Replace, Idle
  <2>2. parser.ship \in Ship /\ parser.place \in Place \union {NoPlace}
    BY <2>1, BusyParts
  <2>3. ASSUME NEW r \in Record
        PROVE  Parsed([ship |-> parser.ship, place |-> r.place, age |-> 0], parser.place)
                 \in Record
    BY <2>2, RenamedType, ParsedType
  <2>4. DOMAIN table' = DOMAIN table /\ \A k \in DOMAIN table' : table'[k] \in Record
    BY <1>6, <2>3 DEF Replace, Replaced, TypeOK
  <2>5. silent' \in [Listened -> Age]
    BY <1>6 DEF Replace, TypeOK
  <2> QED
    BY <1>6, <2>4, <2>5 DEF Replace, TypeOK
<1>7. ASSUME ReplaceNull \/ \E p \in OwnPlace : OwnPosition(p)
      PROVE  TypeOK'
  BY <1>7 DEF ReplaceNull, OwnPosition, TypeOK
<1>8. ASSUME Watchdog
      PROVE  TypeOK'
  BY <1>8 DEF Watchdog, TypeOK
<1>10. ASSUME Tick
       PROVE  TypeOK'
  <2>1. ASSUME NEW n \in Age
        PROVE  Older(n) \in Age
    BY SMT DEF Older, Age
  <2>2. ASSUME NEW r \in Record
        PROVE  [r EXCEPT !.age = Older(@)] \in Record
    BY <2>1 DEF Record
  <2>3. DOMAIN table' = DOMAIN table /\ \A k \in DOMAIN table' : table'[k] \in Record
    BY <1>10, <2>2 DEF Tick, TypeOK
  <2>4. silent' \in [Listened -> Age]
    BY <1>10, <2>1 DEF Tick, TypeOK
  <2> QED
    BY <1>10, <2>3, <2>4 DEF Tick, TypeOK
<1>11. CASE UNCHANGED vars
  BY <1>11 DEF vars, TypeOK
<1> QED
  BY <1>1, <1>2, <1>3, <1>4, <1>5, <1>6, <1>7, <1>8, <1>10, <1>11
     DEF Next, Hear, Handle

\* The types hold from the start.
LEMMA TypeInit == Init => TypeOK
<1> SUFFICES ASSUME Init
             PROVE  TypeOK
  OBVIOUS
<1>1. table = [k \in {} |-> Null] /\ DOMAIN table = {}
  BY DEF Init
<1>2. filter \in Filter /\ own \in Place \union {NoPlace} /\ parser \in Busy \union {Idle}
  BY DEF Init
<1>3. silent \in [Listened -> Age]
  BY DEF Init, Age
<1>4. turned \in BOOLEAN /\ up \in BOOLEAN
  BY DEF Init
<1> QED
  BY <1>1, <1>2, <1>3, <1>4 DEF TypeOK

\* The target table's variables keep their types for every choice of the constants.
THEOREM TypeCorrect == Spec => []TypeOK
BY TypeInit, TypeInvariant, PTL DEF Spec

-----------------------------------------------------------------------------
(* A limit on the number of targets *)

\* Where a null mostDistant may be held, unless the own position was lost meanwhile: with a
\* largest range of 0 or room in the table, and past the check of the amount only with room.
NullWithRoom ==
    parser # Idle =>
        /\ parser.at # "unfiltered"
        /\ parser.at = "second" => own # NoPlace \/ turned
        /\ parser.at \in {"current", "range", "amount"} /\ parser.most = Null
             => parser.mostRange = 0 \/ Size < filter.maxAmount \/ turned
        /\ parser.at = "place" /\ parser.most = Null => Size < filter.maxAmount \/ turned

Limited ==
    /\ IsFiniteSet(DOMAIN table)
    /\ Size <= filter.maxAmount
    /\ NullWithRoom
    /\ up \/ turned

\* A table that gains a ship gains at most one key; one without a key more is no larger.
LEMMA GrownByOne ==
    ASSUME IsFiniteSet(DOMAIN table), NEW m, DOMAIN table' = DOMAIN table \union {m}
    PROVE  IsFiniteSet(DOMAIN table)' /\ Size' <= Size + 1 /\ Size \in Nat
<1>1. Cardinality(DOMAIN table) \in Nat
  BY FS_CardinalityType
<1>2. /\ IsFiniteSet(DOMAIN table \union {m})
      /\ Cardinality(DOMAIN table \union {m}) =
           IF m \in DOMAIN table THEN Cardinality(DOMAIN table)
                                 ELSE Cardinality(DOMAIN table) + 1
  BY FS_AddElement
<1> QED
  BY <1>1, <1>2 DEF Size

LEMMA NotGrown ==
    ASSUME IsFiniteSet(DOMAIN table), DOMAIN table' \subseteq DOMAIN table
    PROVE  IsFiniteSet(DOMAIN table)' /\ Size' <= Size
BY FS_Subset DEF Size

\* Steps with the mutex free, or that give it back, and let the table grow by no key.
LEMMA LimitFree ==
    ASSUME TypeOK, Limited, parser' = Idle, DOMAIN table' \subseteq DOMAIN table,
           UNCHANGED filter, up'
    PROVE  Limited'
<1>1. IsFiniteSet(DOMAIN table)' /\ Size' <= Size
  BY NotGrown DEF Limited
<1>2. Size \in Nat /\ Size' \in Nat /\ filter.maxAmount \in Nat
  BY <1>1, FS_CardinalityType DEF Limited, Size, TypeOK, Filter
<1> QED
  BY <1>1, <1>2 DEF Limited, NullWithRoom

\* Every step keeps the limit, and what makes it kept.
THEOREM LimitStep ==
    ASSUME filter.limitAmount, TypeOK, Limited, [Next]_vars
    PROVE  Limited'
<1> USE DEF Limited
<1>1. filter \in Filter /\ Filtered
  BY DEF TypeOK, Filtered
<1>2. Size \in Nat /\ filter.maxAmount \in Nat
  BY <1>1, FS_CardinalityType DEF Size, Filter
<1>3. ASSUME NEW m \in Ship, NEW p \in Place \union {NoPlace}, HearUnfiltered(m, p)
      PROVE  Limited'
  BY <1>1, <1>3 DEF HearUnfiltered
<1>4. ASSUME NEW m \in Ship, NEW p \in Place \union {NoPlace}, HearKnown(m, p)
      PROVE  Limited'
  BY <1>4, LimitFree DEF HearKnown
<1>5. ASSUME NEW m \in Ship, NEW p \in Place \union {NoPlace}, HearNew(m, p)
      PROVE  Limited'
  <2>1. parser'.at = "first"
    BY <1>5, SMT DEF HearNew, Holding
  <2> QED
    BY <1>5, <2>1 DEF HearNew, NullWithRoom, Size
<1>6. ASSUME AddUnfiltered
      PROVE  Limited'
  <2>1. parser.at = "unfiltered" /\ parser # Idle
    BY <1>6 DEF AddUnfiltered, Idle
  <2> QED
    BY <2>1 DEF NullWithRoom
<1>7. ASSUME Compare
      PROVE  Limited'
  <2>1. parser # Idle /\ UNCHANGED <<table, filter, own, up>> /\ Size' = Size
    BY <1>7, CompareEffect DEF Size
  <2>2. up
    BY <1>7 DEF Compare, First, Second, SearchBegins, SearchEnds, OwnValid, OwnInvalid, Measure
  <2>3. CASE parser' = Idle
    BY <2>1, <2>2, <2>3 DEF NullWithRoom
  <2>4. CASE parser' # Idle
    <3>1. turned' = turned
      BY <1>7, <2>4, CompareEffect
    <3>2. parser'.at \in {"firstLoop", "valid", "secondLoop"} => NullWithRoom'
      BY DEF NullWithRoom
    <3>3. CASE parser'.at = "second"
      <4>1. own # NoPlace
        BY <1>7, <2>4, <3>3, CompareEffect
      <4> QED
        BY <2>1, <2>2, <3>1, <3>3, <4>1 DEF NullWithRoom
    <3>4. CASE parser'.at = "current"
      <4>1. (parser.at = "second" /\ own = NoPlace) \/ (parser'.most = Null => parser'.mostRange = 0)
        BY <1>7, <2>4, <3>4, CompareEffect
      <4>2. turned \/ (parser'.most = Null => parser'.mostRange = 0)
        BY <2>1, <4>1 DEF NullWithRoom
      <4> QED
        BY <2>1, <2>2, <3>1, <3>4, <4>2 DEF NullWithRoom
    <3>5. CASE parser'.at = "range"
      <4>1. \/ ~(filter.limitAmount /\ Size >= filter.maxAmount)
            \/ /\ parser.at = "current"
               /\ parser'.most = parser.most /\ parser'.mostRange = parser.mostRange
        BY <1>7, <2>4, <3>5, CompareEffect
      <4>2. CASE ~(filter.limitAmount /\ Size >= filter.maxAmount)
        <5>1. Size < filter.maxAmount
          BY <1>1, <1>2, <4>2
        <5> QED
          BY <2>1, <2>2, <3>1, <3>5, <5>1 DEF NullWithRoom
      <4>3. CASE /\ parser.at = "current"
                 /\ parser'.most = parser.most /\ parser'.mostRange = parser.mostRange
        BY <2>1, <2>2, <3>1, <3>5, <4>3 DEF NullWithRoom
      <4> QED
        BY <4>1, <4>2, <4>3
    <3> QED
      <4>1. parser'.at \in {"firstLoop", "valid", "second", "secondLoop", "current", "range"}
        BY <1>7, <2>4, CompareEffect
      <4> QED
        BY <2>1, <2>2, <3>1, <3>2, <3>3, <3>4, <3>5, <4>1
  <2> QED
    BY <2>3, <2>4
<1>8. ASSUME CheckRange
      PROVE  Limited'
  <2>1. CASE Ignore
    BY <1>8, <2>1, LimitFree DEF Ignore, CheckRange, Size
  <2>2. CASE Moved("amount")
    <3>1. parser.at = "range" /\ parser # Idle
      BY <1>8 DEF CheckRange, Idle
    <3>2. parser'.at = "amount" /\ parser'.most = parser.most
            /\ parser'.mostRange = parser.mostRange
      BY <2>2, <3>1, BusyParts DEF Busy, Moved
    <3> QED
      BY <1>8, <2>2, <3>1, <3>2 DEF CheckRange, NullWithRoom, Size, Moved
  <2> QED
    BY <1>8, <2>1, <2>2 DEF CheckRange
<1>9. ASSUME CheckAmount
      PROVE  Limited'
  <2>1. CASE Ignore
    BY <1>9, <2>1, LimitFree DEF Ignore, CheckAmount, Size
  <2>2. CASE /\ (filter.limitAmount /\ Size >= filter.maxAmount)
                  => parser.range < parser.mostRange
             /\ Moved("place")
    <3>1. parser.at = "amount" /\ parser # Idle
      BY <1>9 DEF CheckAmount, Idle
    <3>2. parser'.at = "place" /\ parser'.most = parser.most
      BY <2>2, <3>1, BusyParts DEF Busy, Moved
    <3>3. parser.range \in Nat /\ parser.mostRange \in Nat
      BY <3>1, BusyParts
    <3>4. parser.most = Null => Size < filter.maxAmount \/ turned
      <4>1. parser.most = Null => parser.mostRange = 0 \/ Size < filter.maxAmount \/ turned
        BY <3>1 DEF NullWithRoom
      <4>2. parser.mostRange = 0 => Size < filter.maxAmount
        BY <1>1, <1>2, <2>2, <3>3
      <4> QED
        BY <4>1, <4>2
    <3> QED
      BY <1>9, <2>2, <3>2, <3>4 DEF CheckAmount, NullWithRoom, Size, Moved
  <2> QED
    BY <1>9, <2>1, <2>2 DEF CheckAmount
<1>10. ASSUME Replace
       PROVE  Limited'
  <2>1. DOMAIN table' = DOMAIN table
    BY <1>10 DEF Replace, Replaced
  <2> QED
    BY <1>10, <2>1, LimitFree DEF Replace
<1>11. ASSUME ReplaceNull
       PROVE  Limited'
  <2>1. parser.at = "place" /\ parser # Idle /\ parser.most = Null
    BY <1>11 DEF ReplaceNull, Idle
  <2>2. Size >= filter.maxAmount /\ (Size < filter.maxAmount \/ turned)
    BY <1>11, <2>1 DEF ReplaceNull, NullWithRoom
  <2>3. turned
    BY <1>1, <1>2, <2>2
  <2> QED
    BY <1>11, <2>3 DEF ReplaceNull, NullWithRoom, Size
<1>12. ASSUME AddFiltered
       PROVE  Limited'
  <2>1. parser # Idle
    BY <1>12 DEF AddFiltered, Idle
  <2>2. DOMAIN Added(parser.ship, parser.place) = DOMAIN table \union {parser.ship}
    BY <2>1, BusyParts, AddedType, Zenon
  <2>3. DOMAIN table' = DOMAIN table \union {parser.ship}
    BY <1>12, <2>2 DEF AddFiltered
  <2>4. IsFiniteSet(DOMAIN table)' /\ Size' <= Size + 1
    BY <2>3, GrownByOne, Zenon
  <2>5. Size' \in Nat
    BY <2>4, FS_CardinalityType DEF Size
  <2>6. Size' <= filter.maxAmount
    BY <1>1, <1>2, <1>12, <2>4, <2>5 DEF AddFiltered
  <2> QED
    BY <1>12, <2>4, <2>6 DEF AddFiltered, NullWithRoom
<1>13. ASSUME Watchdog
       PROVE  Limited'
  BY <1>13, LimitFree DEF Watchdog
<1>16. ASSUME NEW p \in OwnPlace, OwnPosition(p)
       PROVE  Limited'
  BY <1>16 DEF OwnPosition, NullWithRoom, Size
<1>17. ASSUME Tick
       PROVE  Limited'
  <2>1. DOMAIN table' = DOMAIN table
    BY <1>17 DEF Tick
  <2> QED
    BY <1>17, <2>1 DEF Tick, NullWithRoom, Size
<1>18. CASE UNCHANGED vars
  BY <1>18 DEF vars, NullWithRoom, Size
<1> QED
  BY <1>3, <1>4, <1>5, <1>6, <1>7, <1>8, <1>9, <1>10, <1>11, <1>12, <1>13, <1>16,
     <1>17, <1>18 DEF Next, Hear, Handle

\* Once loaded, the filter stays as it is.
LEMMA FilterKept == [Next]_vars => filter' = filter
BY DEF Next, vars, Hear, Handle, HearUnfiltered, HearKnown, HearNew, AddUnfiltered, Compare, First, SearchBegins,
       SearchEnds, OwnValid, OwnInvalid, Second, Measure, Moved,
       CheckRange, CheckAmount, Replace, ReplaceNull, AddFiltered, Watchdog, OwnPosition, Tick,
       Ignore

\* The inductive invariant: what makes the limit kept, wherever there is one.
LimitInv == filter.limitAmount => Limited

\* An empty table keeps any limit.
LEMMA LimitInit == Init => LimitInv
<1> SUFFICES ASSUME Init
             PROVE  Limited
  BY DEF LimitInv
<1>1. DOMAIN table = {}
  BY DEF Init
<1>2. IsFiniteSet(DOMAIN table) /\ Size = 0
  BY <1>1, FS_EmptySet DEF Size
<1>3. filter.maxAmount \in Nat
  BY DEF Init, Filter
<1> QED
  BY <1>2, <1>3 DEF Limited, NullWithRoom, Init

\* Under every filter that limits the amount, what makes the limit kept holds.
LEMMA LimitAlways == Spec => []LimitInv
<1>1. TypeOK /\ LimitInv /\ [Next]_vars => LimitInv'
  BY LimitStep, FilterKept DEF LimitInv
<1> QED
  BY <1>1, LimitInit, TypeCorrect, PTL DEF Spec

\* The table never holds more targets than its limit allows.
THEOREM LimitKept == Spec => []LimitHolds
<1>1. LimitInv => LimitHolds
  BY DEF LimitInv, Limited, LimitHolds
<1> QED
  BY <1>1, LimitAlways, PTL

\* No null mostDistant is followed under a limit on the amount, unless the own position was
\* lost between the test of VDM.cpp:121 and the search of line 123.
THEOREM NeverFollowsNull == Spec => []NeverNull
<1>1. LimitInv => NeverNull
  BY DEF LimitInv, Limited, NeverNull
<1> QED
  BY <1>1, LimitAlways, PTL

-----------------------------------------------------------------------------
(* Without a limit *)

\* With a limit no message ends a silence and parseData is on the way through the limits;
\* without one it is not, and no record is older than the silence of the ship it is kept for.
FreshInv ==
    /\ Filtered => \A m \in Listened : silent[m] = MaxAge
    /\ ~Filtered => \A m \in Listened : m \in DOMAIN table => table[m].age <= silent[m]
    /\ parser # Idle => (parser.at = "unfiltered" <=> ~Filtered)

LEMMA FreshStep == TypeOK /\ FreshInv /\ [Next]_vars => FreshInv'
<1> SUFFICES ASSUME TypeOK, FreshInv, [Next]_vars PROVE FreshInv'
  OBVIOUS
<1>1. Filtered' = Filtered
  BY FilterKept DEF Filtered
<1>2. /\ \A k \in DOMAIN table : table[k] \in Record /\ table[k].age \in Age
      /\ silent \in [Listened -> Age]
  BY DEF TypeOK, Record
<1>3. CASE Filtered
  <2>1. ~AddUnfiltered /\ \A m \in Ship, p \in Place \union {NoPlace} : ~HearUnfiltered(m, p)
    BY <1>3 DEF FreshInv, AddUnfiltered, HearUnfiltered, Idle
  <2>2. silent' = silent \/ Tick
    BY <2>1 DEF Next, vars, Hear, Handle, HearKnown, HearNew, Measure, CheckRange,
                CheckAmount, Replace, ReplaceNull, AddFiltered, Watchdog, OwnPosition, Ignore,
                Compare, First, SearchBegins, SearchEnds, OwnValid, OwnInvalid, Second, Moved
  <2>3. \A m \in Listened : silent'[m] = MaxAge
    BY <1>3, <2>2 DEF FreshInv, Tick, Older
  <2>4. parser' # Idle => parser'.at # "unfiltered"
    <3>1. CASE parser' \in {parser, Idle}
      BY <1>3, <3>1 DEF FreshInv
    <3>2. ASSUME NEW m \in Ship, NEW p \in Place \union {NoPlace}, HearNew(m, p)
          PROVE  parser'.at # "unfiltered"
      BY <3>2, SMT DEF HearNew, Holding
    <3>3. CASE Compare
      BY <3>3, CompareEffect
    <3>4. CASE CheckRange \/ CheckAmount
      <4>1. CASE Ignore
        BY <4>1 DEF Ignore
      <4>2. CASE ~Ignore
        <5>1. /\ parser # Idle
              /\ parser' = [parser EXCEPT !.at = "amount"]
                   \/ parser' = [parser EXCEPT !.at = "place"]
          BY <3>4, <4>2 DEF CheckRange, CheckAmount, Idle, Moved
        <5>2. parser \in Busy
          BY <5>1, BusyParts
        <5> QED
          BY <5>1, <5>2 DEF Busy
      <4> QED
        BY <4>1, <4>2
    <3> QED
      BY <2>1, <3>1, <3>2, <3>3, <3>4
         DEF Next, vars, Hear, Handle, HearKnown, Replace, ReplaceNull, AddFiltered, Watchdog,
             OwnPosition, Tick
  <2> QED
    BY <1>1, <1>3, <2>3, <2>4 DEF FreshInv
<1>4. CASE ~Filtered
  <2>1. \A m \in Listened : m \in DOMAIN table => table[m].age <= silent[m]
    BY <1>4 DEF FreshInv
  <2>2. parser # Idle => parser.at = "unfiltered"
    BY <1>4 DEF FreshInv
  <2>3. ~(Compare \/ CheckRange \/ CheckAmount \/ Replace \/ ReplaceNull \/ AddFiltered)
    <3>1. parser.at \in {"idle", "unfiltered"}
      BY <2>2 DEF Idle
    <3>2. ~Compare
      BY <3>1 DEF Compare, First, SearchBegins, SearchEnds, OwnValid, OwnInvalid, Second, Measure
    <3> QED
      BY <3>1, <3>2 DEF CheckRange, CheckAmount, Replace, ReplaceNull, AddFiltered
  <2>4. CASE AddUnfiltered
    <3>1. parser # Idle
      BY <2>4 DEF AddUnfiltered, Idle
    <3> DEFINE m == parser.ship
               p == parser.place
               old == IF m \in DOMAIN table THEN table[m] ELSE [ship |-> m, place |-> Zero]
               new == Parsed([ship |-> old.ship, place |-> old.place, age |-> 0], p)
    <3>2. new.age = 0
      BY SMT DEF Parsed
    <3>3. table' = [k \in DOMAIN table \union {m} |-> IF k = m THEN new ELSE table[k]]
      BY <2>4 DEF AddUnfiltered, Added
    <3>4. /\ parser' = Idle
          /\ silent' = IF m \in Listened THEN [silent EXCEPT ![m] = 0] ELSE silent
      BY <2>4 DEF AddUnfiltered, Heard
    <3> HIDE DEF new, m
    <3>5. ASSUME NEW x \in Listened, x \in DOMAIN table' PROVE table'[x].age <= silent'[x]
      <4>1. CASE x = m
        <5>1. table'[x].age = 0 /\ silent'[x] = 0
          BY <1>2, <3>2, <3>3, <3>4, <3>5, <4>1
        <5> QED
          BY <5>1
      <4>2. CASE x # m
        <5>1. x \in DOMAIN table /\ table'[x] = table[x] /\ silent'[x] = silent[x]
          BY <1>2, <3>3, <3>4, <3>5, <4>2
        <5> QED
          BY <2>1, <5>1
      <4> QED
        BY <4>1, <4>2
    <3> QED
      BY <1>1, <1>4, <3>4, <3>5 DEF FreshInv
  <2>5. ASSUME NEW m \in Ship, NEW p \in Place \union {NoPlace}, HearUnfiltered(m, p)
        PROVE  FreshInv'
    <3>1. parser'.at = "unfiltered"
      BY <2>5, SMT DEF HearUnfiltered, Holding
    <3> QED
      BY <1>1, <1>4, <2>1, <2>5, <3>1 DEF HearUnfiltered, FreshInv
  <2>6. CASE Watchdog
    BY <1>1, <1>4, <2>1, <2>2, <2>6 DEF Watchdog, FreshInv
  <2>7. CASE Tick
    <3>1. ASSUME NEW x \in Age, NEW y \in Age, x <= y PROVE Older(x) <= Older(y)
      BY <3>1 DEF Older, Age
    <3>2. ASSUME NEW x \in Listened, x \in DOMAIN table' PROVE table'[x].age <= silent'[x]
      <4>1. x \in DOMAIN table /\ table'[x] = [table[x] EXCEPT !.age = Older(@)]
              /\ silent'[x] = Older(silent[x])
        BY <2>7, <3>2 DEF Tick
      <4>2. table'[x].age = Older(table[x].age)
        BY <1>2, <4>1 DEF Record
      <4>3. table[x].age \in Age /\ silent[x] \in Age /\ table[x].age <= silent[x]
        BY <1>2, <2>1, <4>1
      <4> QED
        BY <3>1, <4>1, <4>2, <4>3
    <3> QED
      BY <1>1, <1>4, <2>2, <2>7, <3>2 DEF Tick, FreshInv
  <2>8. CASE (\E p \in OwnPlace : OwnPosition(p)) \/ UNCHANGED vars
    BY <1>1, <1>4, <2>1, <2>2, <2>8 DEF OwnPosition, vars, FreshInv
  <2> QED
    BY <1>4, <2>3, <2>4, <2>5, <2>6, <2>7, <2>8
       DEF Next, Hear, Handle, HearKnown, HearNew
<1> QED
  BY <1>3, <1>4

\* A ship that is heard often enough is never dropped, with any ships, any sequence of
\* messages and any passes of the watchdog between them.
THEOREM HeardStays == Spec => HeardShipStays
<1>1. Init => FreshInv
  <2> SUFFICES ASSUME Init PROVE FreshInv
    OBVIOUS
  <2>1. DOMAIN table = {} /\ parser = Idle /\ silent = [m \in Listened |-> MaxAge]
    BY DEF Init
  <2> QED
    BY <2>1 DEF FreshInv
<1>2. ASSUME TypeOK, FreshInv, [Next]_vars
      PROVE  [\A m \in Listened :
                m \in DOMAIN table /\ m \notin DOMAIN table' => silent[m] > Timeout]_vars
  <2>1. SUFFICES ASSUME Next, NEW m \in Listened, m \in DOMAIN table, m \notin DOMAIN table'
                 PROVE  silent[m] > Timeout
    BY <1>2
  <2>2. table[m].age \in Nat /\ silent[m] \in Nat
    BY <1>2, <2>1 DEF TypeOK, Record, Age
  <2>3. Watchdog
    <3>1. ~(AddUnfiltered \/ AddFiltered)
      <4>1. SUFFICES ASSUME AddUnfiltered \/ AddFiltered PROVE FALSE
        OBVIOUS
      <4>2. table' = Added(parser.ship, parser.place)
        BY <4>1 DEF AddUnfiltered, AddFiltered
      <4> QED
        BY <2>1, <4>2 DEF Added
    <3> QED
      BY <2>1, <3>1 DEF Next, Hear, Handle, HearUnfiltered, HearKnown, HearNew, Compare, First,
         SearchBegins, SearchEnds, OwnValid, OwnInvalid, Second, Measure, Moved, CheckRange,
         CheckAmount, Replace, Replaced, ReplaceNull, OwnPosition, Tick, Ignore
  <2>4. table[m].age > Timeout
    BY <2>1, <2>3 DEF Watchdog, Expired
  <2>5. CASE Filtered
    <3>1. silent[m] = MaxAge
      BY <1>2, <2>5 DEF FreshInv
    <3> QED
      BY <3>1
  <2>6. CASE ~Filtered
    <3>1. table[m].age <= silent[m]
      BY <1>2, <2>1, <2>6 DEF FreshInv
    <3> QED
      BY <2>2, <2>4, <3>1
  <2> QED
    BY <2>5, <2>6
<1> QED
  BY <1>1, <1>2, TypeCorrect, FreshStep, PTL DEF Spec, HeardShipStays

-----------------------------------------------------------------------------
(* The table is finite, and has a most distant target *)

\* Induction, with the set of the numbers that have the property in place of the property.
LEMMA Induction ==
    ASSUME NEW S \in SUBSET Nat, 0 \in S, \A n \in S : n + 1 \in S
    PROVE  S = Nat
<1> DEFINE R == {ss \in Nat \X Nat : ss[1] < ss[2]}
<1>1. IsWellFoundedOn(R, Nat)
  BY NatLessThanWellFounded DEF OpToRel
<1> SUFFICES ASSUME Nat \ S # {}
             PROVE  FALSE
  OBVIOUS
<1>2. PICK n \in Nat \ S : \A m \in Nat \ S : ~(<<m, n>> \in R)
  <2> HIDE DEF R
  <2> QED
    BY <1>1, WFMin
<1>3. n # 0 /\ n - 1 \in Nat /\ n - 1 < n
  OBVIOUS
<1>4. n - 1 \in S
  <2>1. <<n - 1, n>> \in R
    BY <1>3
  <2> HIDE DEF R
  <2> QED
    BY <1>2, <1>3, <2>1
<1> QED
  BY <1>3, <1>4

\* The first of the farthest of a set of keys.
Farthest(far, D, k) ==
    k \in D /\ \A j \in D : far[j] <= far[k] /\ (far[j] = far[k] => k <= j)

LEMMA FarthestExists ==
    ASSUME NEW E \in SUBSET Nat, IsFiniteSet(E), E # {}, NEW far \in [E -> Nat]
    PROVE  \E k : Farthest(far, E, k)
<1> DEFINE Has(D) == D = {} \/ \E k : Farthest(far, D, k)
           S == {n \in Nat : \A D \in SUBSET E : Cardinality(D) = n => Has(D)}
<1>1. 0 \in S
  <2>1. ASSUME NEW D \in SUBSET E, Cardinality(D) = 0 PROVE D = {}
    BY <2>1, FS_Subset, FS_EmptySet
  <2> QED
    BY <2>1
<1>2. ASSUME NEW n \in S PROVE n + 1 \in S
  <2> SUFFICES ASSUME NEW D \in SUBSET E, Cardinality(D) = n + 1, D # {}
               PROVE  \E k : Farthest(far, D, k)
    OBVIOUS
  <2>1. PICK x \in D : TRUE
    OBVIOUS
  <2>2. IsFiniteSet(D)
    BY FS_Subset
  <2>3. Cardinality(D \ {x}) = n
    <3>1. Cardinality(D \ {x}) = Cardinality(D) - 1
      BY <2>1, <2>2, FS_RemoveElement
    <3> QED
      BY <3>1
  <2>4. Has(D \ {x})
    BY <2>3
  <2>5. CASE D \ {x} = {}
    <3>1. Farthest(far, D, x)
      BY <2>1, <2>5 DEF Farthest
    <3> QED
      BY <3>1
  <2>6. CASE D \ {x} # {}
    <3>1. PICK k : Farthest(far, D \ {x}, k)
      BY <2>4, <2>6
    <3>2. k \in D /\ k \in Nat /\ x \in Nat /\ \A j \in D : j \in Nat /\ far[j] \in Nat
      BY <3>1 DEF Farthest
    <3>3. CASE far[x] < far[k] \/ (far[x] = far[k] /\ k <= x)
      <4>1. Farthest(far, D, k)
        BY <3>1, <3>2, <3>3 DEF Farthest
      <4> QED
        BY <4>1
    <3>4. CASE far[k] < far[x] \/ (far[x] = far[k] /\ x <= k)
      <4>1. Farthest(far, D, x)
        BY <3>1, <3>2, <3>4 DEF Farthest
      <4> QED
        BY <4>1
    <3> QED
      BY <3>2, <3>3, <3>4
  <2> QED
    BY <2>5, <2>6
<1>3. S = Nat
  <2>1. S \in SUBSET Nat
    OBVIOUS
  <2> HIDE DEF S
  <2> QED
    BY <1>1, <1>2, <2>1, Induction
<1>4. Cardinality(E) \in Nat
  BY FS_CardinalityType
<1> QED
  BY <1>3, <1>4

\* The loop of findMostDistantTarget has an answer wherever it sees the own ship.
LEMMA MostDistantExists ==
    ASSUME TypeOK, IsFiniteSet(DOMAIN table), parser # Idle
    PROVE  \E seen \in [DOMAIN table -> {parser.from, own}], most \in DOMAIN table \union {Null} :
              IsMostDistant(seen, most)
<1> DEFINE seen == [k \in DOMAIN table |-> own]
           far == [k \in DOMAIN table |-> RangeOf(seen, k)]
<1>1. seen \in [DOMAIN table -> {parser.from, own}]
  OBVIOUS
<1>2. SUFFICES \E most \in DOMAIN table \union {Null} : IsMostDistant(seen, most)
  BY <1>1
<1>3. far \in [DOMAIN table -> Nat] /\ \A k \in DOMAIN table : far[k] = RangeOf(seen, k)
  <2>1. own \in Place \union {NoPlace} /\ \A k \in DOMAIN table : table[k].place \in Place
    BY DEF TypeOK, Record
  <2> QED
    BY <2>1 DEF RangeOf
<1>4. DOMAIN table \in SUBSET Nat /\ Null \notin DOMAIN table
  BY DEF TypeOK
<1> HIDE DEF seen, far
<1>5. CASE \A k \in DOMAIN table : far[k] = 0
  BY <1>3, <1>5 DEF IsMostDistant
<1>6. CASE \E k \in DOMAIN table : far[k] # 0
  <2>1. PICK k : Farthest(far, DOMAIN table, k)
    BY <1>3, <1>4, <1>6, FarthestExists
  <2>2. k \in DOMAIN table /\ k # Null
    BY <1>4, <2>1 DEF Farthest
  <2>3. far[k] > 0
    BY <1>3, <1>6, <2>1, <2>2 DEF Farthest
  <2>4. IsMostDistant(seen, k)
    BY <1>3, <2>1, <2>2, <2>3 DEF IsMostDistant, Farthest
  <2> QED
    BY <2>2, <2>4
<1> QED
  BY <1>5, <1>6

\* However many ships there are, the table holds finitely many of them.
FiniteTable == IsFiniteSet(DOMAIN table)

LEMMA FiniteStep == TypeOK /\ FiniteTable /\ [Next]_vars => FiniteTable'
<1> SUFFICES ASSUME TypeOK, FiniteTable, [Next]_vars
             PROVE  FiniteTable'
  OBVIOUS
<1>1. ASSUME DOMAIN table' \subseteq DOMAIN table PROVE FiniteTable'
  BY <1>1, FS_Subset DEF FiniteTable
<1>2. CASE AddUnfiltered \/ AddFiltered
  <2>1. parser # Idle
    BY <1>2 DEF AddUnfiltered, AddFiltered, Idle
  <2>2. DOMAIN table' = DOMAIN table \union {parser.ship}
    BY <1>2, <2>1, BusyParts, AddedType DEF AddUnfiltered, AddFiltered
  <2> QED
    BY <2>2, GrownByOne DEF FiniteTable
<1>3. CASE Replace
  BY <1>1, <1>3 DEF Replace, Replaced
<1>4. CASE Compare \/ CheckRange \/ CheckAmount \/ ReplaceNull
  <2>1. table' = table
    BY <1>4, CompareEffect DEF CheckRange, CheckAmount, ReplaceNull, Ignore, Moved
  <2> QED
    BY <1>1, <2>1
<1>5. CASE Hear
  BY <1>1, <1>5 DEF Hear, HearUnfiltered, HearKnown, HearNew
<1>6. CASE Watchdog
  BY <1>1, <1>6 DEF Watchdog
<1>7. CASE Tick
  BY <1>1, <1>7 DEF Tick
<1>8. CASE (\E p \in OwnPlace : OwnPosition(p)) \/ UNCHANGED vars
  BY <1>1, <1>8 DEF OwnPosition, vars
<1> QED
  BY <1>2, <1>3, <1>4, <1>5, <1>6, <1>7, <1>8 DEF Next, Handle

LEMMA TableIsFinite == Spec => [](TypeOK /\ FiniteTable)
<1>1. Init => FiniteTable
  <2>1. Init => DOMAIN table = {}
    BY DEF Init
  <2> QED
    BY <2>1, FS_EmptySet DEF FiniteTable
<1> QED
  BY <1>1, FiniteStep, TypeCorrect, PTL DEF Spec

-----------------------------------------------------------------------------
(* Progress *)

SomeExpired == \E k \in DOMAIN table : Expired(k)

\* No prover here knows that an action is enabled when its guard holds. The theorems of
\* progress take it as a hypothesis: of what parseData does next with a message, where
\* there is an answer to the search for the most distant target, and of the watchdog.
TableGuards ==
    /\ up /\ parser # Idle /\ parser.at \notin {"firstLoop", "secondLoop"}
         => ENABLED <<Handle>>_vars
    /\ /\ up /\ parser # Idle /\ parser.at \in {"firstLoop", "secondLoop"}
       /\ \E seen \in [DOMAIN table -> {parser.from, own}], most \in DOMAIN table \union {Null} :
             IsMostDistant(seen, most)
       => ENABLED <<Handle>>_vars
    /\ up /\ parser = Idle /\ SomeExpired => ENABLED <<Watchdog>>_vars

\* A message that has come into parseData never stands there with nothing to do, whatever the
\* limits, the distances and the own position are.
THEOREM MessageGoesOn == Spec /\ []TableGuards => []MessageNeverStuck
<1>1. TypeOK /\ FiniteTable /\ TableGuards => MessageNeverStuck
  <2> SUFFICES ASSUME TypeOK, FiniteTable, TableGuards, up, parser # Idle
               PROVE  ENABLED <<Handle>>_vars
    BY DEF MessageNeverStuck
  <2>1. CASE parser.at \notin {"firstLoop", "secondLoop"}
    BY <2>1 DEF TableGuards
  <2>2. CASE parser.at \in {"firstLoop", "secondLoop"}
    BY <2>2, MostDistantExists DEF TableGuards, FiniteTable
  <2> QED
    BY <2>1, <2>2
<1> QED
  BY <1>1, TableIsFinite, PTL

Here(where) == parser.at = where

\* Where parseData goes with a message, and that it stays where it is as long as only the other
\* threads move.
LEMMA HandleMoves ==
    ASSUME TypeOK, Handle, up'
    PROVE  \/ parser' = Idle
           \/ Here("first") /\ (Here("firstLoop") \/ Here("valid"))'
           \/ Here("firstLoop") /\ Here("valid")'
           \/ Here("valid") /\ (Here("second") \/ Here("range"))'
           \/ Here("second") /\ (Here("secondLoop") \/ Here("current"))'
           \/ Here("secondLoop") /\ Here("current")'
           \/ Here("current") /\ Here("range")'
           \/ Here("range") /\ Here("amount")'
           \/ Here("amount") /\ Here("place")'
<1>1. CASE AddUnfiltered \/ Replace \/ AddFiltered
  BY <1>1 DEF AddUnfiltered, Replace, AddFiltered
<1>2. CASE Compare
  BY <1>2, CompareEffect DEF Here
<1>3. CASE CheckRange \/ CheckAmount
  <2>1. parser \in Busy
    <3>1. parser # Idle
      <4>1. CASE CheckRange
        BY <4>1 DEF CheckRange, Idle
      <4>2. CASE CheckAmount
        BY <4>2 DEF CheckAmount, Idle
      <4> QED
        BY <1>3, <4>1, <4>2
    <3> QED
      BY <3>1, BusyParts
  <2>2. \A at \in {"amount", "place"} : [parser EXCEPT !.at = at].at = at
    BY <2>1 DEF Busy
  <2> QED
    BY <1>3, <2>2 DEF CheckRange, CheckAmount, Ignore, Here, Moved
<1>4. CASE ReplaceNull
  BY <1>4 DEF ReplaceNull
<1> QED
  BY <1>1, <1>2, <1>3, <1>4 DEF Handle

LEMMA MessageStays ==
    ASSUME [Next]_vars, parser # Idle
    PROVE  Handle \/ UNCHANGED parser
BY DEF Next, Hear, HearUnfiltered, HearKnown, HearNew, Watchdog, OwnPosition, Tick, vars

\* The mutex comes free again and again.
LEMMA MutexComesFree ==
    FairSpec /\ []TableGuards => ([]up => []<>(parser = Idle))
<1> DEFINE Free == parser = Idle
           OK == TypeOK /\ FiniteTable
<1>1. FairSpec => []OK /\ [][Next]_vars /\ WF_vars(Handle)
  BY TableIsFinite, PTL DEF FairSpec, Spec
<1>2. FairSpec /\ []TableGuards => []MessageNeverStuck
  BY MessageGoesOn, PTL DEF FairSpec
<1>3. MessageNeverStuck /\ up /\ ~Free => ENABLED <<Handle>>_vars
  <2>1. ~Free => parser # Idle
    OBVIOUS
  <2> QED
    BY <2>1, PTL DEF MessageNeverStuck
<1>4. OK /\ [Next]_vars /\ up' =>
        /\ Here("unfiltered") => Here("unfiltered")' \/ Free'
        /\ Here("first") => Here("first")' \/ Here("firstLoop")' \/ Here("valid")' \/ Free'
        /\ Here("firstLoop") => Here("firstLoop")' \/ Here("valid")' \/ Free'
        /\ Here("valid") => Here("valid")' \/ Here("second")' \/ Here("range")' \/ Free'
        /\ Here("second") => Here("second")' \/ Here("secondLoop")' \/ Here("current")' \/ Free'
        /\ Here("secondLoop") => Here("secondLoop")' \/ Here("current")' \/ Free'
        /\ Here("current") => Here("current")' \/ Here("range")' \/ Free'
        /\ Here("range") => Here("range")' \/ Here("amount")' \/ Free'
        /\ Here("amount") => Here("amount")' \/ Here("place")' \/ Free'
        /\ Here("place") => Here("place")' \/ Free'
  <2> SUFFICES ASSUME TypeOK, [Next]_vars, up', ~Free
               PROVE  \/ Here("first") /\ (Here("firstLoop") \/ Here("valid"))'
                      \/ Here("firstLoop") /\ Here("valid")'
                      \/ Here("valid") /\ (Here("second") \/ Here("range"))'
                      \/ Here("second") /\ (Here("secondLoop") \/ Here("current"))'
                      \/ Here("secondLoop") /\ Here("current")'
                      \/ Here("current") /\ Here("range")'
                      \/ Here("range") /\ Here("amount")'
                      \/ Here("amount") /\ Here("place")'
                      \/ UNCHANGED parser
                      \/ Free'
    BY DEF Here, Idle
  <2> QED
    BY HandleMoves, MessageStays
<1>5. OK /\ <<Handle>>_vars /\ up' =>
        /\ Here("unfiltered") => Free'
        /\ Here("first") => Here("firstLoop")' \/ Here("valid")' \/ Free'
        /\ Here("firstLoop") => Here("valid")' \/ Free'
        /\ Here("valid") => Here("second")' \/ Here("range")' \/ Free'
        /\ Here("second") => Here("secondLoop")' \/ Here("current")' \/ Free'
        /\ Here("secondLoop") => Here("current")' \/ Free'
        /\ Here("current") => Here("range")' \/ Free'
        /\ Here("range") => Here("amount")' \/ Free'
        /\ Here("amount") => Here("place")' \/ Free'
        /\ Here("place") => Free'
  BY HandleMoves DEF Here
<1>6. OK => \/ Free \/ Here("unfiltered") \/ Here("first") \/ Here("firstLoop")
            \/ Here("valid") \/ Here("second") \/ Here("secondLoop") \/ Here("current")
            \/ Here("range") \/ Here("amount") \/ Here("place")
  BY BusyParts DEF Where, Here
<1>7. \/ Here("unfiltered") \/ Here("first") \/ Here("firstLoop") \/ Here("valid")
      \/ Here("second") \/ Here("secondLoop") \/ Here("current")
      \/ Here("range") \/ Here("amount") \/ Here("place")
      => ~Free
  BY DEF Here, Idle
<1> HIDE DEF Free, OK
<1>8. FairSpec /\ []TableGuards => ([]up => []<>Free)
  BY <1>1, <1>2, <1>3, <1>4, <1>5, <1>6, <1>7, PTL
<1> QED
  BY <1>8 DEF Free

\* Nothing stays in the table by age alone while the process lives: the watchdog, which takes
\* the mutex each time it was free for it long enough, erases what is older than the timeout.
THEOREM OldIsErased == FairSpec /\ []TableGuards => StaleErased
<1> SUFFICES ASSUME NEW k \in Ship
             PROVE  FairSpec /\ []TableGuards => []<>(up => k \notin DOMAIN table \/ ~Expired(k))
  BY DEF StaleErased
<1> DEFINE Stale == k \in DOMAIN table /\ Expired(k)
           Free  == parser = Idle
<1>1. FairSpec => SF_vars(Watchdog)
  BY PTL DEF FairSpec
<1>2. <<Watchdog>>_vars => ~Stale'
  <2>1. Watchdog => (k \in DOMAIN table' => table'[k] = table[k] /\ ~Expired(k))
    BY DEF Watchdog
  <2> QED
    BY <2>1 DEF Expired
<1>3. TableGuards /\ up /\ Free /\ Stale => ENABLED <<Watchdog>>_vars
  <2>1. Stale => SomeExpired
    BY DEF SomeExpired
  <2> QED
    BY <2>1, PTL DEF TableGuards
<1>4. FairSpec /\ []TableGuards => []<>(up => ~Stale)
  <2>1. FairSpec /\ []TableGuards => ([]up => []<>Free)
    BY MutexComesFree
  <2>2. FairSpec => [][Next]_vars
    BY PTL DEF FairSpec, Spec
  <2>3. [Next]_vars => (~up => ~up')
    BY DEF Next, Hear, HearUnfiltered, HearKnown, HearNew, Handle, AddUnfiltered, Compare, First, SearchBegins,
       SearchEnds, OwnValid, OwnInvalid, Second, Measure, Moved,
           CheckRange, CheckAmount, Replace, ReplaceNull, AddFiltered, Watchdog, OwnPosition,
           Tick, vars
  <2> HIDE DEF Stale, Free
  <2> QED
    BY <1>1, <1>2, <1>3, <2>1, <2>2, <2>3, PTL
<1>5. (up => ~Stale) <=> (up => k \notin DOMAIN table \/ ~Expired(k))
  OBVIOUS
<1> HIDE DEF Stale
<1> QED
  BY <1>4, <1>5, PTL

=============================================================================
