----------------------------- MODULE AISPayload -----------------------------
(***************************************************************************)
(* What the bits of AIS messages become in a target: the getters of        *)
(* SixBitStorage, which put bits into the bytes of a 32-bit number and     *)
(* turn the bytes round, and the parsers of AIS.cpp, which read a          *)
(* message's fields one after the other and keep some of them, with flags  *)
(* that say which are available. One target receives messages.             *)
(***************************************************************************)
EXTENDS Integers, FiniteSetsExt, SequencesExt

CONSTANTS
    Types,       \* message types the ship sends, among those with a parser
    Lons, Lats, Sogs, Hdgs, Turns, Cargoes   \* raw values it sends, unsigned

ASSUME TypesAssumption == Types \subseteq 1..5 \union {18, 19, 21}

ASSUME RawAssumption ==
    /\ Lons \subseteq 0..2^28 - 1 /\ Lats \subseteq 0..2^27 - 1
    /\ Sogs \subseteq 0..1023 /\ Hdgs \subseteq 0..511
    /\ Turns \subseteq 0..255 /\ Cargoes \subseteq 0..255

VARIABLES
    flags,    \* target->flags, as a set of names
    stored,   \* the fields of dynamicData and staticData, before scaling
    said,     \* what the ship last said of each, NotSaid before it did (history)
    last,     \* type of the last message, 0 before the first (history)
    unread    \* bits of it that no field took (history)

targetVars == <<flags, stored, said, last, unread>>

Names   == {"lon", "lat", "sog", "hdg", "rateOfTurn", "shipCargoType"}
NotSaid == -1

\* What the bytes of one member of a union are when another was written.
Garbled == -2

-----------------------------------------------------------------------------
(* SixBitStorage *)

StartBit(n) == 8 - (n % 8)

\* getData: bit i of the field becomes bit StartBit + i, counted from the highest bit of
\* byte 0. The bytes of the number, lowest address first.
GetData(n, v) ==
    LET shifted == v * 2^(32 - (StartBit(n) + n))
    IN  [b \in 0..3 |-> (shifted \div 256^(3 - b)) % 256]

\* The casts to fewer bytes keep the low addresses; getShort and getInt turn them round.
GetByte(n, v)  == GetData(n, v)[0]
GetShort(n, v) == GetData(n, v)[0] * 256 + GetData(n, v)[1]
GetInt(n, v)   == ((GetData(n, v)[0] * 256 + GetData(n, v)[1]) * 256
                      + GetData(n, v)[2]) * 256 + GetData(n, v)[3]

\* Mutant: no sign.
Unsigned(n, x) == x

\* signedValue: the bits above the sign bit are filled.
Signed(n, x) == IF (x \div 2^(n - 1)) % 2 = 1 THEN x - 2^n ELSE x

-----------------------------------------------------------------------------
(* The parsers: the fields in the order they are read, and how *)

Octet(name, n)  == [name |-> name, bits |-> n, get |-> "byte"]
Short(name, n) == [name |-> name, bits |-> n, get |-> "short"]
Word(name, n)   == [name |-> name, bits |-> n, get |-> "int"]
Coord(name, n) == [name |-> name, bits |-> n, get |-> "signed"]
String(name, n) == [name |-> name, bits |-> 6 * n, get |-> "string"]

Header == <<Octet("messageID", 6), Octet("repeatInd", 2), Word("mmsi", 30)>>

Position == <<Octet("accuracy", 1), Coord("lon", 28), Coord("lat", 27)>>
Trailer  == <<Octet("raim", 1), Word("commState", 19)>>

\* Mutant: one spare bit forgotten.
BaseReportShort ==
    <<Octet("navStatus", 4), Octet("rateOfTurn", 8), Short("sog", 10)>> \o Position \o
    <<Short("cog", 12), Short("hdg", 9), Octet("timestamp", 6), Octet("regional", 4)>> \o Trailer

BaseReport ==
    <<Octet("navStatus", 4), Octet("rateOfTurn", 8), Short("sog", 10)>> \o Position \o
    <<Short("cog", 12), Short("hdg", 9), Octet("timestamp", 6), Octet("regional", 4),
      Octet("spare", 1)>> \o Trailer

BaseStationReport ==
    <<Short("year", 14), Octet("month", 4), Octet("day", 5), Octet("hour", 5), Octet("min", 6),
      Octet("sec", 6)>> \o Position \o <<Octet("psType", 4), Short("spare", 10)>> \o Trailer

StandardClassB ==
    <<Octet("reserved", 8), Short("sog", 10)>> \o Position \o
    <<Short("cog", 12), Short("hdg", 9), Octet("timestamp", 6), Octet("regional", 4),
      Octet("spare", 4)>> \o Trailer

ExtendedClassB ==
    <<Octet("regApps", 8), Short("sog", 10)>> \o Position \o
    <<Short("cog", 12), Short("hdg", 9), Octet("timestamp", 6), Octet("regional", 4),
      String("name", 20), Octet("shipCargoType", 8), Word("dimensions", 30),
      Octet("psType", 4), Octet("raim", 1), Octet("dte", 1)>>

AidToNavigation ==
    <<Octet("aToNType", 5), String("name", 20)>> \o Position \o
    <<Word("dimensions", 30), Octet("psType", 4), Octet("timestamp", 6), Octet("offPos", 1),
      Octet("regApps", 8), Octet("raim", 1), Octet("spare", 3)>>

StaticVoyage ==
    <<Octet("aisVersion", 2), Word("imoNumber", 30), String("callSign", 7),
      String("name", 20), Octet("shipCargoType", 8), Word("dimensions", 30),
      Octet("psType", 4), Word("eta", 20), Octet("maxDraft", 8), String("dest", 20),
      Octet("dte", 1), Octet("spare", 1)>>

\* registerParser.
Fields(type) ==
    CASE type \in 1..3 -> BaseReport
      [] type = 4  -> BaseStationReport
      [] type = 5  -> StaticVoyage
      [] type = 18 -> StandardClassB
      [] type = 19 -> ExtendedClassB
      [] type = 21 -> AidToNavigation

BitsOf(fields) ==
    LET upTo[i \in 0..Len(fields)] == IF i = 0 THEN 0 ELSE upTo[i - 1] + fields[i].bits
    IN  upTo[Len(fields)]

\* Bits a talker sends, a multiple of the six of a character (ITU-R M.1371).
Sent(type) == CASE type \in {1, 2, 3, 4, 18} -> 168
                [] type = 5  -> 426
                [] type = 19 -> 312
                [] type = 21 -> 276

\* What the parser of a type reads for each raw value of the fields it keeps.
Raw == [lon |-> Lons, lat |-> Lats, sog |-> Sogs, hdg |-> Hdgs, rateOfTurn |-> Turns,
        shipCargoType |-> Cargoes]

Read(f, v) ==
    CASE f.get = "byte"   -> GetByte(f.bits, v)
      [] f.get = "short"  -> GetShort(f.bits, v)
      [] f.get = "signed" -> Signed(f.bits, GetInt(f.bits, v))

Reads(fields) ==
    LET Kept(n) == CHOOSE f \in ToSet(fields) : f.name = n
    IN  [n \in Names \intersect {f.name : f \in ToSet(fields)} |->
            [v \in Raw[n] |-> Read(Kept(n), v)]]

Parsers == [type \in Types |-> Reads(Fields(type))]

Carries(type, n)  == n \in DOMAIN Parsers[type]
Got(type, msg, n) == Parsers[type][n][msg[n]]

\* Bits of a message its parser leaves in the storage.
Left == [type \in Types |-> Sent(type) - BitsOf(Header) - BitsOf(Fields(type))]

\* The value of a field that says it is not available.
NotAvailable == [lon |-> 108600000, lat |-> 54600000, sog |-> 1023, hdg |-> 511,
                 rateOfTurn |-> 128, shipCargoType |-> 0]
FlagOf == [lon |-> "Lon", lat |-> "Lat", sog |-> "SOG", hdg |-> "HDG",
           rateOfTurn |-> "RateOfTurn", shipCargoType |-> "ShipCargoType"]

Available(type, msg) ==
    {n \in Names : Carries(type, n) /\ Got(type, msg, n) # NotAvailable[n]}

\* The flags a message sets, and those it sets or clears. SOGOutOfScale stays as it is
\* when the speed is not available, RateOfTurnOutOfScale when the turn is not.
Sets(type, msg) ==
    {FlagOf[n] : n \in Available(type, msg)}
      \union {f \in {"SOGOutOfScale"} :
                 "sog" \in Available(type, msg) /\ Got(type, msg, "sog") = 1022}
      \union {f \in {"RateOfTurnOutOfScale"} : "rateOfTurn" \in Available(type, msg)}
      \union {f \in {"BaseStation"} : type = 4}
      \union {f \in {"ClassB"} : type \in {18, 19}}
      \union {f \in {"AtoN"} : type = 21}

Decides(type, msg) ==
    Sets(type, msg)
      \union {FlagOf[n] : n \in {n \in Names : Carries(type, n)}}
      \union {f \in {"SOGOutOfScale"} : "sog" \in Available(type, msg)}
      \union {f \in {"HDGOutOfScale"} : "hdg" \in Available(type, msg)}

\* rateOfTurn = 0x7F in a condition: a turn that is available becomes 720 degrees. The date
\* of a base station lies over the turn and the speed.
Value(type, msg, n) ==
    CASE type = 4 /\ n \in {"sog", "rateOfTurn"}                 -> Garbled
      [] n = "rateOfTurn" /\ n \in Available(type, msg)          -> 127
      [] n # "rateOfTurn" /\ n \in Available(type, msg)          -> Got(type, msg, n)
      [] OTHER                                                   -> stored[n]

-----------------------------------------------------------------------------

TargetInit ==
    /\ flags = {}
    /\ stored = [n \in Names |-> 0]
    /\ said = [n \in Names |-> NotSaid]
    /\ last = 0
    /\ unread = 0

\* parseAIS of a message of a type.
Report(type, msg) ==
    /\ flags' = (flags \ Decides(type, msg)) \union Sets(type, msg)
    /\ stored' = [n \in Names |-> Value(type, msg, n)]
    /\ said' = [n \in Names |-> IF Carries(type, n) THEN msg[n] ELSE said[n]]
    /\ last' = type
    /\ unread' = Left[type]

Messages == [lon : Lons, lat : Lats, sog : Sogs, hdg : Hdgs, rateOfTurn : Turns,
             shipCargoType : Cargoes]

Message == \E type \in Types : \E msg \in Messages : Report(type, msg)

-----------------------------------------------------------------------------
(* Properties *)

\* Latitude and longitude, signed in 27 and 28 bits, come out of the turned bytes as they
\* were said, and are flagged exactly when they were last said to be available. So do the
\* speed and the heading, in 10 and 9 bits, as long as the target is not a base station:
\* its date lies over the speed of a union.
Meant(n, v) == IF n = "lon" /\ v >= 2^27 THEN v - 2^28
               ELSE IF n = "lat" /\ v >= 2^26 THEN v - 2^27 ELSE v

Truthful(n) ==
    /\ FlagOf[n] \in flags <=> said[n] \notin {NotSaid, NotAvailable[n]}
    /\ FlagOf[n] \in flags => stored[n] = Meant(n, said[n])

ReportTruthful ==
    /\ Truthful("lon") /\ Truthful("lat")
    /\ "BaseStation" \notin flags => Truthful("sog") /\ Truthful("hdg")

\* A field of 8 bits is read as 0: the type of ship and cargo is never known, whatever
\* the ship says.
CargoUnknown == "ShipCargoType" \notin flags

\* Only the reports of class A ships and of base stations are read to their last bit, which
\* is what leaves the bit storage uncleared.
PositionReportReadOut ==
    last # 0 => unread >= 0 /\ (unread = 0 <=> last \in 1..4)

=============================================================================
