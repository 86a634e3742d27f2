---------------------------- MODULE NmeaParsers ----------------------------
(***************************************************************************)
(* What the NMEA parsers make of a talker's sentences: which fields they   *)
(* take, which they reject, and under which type a value is stored in the  *)
(* sensor's storage. A sentence is a record of the fields its parser       *)
(* looks at; a field may be empty. A position is seen through its degrees; *)
(* time and HDOP are left out. Speeds of the wind are in mm/s and depths   *)
(* in mm, where the code has floats of m/s and m.                          *)
(*                                                                         *)
(* Each updateData takes the storage's lock and releases it: a poll may    *)
(* come between two of them and find a sentence half stored.               *)
(***************************************************************************)
EXTENDS Integers, SequencesExt

CONSTANTS
    Latitudes,   \* the positions a talker reports, without their hemispheres
    Longitudes,
    Angles,      \* courses, headings and wind directions, in degrees
    Amounts,     \* speeds and depths, in the unit of the sentence
    Winds        \* speeds of the wind, in that unit

ASSUME TalkerAssumption ==
    /\ Latitudes \subseteq Nat
    /\ Longitudes \subseteq Nat
    /\ Angles \subseteq 0..359
    /\ Amounts \subseteq Nat
    /\ Winds \subseteq Nat

VARIABLES
    held,     \* the sensor's storage: types and values
    todo,     \* the updates the sentence in hand has still to make
    spoken,   \* what the talker last meant by each type, and in which sentence (history)
    doubts,   \* types whose value that sentence calls invalid, or takes from another (history)
    dubious   \* the types held of which the same is true (history)

nmeaVars == <<held, todo, spoken, doubts, dubious>>

Empty == -1
Depths == {"DepthBK", "DepthBS", "DepthBT"}

NmeaInit ==
    /\ held = {}
    /\ todo = << >>
    /\ spoken = {}
    /\ doubts = {}
    /\ dubious = {}

-----------------------------------------------------------------------------
(* Fields *)

\* extractFloat and extractChar find something.
Given(field) == field # Empty

\* updateData for one type, if the parser comes to it.
Update(type, value, taken) == IF taken THEN <<[type |-> type, value |-> value]>> ELSE << >>

\* deformatCoordinate.
Deformat(degrees, hemisphere) == IF hemisphere \in {"S", "W"} THEN -degrees ELSE degrees

\* extractPosition: the meridian of 180 degrees is no longitude.
PositionOf(s) ==
    Update("Position",
           [lat |-> Deformat(s.lat, s.side), lon |-> Deformat(s.lon, s.half)],
           Given(s.lat) /\ s.lat <= 90 /\ s.lon < 180)

\* Mutant: half of the circle only.
Semicircle(angle) == Given(angle) /\ angle < 180

\* Courses, directions of the wind, and the heading of VHW.
Circle(angle) == Given(angle) /\ angle < 360

\* The heading of HDT and THS.
HalfCircle(angle) == Given(angle) /\ angle < 180

\* Speeds through the water and over ground.
Moving(speed) == Given(speed) /\ speed > 0 /\ speed < 100

Knots(speed) == (speed * 1852000) \div 3600

\* MWV's speeds; a unit it does not know is taken for m/s.
WindSpeed(speed, unit) == CASE unit = "K" -> (speed * 10000) \div 36
                            [] unit = "N" -> Knots(speed)
                            [] OTHER      -> speed * 1000

Depth(depth, unit) == CASE unit = "f" -> (depth * 3048) \div 10
                        [] unit = "M" -> depth * 1000
                        [] unit = "F" -> (depth * 18288) \div 10

-----------------------------------------------------------------------------
(* Parsers: what each sentence updates, in the order of the calls *)

\* Mutant: the status is not looked at.
GLLUnchecked(s) == Update("PosSysMode", s.mode, Given(s.mode)) \o PositionOf(s)

GLL(s) == IF s.status = "A"
          THEN Update("PosSysMode", s.mode, Given(s.mode)) \o PositionOf(s)
          ELSE << >>

\* The position is stored whatever the quality says, and before it.
GGA(s) == PositionOf(s) \o Update("GPSQual", s.quality, TRUE)

VTG(s) == Update("Course", s.angle, Circle(s.angle))
            \o Update("SpeedOG", s.speed, Moving(s.speed))
            \o Update("PosSysMode", s.mode, Given(s.mode))

VHW(s) == Update("TrueHeading", s.angle, Circle(s.angle))
            \o Update("SpeedTW", s.speed, Moving(s.speed))

HDT(s) == Update("TrueHeading", s.angle, HalfCircle(s.angle))

\* The mode before the heading.
THS(s) == Update("GyroMode", s.mode, HalfCircle(s.angle))
            \o Update("TrueHeading", s.angle, HalfCircle(s.angle))

\* The validity is not looked at.
MWV(s) ==
    LET taken == Circle(s.angle) /\ Given(s.speed)
    IN  Update(IF s.ref = "T" THEN "WindDirT" ELSE "WindDirR", s.angle, taken)
          \o Update(IF s.ref = "T" THEN "WindSpeedT" ELSE "WindSpeedR",
                    WindSpeed(s.speed, s.unit), taken)

\* The true direction goes to the relative one; knots are taken if they are marked K.
MWD(s) == Update("WindDirR", s.angle, Circle(s.angle))
            \o Update("WindSpeedT", IF s.unit = "M" THEN s.speed * 1000 ELSE Knots(s.speed),
                      Given(s.speed) /\ s.unit \in {"M", "K"})

\* The depth in metres, in feet or in fathoms, the first there is of them.
UnitOf(s) == CASE "M" \in s.units -> "M"
               [] s.units \intersect {"f", "M"} = {"f"} -> "f"
               [] OTHER -> "F"

\* A unit must have a field after it: the fathoms, which are last, are never read.
DBc(s) == Update(s.of, Depth(s.depth, UnitOf(s)), s.units # {} /\ UnitOf(s) # "F" /\ s.depth > 0)

\* The types there is a parser for, but for that of AIS messages.
NmeaTypes == {"GLL", "GGA", "VTG", "VHW", "HDT", "THS", "MWV", "MWD", "DBc", "RMC", "VBW"}

\* NmeaParsers::parse: the parser of the type; RMC and VBW have one that does nothing.
Parse(s) == CASE s.type = "GLL" -> GLL(s)
              [] s.type = "GGA" -> GGA(s)
              [] s.type = "VTG" -> VTG(s)
              [] s.type = "VHW" -> VHW(s)
              [] s.type = "HDT" -> HDT(s)
              [] s.type = "THS" -> THS(s)
              [] s.type = "MWV" -> MWV(s)
              [] s.type = "MWD" -> MWD(s)
              [] s.type = "DBc" -> DBc(s)
              [] OTHER -> << >>

-----------------------------------------------------------------------------
(* Talkers *)

\* The sentences of a type; with a fix there is a position.
SentencesOf(type) ==
    LET Angle == Angles \union {Empty}
        Amount == Amounts \union {Empty}
        Gust == Winds \union {Empty}
        Kind == {type}
    IN  CASE type = "GLL" -> [type : Kind, lat : Latitudes, side : {"N", "S"}, lon : Longitudes,
                              half : {"E", "W"}, status : {"A", "V"}, mode : {1}]
          [] type = "GGA" -> {s \in [type : Kind, lat : Latitudes, side : {"N", "S"}, lon : Longitudes,
                                     half : {"E", "W"}, quality : {0, 1}] :
                                  s.quality = 1 => s.lat <= 90 /\ s.lon <= 180}
          [] type = "VTG" -> [type : Kind, angle : Angle, speed : Amount, mode : {1}]
          [] type = "VHW" -> [type : Kind, angle : Angle, speed : Amount]
          [] type = "HDT" -> [type : Kind, angle : Angle]
          [] type = "THS" -> [type : Kind, angle : Angle, mode : {0, 1}]
          [] type = "MWV" -> [type : Kind, angle : Angle, speed : Gust, ref : {"R", "T"},
                              unit : {"K", "N", "M"}]
          [] type = "MWD" -> [type : Kind, angle : Angle, speed : Gust, unit : {"N", "K", "M"}]
          [] type = "DBc" -> [type : Kind, of : Depths, depth : Amounts, units : SUBSET {"f", "M", "F"}]
          [] OTHER -> [type : Kind, angle : Angle, speed : Amount]

\* A unit of speed in mm per hour, one of depth in tenths of a mm.
Hourly == [K |-> 1000000, N |-> 1852000, M |-> 3600000]
Length == [f |-> 3048, M |-> 10000, F |-> 18288]

Meaning(type, value, meant) == IF meant THEN {[type |-> type, value |-> value]} ELSE {}

\* North and east are positive, and a position lies on the globe.
Fix(s) ==
    Meaning("Position",
            [lat |-> IF s.side = "N" THEN s.lat ELSE -s.lat,
             lon |-> IF s.half = "E" THEN s.lon ELSE -s.lon],
            s.lat \in 0..90 /\ s.lon \in 0..180)

Wind(speed, unit) == (speed * Hourly[unit]) \div 3600

\* What a talker means by a sentence, after the standard of these sentences: all that it
\* fills in, with positions and headings of the whole circle, speeds and depths of zero, and
\* a wind from a true direction.
Means(s) ==
    CASE s.type = "GLL" /\ s.status = "A" -> Fix(s)
      [] s.type = "GGA" -> Fix(s)
      [] s.type = "VTG" -> Meaning("Course", s.angle, s.angle # Empty)
                             \union Meaning("SpeedOG", s.speed, s.speed # Empty)
      [] s.type = "VHW" -> Meaning("TrueHeading", s.angle, s.angle # Empty)
                             \union Meaning("SpeedTW", s.speed, s.speed # Empty)
      [] s.type \in {"HDT", "THS"} -> Meaning("TrueHeading", s.angle, s.angle # Empty)
      [] s.type = "MWV" ->
             Meaning(IF s.ref = "T" THEN "WindDirT" ELSE "WindDirR", s.angle, s.angle # Empty)
               \union Meaning(IF s.ref = "T" THEN "WindSpeedT" ELSE "WindSpeedR",
                              Wind(s.speed, s.unit), s.speed # Empty)
      [] s.type = "MWD" -> Meaning("WindDirT", s.angle, s.angle # Empty)
                             \union Meaning("WindSpeedT",
                                            Wind(s.speed, IF s.unit = "M" THEN "M" ELSE "N"),
                                            s.speed # Empty)
      [] s.type = "DBc" -> Meaning(s.of, (s.depth * Length[UnitOf(s)]) \div 10, s.units # {})
      [] OTHER -> {}

\* Types whose value the sentence itself calls invalid, or is put to from another type.
Doubts(s) == CASE s.type = "GLL" /\ s.status = "V" -> {"Position"}
               [] s.type = "GGA" /\ s.quality = 0 -> {"Position"}
               [] s.type = "THS" /\ s.mode = 0 -> {"TrueHeading"}
               [] s.type = "MWD" -> {"WindDirR"}
               [] OTHER -> {}

Replaced(values, new) == {v \in values : \A n \in new : n.type # v.type} \union new

Source(s) == CASE s.type = "MWD" /\ s.unit = "N" -> "MWD in knots"
               [] s.type = "MWV" /\ Empty \in {s.angle, s.speed} -> "MWV in part"
               [] s.type = "DBc" /\ UnitOf(s) = "F" -> "DBc in fathoms"
               [] OTHER -> s.type

\* A sentence comes to its parser.
Sentence(s) ==
    /\ todo = << >>
    /\ todo' = Parse(s)
    /\ spoken' = Replaced(spoken, {[type |-> m.type, value |-> m.value, by |-> Source(s)] : m \in Means(s)})
    /\ doubts' = Doubts(s)
    /\ UNCHANGED <<held, dubious>>

\* The parser's next updateData, under the storage's lock.
UpdateData ==
    /\ todo # << >>
    /\ LET u == Head(todo)
       IN  /\ held' = Replaced(held, {u})
           /\ dubious' = (dubious \ {u.type}) \union (doubts \intersect {u.type})
    /\ todo' = Tail(todo)
    /\ UNCHANGED <<spoken, doubts>>

-----------------------------------------------------------------------------
(* Properties *)

\* The updates to come, and their types.
Coming == ToSet(todo)
ComingTypes == {u.type : u \in Coming}

\* What a parser rejects, or puts elsewhere, of what a talker means.
AtMeridian(said) == said.type = "Position" /\ said.value.lon \in {180, -180}

Rejected(said) ==
    \/ AtMeridian(said)
    \/ said.type = "TrueHeading" /\ said.by \in {"HDT", "THS"} /\ said.value >= 180
    \/ said.type \in {"SpeedOG", "SpeedTW"} \union Depths /\ said.value = 0
    \/ said.type \in {"SpeedOG", "SpeedTW"} /\ said.value >= 100
    \/ said.type = "WindDirT" /\ said.by \in {"MWD", "MWD in knots"}
    \/ said.by \in {"MWD in knots", "MWV in part", "DBc in fathoms"}

\* The storage has, or is just to have, what the talker last meant, but for positions at 180
\* degrees east or west, headings of the western half, which are taken from VHW alone, a
\* standstill or no depth, 100 knots and more, fathoms, MWD's knots and a MWV without one of
\* its values, after which the old value stays, and the direction of MWD, which spoils the
\* relative one instead.
HeldIsSpoken ==
    \A said \in spoken :
        \/ Rejected(said)
        \/ [type |-> said.type, value |-> said.value] \in held \union Coming
        \/ said.type = "WindDirR" /\ "WindDirR" \in dubious

\* A position without a fix, or an invalid heading, may be held; but once the sentence in
\* hand has stored its values and their marks, the storage also holds the quality or the mode
\* that says so, whatever sentences came between. A poll in the midst of GGA or of THS may
\* find one without the other, and a fix at 180 degrees east or west, of which only the
\* quality is taken, certifies the old position.
DoubtTold ==
    /\ "Position" \in dubious =>
          \/ [type |-> "GPSQual", value |-> 0] \in held
          \/ {"Position", "GPSQual"} \intersect ComingTypes # {}
          \/ \E said \in spoken : AtMeridian(said)
    /\ "TrueHeading" \in dubious =>
          \/ [type |-> "GyroMode", value |-> 0] \in held
          \/ {"TrueHeading", "GyroMode"} \intersect ComingTypes # {}

=============================================================================
