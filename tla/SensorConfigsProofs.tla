------------------------ MODULE SensorConfigsProofs ------------------------
(***************************************************************************)
(* What holds of SensorConfigs for any number of sensors and of edits, any *)
(* keys and any configurations: the files follow the list, the daemon runs *)
(* with what was saved, and the icons are those of their items.            *)
(***************************************************************************)
EXTENDS SensorConfigs, FiniteSetTheorems, SequenceTheorems, WellFoundedInduction, TLAPS

Config == [KeySet -> Values]
Sensor == [id : Number, config : Config]
File == UNION {[K -> Values] : K \in SUBSET KeySet}

Ids(configs) == {s.id : s \in ToSet(configs)}

ConfigTypes ==
    /\ list \in Seq(Sensor) /\ loaded \in Seq(Sensor) /\ found \in Seq(Number)
    /\ files \in [DOMAIN files -> File] /\ DOMAIN files \subseteq Number
    /\ saving = Rest \/ saving \in [id : Number, done : 0..Len(Keys) - 1]
    /\ dialog = NoDialog \/ dialog \in [id : Number, gone : BOOLEAN]
    /\ partly \in Seq(Values) /\ Len(partly) < Len(LoadKeys)
    /\ daemon \in {"down", "loads", "runs"} /\ meddled \in BOOLEAN /\ ghost \in BOOLEAN

\* No number is given twice. The sensor that is saved, and that of an open dialog, are of the
\* list; every sensor of the list but the one that is saved has a file; and what has not been
\* edited since the daemon began to load, it has loaded or is about to.
NumbersInv ==
    /\ IsInjective(Numbers(list)) /\ IsInjective(Numbers(loaded)) /\ IsInjective(found)
    /\ Ids(loaded) \intersect ToSet(found) = {}
    /\ saving # Rest => saving.id \in Ids(list)
    /\ dialog # NoDialog /\ ~dialog.gone => dialog.id \in Ids(list)
    /\ Ids(list) \subseteq DOMAIN files \union {saving.id}
    /\ saving.done > 0 => saving.id \in DOMAIN files
    /\ daemon = "down" => loaded = << >> /\ found = << >>
    /\ daemon = "runs" => found = << >>
    /\ daemon # "down" /\ ~meddled =>
          (DOMAIN files \union Ids(list)) \ changed \subseteq Ids(loaded) \union ToSet(found)

Agrees(s, k) == Filled(files[s.id])[k] = s.config[k] \/ (k \in Params /\ s.id \in unsaved)

\* The files are what the list shows, the one that is written as far as it has been.
FilesInv ==
    /\ ~ghost => /\ DOMAIN files \subseteq Ids(list)
                 /\ \A s \in ToSet(list), k \in KeySet : s.id # saving.id => Agrees(s, k)
    /\ \A s \in ToSet(list), j \in 1..saving.done :
          s.id = saving.id => /\ Keys[j] \in DOMAIN files[s.id]
                              /\ files[s.id][Keys[j]] = s.config[Keys[j]]

\* A file that no save has cut off and none has begun to write is one that was saved; as long
\* as the UI keeps away, so is what the daemon has loaded and the part it has read.
SavedInv ==
    /\ \A n \in DOMAIN files :
          n \notin torn /\ (n # saving.id \/ saving.done = 0)
            => [id |-> n, config |-> Filled(files[n])] \in saved
    /\ daemon # "down" /\ ~meddled => \A s \in ToSet(loaded) : s \in saved \/ s.id \in torn
    /\ daemon = "loads" /\ ~meddled =>
          /\ saving.done = 0
          /\ ToSet(found) \subseteq DOMAIN files
          /\ \A j \in 1..Len(partly) :
                found # << >> /\ partly[j] = Filled(files[Head(found)])[LoadKeys[j]]

ConfigInv == ConfigTypes /\ NumbersInv /\ FilesInv /\ SavedInv

-----------------------------------------------------------------------------
(* Files *)

LEMMA KeysAre ==
    /\ Keys \in Seq(KeySet) /\ Len(Keys) \in Nat /\ Len(Keys) >= 1 /\ DOMAIN Keys = 1..Len(Keys)
    /\ \A j \in 1..Len(Keys) : Keys[j] \in KeySet
    /\ \A k \in KeySet : \E j \in 1..Len(Keys) : Keys[j] = k
    /\ \A i, j \in 1..Len(Keys) : Keys[i] = Keys[j] => i = j
<1>1. Keys \in Seq(KeySet) /\ Keys # << >> /\ IsInjective(Keys)
  BY ConfigsAssumption
<1>2. Len(Keys) \in Nat /\ DOMAIN Keys = 1..Len(Keys)
  BY <1>1, LenProperties
<1>3. Len(Keys) >= 1
  BY <1>1, <1>2, EmptySeq
<1> QED
  BY <1>1, <1>2, <1>3 DEF KeySet, ToSet, IsInjective

LEMMA LoadKeysAre ==
    /\ LoadKeys \in Seq(KeySet) /\ Len(LoadKeys) \in Nat /\ Len(LoadKeys) >= 1
    /\ DOMAIN LoadKeys = 1..Len(LoadKeys)
    /\ \A j \in 1..Len(LoadKeys) : LoadKeys[j] \in KeySet
    /\ \A k \in KeySet : \E j \in 1..Len(LoadKeys) : LoadKeys[j] = k
    /\ \A i, j \in 1..Len(LoadKeys) : LoadKeys[i] = LoadKeys[j] => i = j
<1>1. LoadKeys \in Seq(KeySet) /\ ToSet(LoadKeys) = KeySet /\ IsInjective(LoadKeys)
  BY ConfigsAssumption
<1>2. Len(LoadKeys) \in Nat /\ DOMAIN LoadKeys = 1..Len(LoadKeys)
  BY <1>1, LenProperties
<1>3. \A k \in KeySet : \E j \in 1..Len(LoadKeys) : LoadKeys[j] = k
  BY <1>1, <1>2 DEF ToSet
<1>4. Len(LoadKeys) >= 1
  <2>1. Keys[1] \in KeySet
    BY KeysAre
  <2>2. PICK j \in 1..Len(LoadKeys) : LoadKeys[j] = Keys[1]
    BY <1>3, <2>1
  <2> QED
    BY <1>2, <2>2
<1>5. \A j \in 1..Len(LoadKeys) : LoadKeys[j] \in KeySet
  BY <1>1, <1>2, ElementOfSeq
<1> QED
  BY <1>1, <1>2, <1>3, <1>4, <1>5 DEF IsInjective

LEMMA NumbersArePositive ==
    /\ MaxSensors \in Nat /\ Number \subseteq Nat /\ 0 \notin Number
    /\ IsFiniteSet(Number) /\ Cardinality(Number) = MaxSensors
<1>1. MaxSensors \in Nat
  BY ConfigsAssumption
<1>2. IsFiniteSet(1..MaxSensors) /\ Cardinality(1..MaxSensors) = MaxSensors
  <2>1. CASE MaxSensors = 0
    BY <2>1, FS_Interval
  <2>2. CASE MaxSensors > 0
    BY <1>1, <2>2, FS_Interval
  <2> QED
    BY <1>1, <2>1, <2>2
<1> QED
  BY <1>1, <1>2 DEF Number

\* A configuration is a file with every key, and reads as what it is.
LEMMA ConfigIsFile == Config \subseteq File
  BY DEF Config, File

LEMMA FilledConfig ==
    /\ \A c \in Config : Filled(c) = c
    /\ \A f \in File : Filled(f) \in Config
    /\ Filled(NoValues) \in Config
<1>1. Default \in Config
  BY ConfigsAssumption DEF Config
<1>2. ASSUME NEW c \in Config PROVE Filled(c) = c
  BY DEF Config, Filled
<1>3. ASSUME NEW f \in File PROVE Filled(f) \in Config
  <2>1. PICK K \in SUBSET KeySet : f \in [K -> Values]
    BY DEF File
  <2>2. \A k \in KeySet : (IF k \in DOMAIN f THEN f[k] ELSE Default[k]) \in Values
    BY <1>1, <2>1 DEF Config
  <2> QED
    BY <2>2 DEF Filled, Config
<1>4. Filled(NoValues) \in Config
  BY <1>1 DEF Filled, NoValues, Config
<1> QED
  BY <1>2, <1>3, <1>4

-----------------------------------------------------------------------------
(* Sequences of sensors *)

LEMMA InSeq ==
    ASSUME NEW S, NEW seq \in Seq(S)
    PROVE  /\ DOMAIN seq = 1..Len(seq) /\ Len(seq) \in Nat
           /\ ToSet(seq) \subseteq S
           /\ \A x : x \in ToSet(seq) <=> \E i \in 1..Len(seq) : seq[i] = x
<1>1. DOMAIN seq = 1..Len(seq) /\ Len(seq) \in Nat /\ \A i \in 1..Len(seq) : seq[i] \in S
  BY LenProperties, ElementOfSeq
<1> QED
  BY <1>1 DEF ToSet

\* Numbers that are not given twice tell the sensors apart.
LEMMA OneOfANumber ==
    ASSUME NEW seq \in Seq(Sensor)
    PROVE  /\ ToSet(Numbers(seq)) = Ids(seq) /\ Ids(seq) \subseteq Number
           /\ IsInjective(Numbers(seq))
                <=> \A i, j \in 1..Len(seq) : seq[i].id = seq[j].id => i = j
           /\ IsInjective(Numbers(seq))
                => \A s, t \in ToSet(seq) : s.id = t.id => s = t
<1>1. DOMAIN seq = 1..Len(seq) /\ \A i \in 1..Len(seq) : seq[i] \in Sensor
  BY InSeq, ElementOfSeq
<1>2. DOMAIN Numbers(seq) = 1..Len(seq) /\ \A i \in 1..Len(seq) : Numbers(seq)[i] = seq[i].id
  BY <1>1 DEF Numbers
<1>3. ToSet(Numbers(seq)) = Ids(seq) /\ Ids(seq) \subseteq Number
  BY <1>1, <1>2 DEF ToSet, Ids, Sensor
<1>4. IsInjective(Numbers(seq)) <=> \A i, j \in 1..Len(seq) : seq[i].id = seq[j].id => i = j
  BY <1>2 DEF IsInjective
<1>5. IsInjective(Numbers(seq)) => \A s, t \in ToSet(seq) : s.id = t.id => s = t
  BY <1>1, <1>4 DEF ToSet
<1> QED
  BY <1>3, <1>4, <1>5

LEMMA IdOfSensor ==
    ASSUME NEW seq \in Seq(Sensor), NEW s \in ToSet(seq)
    PROVE  s \in Sensor /\ s.id \in Number /\ s.config \in Config /\ s.id \in Ids(seq)
<1>1. s \in Sensor
  BY InSeq
<1> QED
  BY <1>1 DEF Sensor, Ids

LEMMA OneMore ==
    ASSUME NEW seq \in Seq(Sensor), NEW s \in Sensor
    PROVE  /\ Append(seq, s) \in Seq(Sensor)
           /\ ToSet(Append(seq, s)) = ToSet(seq) \union {s}
           /\ Ids(Append(seq, s)) = Ids(seq) \union {s.id}
           /\ IsInjective(Numbers(seq)) /\ s.id \notin Ids(seq)
                => IsInjective(Numbers(Append(seq, s)))
<1> DEFINE more == Append(seq, s)
<1>1. /\ more \in Seq(Sensor) /\ Len(more) = Len(seq) + 1 /\ more[Len(seq) + 1] = s
      /\ \A i \in 1..Len(seq) : more[i] = seq[i]
  BY AppendProperties
<1>2. Len(seq) \in Nat
  BY InSeq
<1> HIDE DEF more
<1>3. 1..Len(more) = 1..Len(seq) \union {Len(seq) + 1}
  BY <1>1, <1>2
<1>4. ToSet(more) = ToSet(seq) \union {s}
  <2>1. ASSUME NEW x PROVE x \in ToSet(more) <=> x \in ToSet(seq) \union {s}
    <3>1. x \in ToSet(more) <=> \E i \in 1..Len(more) : more[i] = x
      BY <1>1, InSeq
    <3>2. x \in ToSet(seq) <=> \E i \in 1..Len(seq) : seq[i] = x
      BY InSeq
    <3> QED
      BY <1>1, <1>3, <3>1, <3>2
  <2> QED
    BY <2>1
<1>5. Ids(more) = Ids(seq) \union {s.id}
  BY <1>4 DEF Ids
<1>6. ASSUME IsInjective(Numbers(seq)), s.id \notin Ids(seq)
      PROVE  IsInjective(Numbers(more))
  <2>1. \A i, j \in 1..Len(seq) : seq[i].id = seq[j].id => i = j
    BY <1>6, OneOfANumber
  <2>2. \A i \in 1..Len(seq) : seq[i].id # s.id
    BY <1>6, InSeq DEF Ids
  <2>3. \A i, j \in 1..Len(more) : more[i].id = more[j].id => i = j
    BY <1>1, <1>3, <2>1, <2>2
  <2> QED
    BY <1>1, <2>3, OneOfANumber
<1> QED
  BY <1>1, <1>4, <1>5, <1>6 DEF more

LEMMA OneLess ==
    ASSUME NEW seq \in Seq(Sensor), IsInjective(Numbers(seq)), NEW i \in DOMAIN seq
    PROVE  /\ RemoveAt(seq, i) \in Seq(Sensor)
           /\ ToSet(RemoveAt(seq, i)) = {s \in ToSet(seq) : s.id # seq[i].id}
           /\ Ids(RemoveAt(seq, i)) = Ids(seq) \ {seq[i].id}
           /\ IsInjective(Numbers(RemoveAt(seq, i)))
<1> DEFINE less == RemoveAt(seq, i)
           n == Len(seq)
           before == SubSeq(seq, 1, i - 1)
           after == SubSeq(seq, i + 1, n)
<1>1. n \in Nat /\ i \in 1..n /\ \A j \in 1..n : seq[j] \in Sensor
  BY InSeq, ElementOfSeq
<1>2. before \in Seq(Sensor) /\ Len(before) = i - 1 /\ \A j \in 1..i - 1 : before[j] = seq[j]
  BY <1>1, SubSeqProperties
<1>3. after \in Seq(Sensor) /\ Len(after) = n - i /\ \A j \in 1..n - i : after[j] = seq[i + j]
  BY <1>1, SubSeqProperties
<1>4. /\ less \in Seq(Sensor) /\ Len(less) = n - 1
      /\ \A j \in 1..n - 1 : less[j] = IF j < i THEN seq[j] ELSE seq[j + 1]
  <2>1. less = before \o after
    BY DEF RemoveAt
  <2> HIDE DEF before, after, less, n
  <2>2. /\ less \in Seq(Sensor) /\ Len(less) = Len(before) + Len(after)
        /\ \A j \in 1..Len(before) + Len(after) :
             less[j] = IF j <= Len(before) THEN before[j] ELSE after[j - Len(before)]
    BY <1>2, <1>3, <2>1, ConcatProperties
  <2>3. Len(before) = i - 1 /\ Len(before) + Len(after) = n - 1
    BY <1>1, <1>2, <1>3
  <2>4. ASSUME NEW j \in 1..n - 1 PROVE less[j] = IF j < i THEN seq[j] ELSE seq[j + 1]
    <3>1. CASE j < i
      BY <1>1, <1>2, <2>2, <2>3, <3>1
    <3>2. CASE ~(j < i)
      <4>1. j - (i - 1) \in 1..n - i /\ i + (j - (i - 1)) = j + 1 /\ ~(j <= i - 1)
        BY <1>1, <3>2
      <4> QED
        BY <1>3, <2>2, <2>3, <3>2, <4>1
    <3> QED
      BY <3>1, <3>2
  <2> QED
    BY <2>2, <2>3, <2>4
<1> HIDE DEF less, n, before, after
<1>5. \A j, k \in 1..n : seq[j].id = seq[k].id => j = k
  BY OneOfANumber DEF n
<1>6. ASSUME NEW j \in 1..n - 1
      PROVE  \E k \in 1..n : less[j] = seq[k] /\ k # i /\ k = IF j < i THEN j ELSE j + 1
  BY <1>1, <1>4
<1>7. ASSUME NEW k \in 1..n, k # i PROVE \E j \in 1..n - 1 : less[j] = seq[k]
  <2>1. CASE k < i
    <3>1. k \in 1..n - 1
      BY <1>1, <2>1
    <3> QED
      BY <1>4, <2>1, <3>1
  <2>2. CASE ~(k < i)
    <3>1. k - 1 \in 1..n - 1 /\ ~(k - 1 < i) /\ (k - 1) + 1 = k
      BY <1>1, <1>7, <2>2
    <3> QED
      BY <1>4, <3>1
  <2> QED
    BY <2>1, <2>2
<1>8. ToSet(less) = {s \in ToSet(seq) : s.id # seq[i].id}
  <2>1. ASSUME NEW x PROVE x \in ToSet(less) <=> x \in {s \in ToSet(seq) : s.id # seq[i].id}
    <3>1. x \in ToSet(less) <=> \E j \in 1..n - 1 : less[j] = x
      BY <1>4, InSeq
    <3>2. x \in ToSet(seq) <=> \E k \in 1..n : seq[k] = x
      BY InSeq DEF n
    <3>3. ASSUME x \in ToSet(less) PROVE x \in ToSet(seq) /\ x.id # seq[i].id
      <4>1. PICK j \in 1..n - 1 : less[j] = x
        BY <3>1, <3>3
      <4>2. PICK k \in 1..n : x = seq[k] /\ k # i
        BY <1>6, <4>1
      <4> QED
        BY <1>1, <1>5, <3>2, <4>2
    <3>4. ASSUME x \in ToSet(seq), x.id # seq[i].id PROVE x \in ToSet(less)
      <4>1. PICK k \in 1..n : seq[k] = x
        BY <3>2, <3>4
      <4>2. k # i
        BY <3>4, <4>1
      <4> QED
        BY <1>7, <3>1, <4>1, <4>2
    <3> QED
      BY <3>3, <3>4
  <2> QED
    BY <2>1
<1>9. Ids(less) = Ids(seq) \ {seq[i].id}
  BY <1>8 DEF Ids
<1>10. IsInjective(Numbers(less))
  <2>1. ASSUME NEW j \in 1..n - 1, NEW k \in 1..n - 1, less[j].id = less[k].id
        PROVE  j = k
    <3>1. PICK j1 \in 1..n : less[j] = seq[j1] /\ j1 # i /\ j1 = IF j < i THEN j ELSE j + 1
      BY <1>6
    <3>2. PICK k1 \in 1..n : less[k] = seq[k1] /\ k1 # i /\ k1 = IF k < i THEN k ELSE k + 1
      BY <1>6
    <3>3. j1 = k1
      BY <1>5, <2>1, <3>1, <3>2
    <3> QED
      BY <1>1, <3>1, <3>2, <3>3
  <2> QED
    BY <1>4, <2>1, OneOfANumber
<1> QED
  BY <1>4, <1>8, <1>9, <1>10 DEF less

\* Files are found in some order, each of them once.
LEMMA FoundInOrder ==
    ASSUME NEW S \in SUBSET Number
    PROVE  /\ InOrder(S) \in Seq(Number) /\ Len(InOrder(S)) = Cardinality(S)
           /\ Cardinality(S) \in Nat
           /\ ToSet(InOrder(S)) = S
           /\ IsInjective(InOrder(S))
<1> DEFINE c == Cardinality(S)
           Below(n) == {other \in S : other < n}
           rank == [n \in S |-> Cardinality(Below(n))]
           o == InOrder(S)
<1>1. IsFiniteSet(S) /\ c \in Nat /\ S \subseteq Nat
  BY NumbersArePositive, FS_Subset, FS_CardinalityType
<1>2. ASSUME NEW n \in S PROVE IsFiniteSet(Below(n)) /\ rank[n] = Cardinality(Below(n)) /\ rank[n] \in 0..c - 1
  <2>1. IsFiniteSet(S \ {n}) /\ Cardinality(S \ {n}) = c - 1
    BY <1>1, FS_RemoveElement
  <2>2. Below(n) \subseteq S \ {n}
    BY <1>1
  <2>3. IsFiniteSet(Below(n)) /\ Cardinality(Below(n)) <= c - 1
    BY <2>1, <2>2, FS_Subset
  <2>4. Cardinality(Below(n)) \in Nat
    BY <2>3, FS_CardinalityType
  <2> QED
    BY <1>1, <2>3, <2>4
<1>3. ASSUME NEW n \in S, NEW m \in S, n < m PROVE rank[n] < rank[m]
  <2>1. Below(n) \union {n} \subseteq Below(m) /\ n \notin Below(n)
    <3>1. n \in Nat /\ m \in Nat
      BY <1>1
    <3>2. \A other \in S : other < n => other < m
      BY <1>1, <1>3, <3>1
    <3>3. ~(n < n)
      BY <3>1
    <3> QED
      BY <1>3, <3>2, <3>3
  <2>2. /\ IsFiniteSet(Below(n) \union {n})
        /\ Cardinality(Below(n) \union {n}) = Cardinality(Below(n)) + 1
    BY <1>2, <2>1, FS_AddElement
  <2>3. Cardinality(Below(n) \union {n}) <= Cardinality(Below(m))
    BY <1>2, <2>1, FS_Subset
  <2> QED
    BY <1>1, <1>2, <2>2, <2>3
<1> HIDE DEF rank
<1>4. \A n, m \in S : rank[n] = rank[m] => n = m
  <2> SUFFICES ASSUME NEW n \in S, NEW m \in S, rank[n] = rank[m], n # m PROVE FALSE
    OBVIOUS
  <2>1. n < m \/ m < n
    BY <1>1
  <2>2. rank[n] < rank[m] \/ rank[m] < rank[n]
    BY <1>3, <2>1
  <2>3. rank[n] \in 0..c - 1
    BY <1>2
  <2> HIDE DEF c
  <2> QED
    BY <2>2, <2>3
<1>5. rank \in Injection(S, 0..c - 1)
  <2>1. rank = [n \in S |-> rank[n]]
    BY DEF rank
  <2> QED
    BY <1>2, <1>4, <2>1 DEF Injection, IsInjective
<1>6. \A i \in 0..c - 1 : \E n \in S : rank[n] = i
  <2>1. IsFiniteSet(0..c - 1) /\ Cardinality(0..c - 1) = c
    <3>1. 0 \in Int /\ c - 1 \in Int
      BY <1>1
    <3>2. /\ IsFiniteSet(0..c - 1)
          /\ Cardinality(0..c - 1) = IF 0 > c - 1 THEN 0 ELSE (c - 1) - 0 + 1
      BY <3>1, FS_Interval
    <3> HIDE DEF c
    <3> QED
      BY <1>1, <3>2
  <2>2. rank \in Surjection(S, 0..c - 1)
    BY <1>1, <1>5, <2>1, FS_Injection
  <2> QED
    BY <2>2 DEF Surjection
<1>7. DOMAIN o = 1..c
  BY DEF InOrder
<1>8. ASSUME NEW i \in 1..c PROVE o[i] \in S /\ rank[o[i]] = i - 1
  <2>1. i - 1 \in 0..c - 1
    BY <1>1
  <2>2. o[i] = CHOOSE n \in S : rank[n] = i - 1
    BY DEF InOrder, rank
  <2> QED
    BY <1>6, <2>1, <2>2
<1>9. o \in [1..c -> Number]
  <2> DEFINE nth(i) == CHOOSE n \in S : Cardinality(Below(n)) = i - 1
  <2>0. o = [i \in 1..c |-> nth(i)]
    BY DEF InOrder
  <2> HIDE DEF nth
  <2>1. o = [i \in 1..c |-> o[i]]
    BY <2>0
  <2> HIDE DEF o
  <2> QED
    BY <1>8, <2>1
<1> HIDE DEF o
<1>10. o \in Seq(Number) /\ Len(o) = c
  <2>1. o \in Seq(Number)
    BY <1>1, <1>9, SeqDef
  <2> QED
    BY <1>1, <1>7, <2>1, LenProperties
<1>11. ToSet(o) = S
  <2>1. ToSet(o) \subseteq S
    BY <1>7, <1>8 DEF ToSet
  <2>2. ASSUME NEW n \in S PROVE n \in ToSet(o)
    <3>0. rank[n] \in 0..c - 1
      BY <1>2
    <3>1. rank[n] + 1 \in 1..c /\ (rank[n] + 1) - 1 = rank[n]
      <4> HIDE DEF c
      <4> QED
        BY <1>1, <3>0
    <3>2. o[rank[n] + 1] = n
      BY <1>4, <1>8, <3>1
    <3> QED
      BY <1>7, <3>1, <3>2 DEF ToSet
  <2> QED
    BY <2>1, <2>2
<1>12. IsInjective(o)
  <2>1. ASSUME NEW i \in 1..c, NEW j \in 1..c, o[i] = o[j] PROVE i = j
    <3>1. i - 1 = j - 1
      BY <1>8, <2>1
    <3> QED
      BY <3>1
  <2> QED
    BY <1>7, <2>1 DEF IsInjective
<1> QED
  BY <1>1, <1>10, <1>11, <1>12 DEF o

\* As long as the list has room there is a number that nobody has.
LEMMA NumberIsUnused ==
    ASSUME list \in Seq(Sensor), Len(list) < MaxSensors
    PROVE  UnusedNumber \in Number /\ UnusedNumber \notin Ids(list)
<1> DEFINE T == Number \ Ids(list)
           Free(n) == /\ n \notin ToSet(Numbers(list))
                      /\ \A j \in 1..n - 1 : j \in ToSet(Numbers(list))
<1>1. /\ Len(list) \in Nat /\ \A i \in 1..Len(list) : list[i].id \in Ids(list)
      /\ \A n \in Ids(list) : \E i \in 1..Len(list) : list[i].id = n
  BY InSeq DEF Ids
<1>2. ToSet(Numbers(list)) = Ids(list)
  BY OneOfANumber
<1>3. T # {}
  <2> SUFFICES ASSUME Number \subseteq Ids(list) PROVE FALSE
    OBVIOUS
  <2>1. [i \in 1..Len(list) |-> list[i].id] \in Surjection(1..Len(list), Ids(list))
    BY <1>1 DEF Surjection
  <2>2. IsFiniteSet(1..Len(list)) /\ Cardinality(1..Len(list)) = Len(list)
    <3>1. /\ IsFiniteSet(1..Len(list))
          /\ Cardinality(1..Len(list)) = IF 1 > Len(list) THEN 0 ELSE Len(list) - 1 + 1
      BY <1>1, FS_Interval
    <3> QED
      BY <1>1, <3>1
  <2>3. IsFiniteSet(Ids(list)) /\ Cardinality(Ids(list)) <= Len(list)
    BY <2>1, <2>2, FS_Surjection
  <2>4. Cardinality(Number) <= Cardinality(Ids(list)) /\ Cardinality(Ids(list)) \in Nat
    BY <2>3, FS_Subset, FS_CardinalityType
  <2> QED
    BY <1>1, <2>3, <2>4, NumbersArePositive
<1>4. PICK n \in T : \A m \in T : n <= m
  <2>1. T \subseteq Nat
    BY NumbersArePositive
  <2> DEFINE R == {ss \in Nat \X Nat : ss[1] < ss[2]}
  <2>2. IsWellFoundedOn(R, Nat)
    BY NatLessThanWellFounded DEF OpToRel
  <2> HIDE DEF R, T
  <2>3. PICK n \in T : \A m \in T : ~(<<m, n>> \in R)
    BY <1>3, <2>1, <2>2, WFMin
  <2>4. ASSUME NEW m \in T PROVE n <= m
    <3>1. m \in Nat /\ n \in Nat
      BY <2>1
    <3>2. m < n => <<m, n>> \in R
      BY <3>1 DEF R
    <3> QED
      BY <2>3, <3>1, <3>2
  <2> QED
    BY <2>4
<1>5. n \in Number /\ Free(n)
  <2>1. ASSUME NEW j \in 1..n - 1 PROVE j \in Ids(list)
    <3>1. j \in Number /\ j < n
      BY NumbersArePositive DEF Number
    <3> QED
      BY <1>4, <3>1, NumbersArePositive
  <2> QED
    BY <1>2, <2>1
<1>6. UnusedNumber = CHOOSE m \in Number : Free(m)
  BY DEF UnusedNumber
<1>7. UnusedNumber \in Number /\ Free(UnusedNumber)
  <2> HIDE DEF Free
  <2> QED
    BY <1>5, <1>6
<1> QED
  BY <1>2, <1>7

\* What a dialog writes leaves everybody's number, and the other sensors, as they are.
LEMMA WrittenList ==
    ASSUME list \in Seq(Sensor), NEW c \in Config, NEW keys \in SUBSET KeySet
    PROVE  /\ Written(keys, c) \in Seq(Sensor)
           /\ Numbers(Written(keys, c)) = Numbers(list) /\ Ids(Written(keys, c)) = Ids(list)
           /\ \A t \in ToSet(Written(keys, c)) : \E s \in ToSet(list) :
                 /\ s.id = t.id
                 /\ t.id # dialog.id => t = s
                 /\ \A k \in KeySet \ keys : t.config[k] = s.config[k]
<1> DEFINE w == Written(keys, c)
           n == Len(list)
<1>1. n \in Nat /\ DOMAIN list = 1..n /\ \A i \in 1..n : list[i] \in Sensor /\ list[i] \in ToSet(list)
  BY InSeq, ElementOfSeq
<1>2. DOMAIN w = 1..n
  BY <1>1 DEF Written
<1>3. ASSUME NEW i \in 1..n
      PROVE  /\ w[i] \in Sensor /\ w[i].id = list[i].id
             /\ list[i].id # dialog.id => w[i] = list[i]
             /\ \A k \in KeySet \ keys : w[i].config[k] = list[i].config[k]
  <2>1. PICK id \in Number, old \in Config : list[i] = [id |-> id, config |-> old]
    BY <1>1 DEF Sensor
  <2>2. CASE list[i].id # dialog.id
    <3>1. w[i] = list[i]
      BY <1>1, <2>2 DEF Written
    <3> QED
      BY <1>1, <3>1
  <2>3. CASE list[i].id = dialog.id
    <3> DEFINE new == [k \in KeySet |-> IF k \in keys THEN c[k] ELSE old[k]]
    <3>1. w[i] = [id |-> id, config |-> new]
      BY <1>1, <2>1, <2>3 DEF Written
    <3>2. new \in Config
      BY DEF Config
    <3>3. \A k \in KeySet \ keys : new[k] = old[k]
      OBVIOUS
    <3> HIDE DEF new
    <3> QED
      BY <2>1, <2>3, <3>1, <3>2, <3>3 DEF Sensor
  <2> QED
    BY <2>2, <2>3
<1>4. w \in [1..n -> Sensor]
  <2>1. w = [i \in 1..n |-> w[i]]
    BY <1>1 DEF Written
  <2> HIDE DEF w
  <2> QED
    BY <1>3, <2>1
<1> HIDE DEF w
<1>5. w \in Seq(Sensor) /\ Len(w) = n
  <2>1. w \in Seq(Sensor)
    BY <1>1, <1>4, SeqDef
  <2> QED
    BY <1>1, <1>2, <2>1, LenProperties
<1>6. Numbers(w) = Numbers(list)
  BY <1>1, <1>2, <1>3 DEF Numbers
<1>7. Ids(w) = Ids(list)
  BY <1>5, <1>6, OneOfANumber
<1>8. ASSUME NEW t \in ToSet(w)
      PROVE  \E s \in ToSet(list) : /\ s.id = t.id
                                    /\ t.id # dialog.id => t = s
                                    /\ \A k \in KeySet \ keys : t.config[k] = s.config[k]
  <2>1. PICK i \in 1..n : t = w[i]
    BY <1>5, InSeq
  <2> QED
    BY <1>1, <1>3, <2>1
<1> QED
  BY <1>5, <1>6, <1>7, <1>8 DEF w

-----------------------------------------------------------------------------
(* The UI *)

LEMMA SensorAdded ==
    ASSUME ConfigInv, NEW c \in Configs, Add(c)
    PROVE  ConfigInv'
<1> DEFINE new == [id |-> UnusedNumber, config |-> c]
<1> USE DEF ConfigInv
<1>1. /\ saving = Rest /\ Len(list) < MaxSensors
      /\ list' = Append(list, new) /\ saving' = [id |-> UnusedNumber, done |-> 0]
      /\ changed' = changed \union {UnusedNumber}
      /\ UNCHANGED <<files, dialog, daemon, found, partly, loaded, saved, unsaved, ghost, torn,
                     meddled>>
  BY DEF Add, Edits, daemonVars
<1>2. UnusedNumber \in Number /\ UnusedNumber \notin Ids(list)
  BY <1>1, NumberIsUnused DEF ConfigTypes
<1>3. new \in Sensor /\ new.id = UnusedNumber
  BY <1>2, ConfigsAssumption DEF Sensor, Config
<1> HIDE DEF new
<1>4. /\ list' \in Seq(Sensor) /\ ToSet(list') = ToSet(list) \union {new}
      /\ Ids(list') = Ids(list) \union {UnusedNumber}
      /\ IsInjective(Numbers(list'))
  BY <1>1, <1>2, <1>3, OneMore DEF ConfigTypes, NumbersInv
<1>5. saving'.id = UnusedNumber /\ saving'.done = 0 /\ saving' # Rest /\ saving.id = 0 /\ saving.done = 0
  BY <1>1, <1>2, NumbersArePositive DEF Rest
<1>6. ConfigTypes'
  <2>1. saving' \in [id : Number, done : 0..Len(Keys) - 1]
    BY <1>1, <1>2, KeysAre
  <2> QED
    BY <1>1, <1>4, <2>1 DEF ConfigTypes
<1>7. NumbersInv'
  <2>1. Ids(list) \subseteq DOMAIN files
    BY <1>5, OneOfANumber, NumbersArePositive DEF NumbersInv, ConfigTypes
  <2>2. /\ saving' # Rest => saving'.id \in Ids(list')
        /\ dialog' # NoDialog /\ ~dialog'.gone => dialog'.id \in Ids(list')
        /\ Ids(list') \subseteq DOMAIN files' \union {saving'.id}
        /\ saving'.done > 0 => saving'.id \in DOMAIN files'
    BY <1>1, <1>4, <1>5, <2>1 DEF NumbersInv
  <2>3. Ids(loaded)' = Ids(loaded)
    BY <1>1 DEF Ids
  <2>4. daemon' # "down" /\ ~meddled' =>
          (DOMAIN files' \union Ids(list')) \ changed' \subseteq Ids(loaded) \union ToSet(found)
    BY <1>1, <1>4 DEF NumbersInv
  <2> QED
    BY <1>1, <1>4, <2>2, <2>3, <2>4 DEF NumbersInv
<1>8. FilesInv'
  <2>1. ASSUME ~ghost, NEW s \in ToSet(list'), NEW k \in KeySet, s.id # UnusedNumber
        PROVE  Agrees(s, k)
    <3>1. s \in ToSet(list)
      BY <1>3, <1>4, <2>1
    <3>2. s.id # saving.id
      <4>1. s.id \in Number
        BY <3>1, IdOfSensor DEF ConfigTypes
      <4> QED
        BY <1>5, <4>1, NumbersArePositive
    <3> QED
      BY <2>1, <3>1, <3>2 DEF FilesInv
  <2>2. ASSUME ~ghost PROVE DOMAIN files \subseteq Ids(list')
    BY <1>4, <2>2 DEF FilesInv
  <2>3. 1..saving'.done = {}
    BY <1>5
  <2> QED
    BY <1>1, <1>5, <2>1, <2>2, <2>3 DEF FilesInv, Agrees
<1>9. SavedInv'
  BY <1>1, <1>5 DEF SavedInv
<1> QED
  BY <1>6, <1>7, <1>8, <1>9

LEMMA DialogOpened ==
    ASSUME ConfigInv, NEW i \in DOMAIN list, OpenDialog(i)
    PROVE  ConfigInv'
<1> USE DEF ConfigInv
<1>1. /\ dialog' = [id |-> list[i].id, gone |-> FALSE]
      /\ changed' = changed \union {list[i].id}
      /\ UNCHANGED <<list, files, saving, daemon, found, partly, loaded, saved, unsaved, ghost, torn,
                     meddled>>
  BY DEF OpenDialog, Edits, daemonVars
<1>2. list[i].id \in Ids(list) /\ list[i].id \in Number
  BY OneOfANumber DEF Ids, ToSet, ConfigTypes
<1>3. ConfigTypes'
  BY <1>1, <1>2 DEF ConfigTypes
<1>4. NumbersInv'
  <2>1. Ids(list)' = Ids(list) /\ Ids(loaded)' = Ids(loaded)
    BY <1>1 DEF Ids
  <2>2. dialog'.id = list[i].id
    BY <1>1
  <2> QED
    BY <1>1, <1>2, <2>1, <2>2 DEF NumbersInv
<1>5. FilesInv'
  BY <1>1 DEF FilesInv, Agrees, Ids
<1>6. SavedInv'
  BY <1>1 DEF SavedInv
<1> QED
  BY <1>3, <1>4, <1>5, <1>6

LEMMA ParamsSet ==
    ASSUME ConfigInv, NEW c \in Configs, SetParams(c)
    PROVE  ConfigInv'
<1> USE DEF ConfigInv
<1>1. /\ saving = Rest /\ dialog # NoDialog /\ ~dialog.gone
      /\ list' = Written(Params, c) /\ unsaved' = unsaved \union {dialog.id}
      /\ UNCHANGED <<files, saving, dialog, daemon, found, partly, loaded, saved, ghost, torn, meddled,
                     changed>>
  BY DEF SetParams, daemonVars
<1>2. c \in Config /\ Params \subseteq KeySet
  BY ConfigsAssumption DEF Config
<1>3. /\ list' \in Seq(Sensor) /\ Numbers(list') = Numbers(list) /\ Ids(list') = Ids(list)
      /\ \A t \in ToSet(list') : \E s \in ToSet(list) :
            /\ s.id = t.id
            /\ t.id # dialog.id => t = s
            /\ \A k \in KeySet \ Params : t.config[k] = s.config[k]
  BY <1>1, <1>2, WrittenList DEF ConfigTypes
<1>4. Ids(loaded)' = Ids(loaded) /\ ToSet(found)' = ToSet(found) /\ saving.done = 0
  BY <1>1 DEF Ids, Rest
<1>5. ConfigTypes'
  BY <1>1, <1>3 DEF ConfigTypes
<1>6. NumbersInv'
  BY <1>1, <1>3, <1>4 DEF NumbersInv
<1>7. FilesInv'
  <2>1. ASSUME ~ghost, NEW t \in ToSet(list'), NEW k \in KeySet, t.id # saving.id
        PROVE  Agrees(t, k)'
    <3>1. PICK s \in ToSet(list) : /\ s.id = t.id
                                   /\ t.id # dialog.id => t = s
                                   /\ \A l \in KeySet \ Params : t.config[l] = s.config[l]
      BY <1>3
    <3>2. Agrees(s, k)
      BY <2>1, <3>1 DEF FilesInv
    <3>3. CASE t.id = dialog.id /\ k \in Params
      BY <1>1, <3>3 DEF Agrees
    <3>4. CASE ~(t.id = dialog.id /\ k \in Params)
      <4>1. t.config[k] = s.config[k]
        BY <3>1, <3>4
      <4> QED
        BY <1>1, <3>1, <3>2, <4>1 DEF Agrees
    <3> QED
      BY <3>3, <3>4
  <2>2. 1..saving.done = {}
    BY <1>4
  <2> QED
    BY <1>1, <1>3, <2>1, <2>2 DEF FilesInv
<1>8. SavedInv'
  BY <1>1 DEF SavedInv
<1> QED
  BY <1>5, <1>6, <1>7, <1>8

LEMMA DialogConfirmed ==
    ASSUME ConfigInv, NEW c \in Configs, Confirm(c)
    PROVE  ConfigInv'
<1> USE DEF ConfigInv
<1>1. /\ saving = Rest /\ dialog # NoDialog /\ ~dialog.gone
      /\ list' = Written(KeySet \ Params, c) /\ saving' = [id |-> dialog.id, done |-> 0]
      /\ dialog' = NoDialog
      /\ UNCHANGED <<files, daemon, found, partly, loaded, saved, unsaved, ghost, torn, meddled,
                     changed>>
  BY DEF Confirm, daemonVars
<1>2. c \in Config /\ KeySet \ Params \subseteq KeySet
  BY ConfigsAssumption DEF Config
<1>3. /\ list' \in Seq(Sensor) /\ Numbers(list') = Numbers(list) /\ Ids(list') = Ids(list)
      /\ \A t \in ToSet(list') : \E s \in ToSet(list) :
            /\ s.id = t.id
            /\ t.id # dialog.id => t = s
  BY <1>1, <1>2, WrittenList DEF ConfigTypes
<1>4. /\ Ids(loaded)' = Ids(loaded) /\ ToSet(found)' = ToSet(found)
      /\ saving.id = 0 /\ saving.done = 0 /\ saving'.id = dialog.id /\ saving'.done = 0
  BY <1>1 DEF Ids, Rest
<1>5. dialog.id \in Ids(list) /\ dialog.id \in Number
  BY <1>1, OneOfANumber DEF NumbersInv, ConfigTypes
<1>6. ConfigTypes'
  <2>1. saving' \in [id : Number, done : 0..Len(Keys) - 1]
    BY <1>1, <1>5, KeysAre
  <2> QED
    BY <1>1, <1>3, <2>1 DEF ConfigTypes
<1>7. NumbersInv'
  <2>1. Ids(list) \subseteq DOMAIN files
    BY <1>4, OneOfANumber, NumbersArePositive DEF NumbersInv, ConfigTypes
  <2> QED
    BY <1>1, <1>3, <1>4, <1>5, <2>1 DEF NumbersInv
<1>8. FilesInv'
  <2>1. ASSUME ~ghost, NEW t \in ToSet(list'), NEW k \in KeySet, t.id # dialog.id
        PROVE  Agrees(t, k)'
    <3>1. t \in ToSet(list)
      BY <1>3, <2>1
    <3>2. t.id # saving.id
      BY <1>4, <3>1, IdOfSensor, NumbersArePositive DEF ConfigTypes
    <3> QED
      BY <1>1, <2>1, <3>1, <3>2 DEF FilesInv, Agrees
  <2>2. 1..saving'.done = {}
    BY <1>4
  <2> QED
    BY <1>1, <1>3, <1>4, <2>1, <2>2 DEF FilesInv
<1>9. SavedInv'
  BY <1>1, <1>4 DEF SavedInv
<1> QED
  BY <1>6, <1>7, <1>8, <1>9

\* Confirming the dialog of a sensor that is gone may bring its file back, with all the keys.
LEMMA GhostConfirmed ==
    ASSUME ConfigInv, NEW c \in Configs, ConfirmGone(c)
    PROVE  ConfigInv'
<1> USE DEF ConfigInv
<1> DEFINE back == [n \in DOMAIN files \union {dialog.id} |-> IF n = dialog.id THEN c ELSE files[n]]
<1>1. /\ saving = Rest /\ dialog.gone /\ dialog' = NoDialog /\ ghost' = TRUE
      /\ files' = files \/ files' = back
      /\ saved' = saved \union {[id |-> dialog.id, config |-> c]}
      /\ meddled' = (meddled \/ daemon = "loads")
      /\ changed' = changed \union {dialog.id}
      /\ UNCHANGED <<list, saving, daemon, found, partly, loaded, unsaved, torn>>
  BY DEF ConfirmGone, daemonVars
<1>2. c \in Config /\ c \in File /\ Filled(c) = c
  BY ConfigsAssumption, ConfigIsFile, FilledConfig DEF Config
<1>3. dialog.id \in Number
  BY <1>1 DEF ConfigTypes, NoDialog
<1>4. /\ Ids(loaded)' = Ids(loaded) /\ Ids(list)' = Ids(list) /\ ToSet(found)' = ToSet(found)
      /\ saving.id = 0 /\ saving.done = 0
  BY <1>1 DEF Ids, Rest
<1>5. /\ DOMAIN files \subseteq DOMAIN files'
      /\ DOMAIN files' \subseteq DOMAIN files \union {dialog.id}
      /\ \A n \in DOMAIN files' :
            (files'[n] = c /\ n = dialog.id) \/ (n \in DOMAIN files /\ files'[n] = files[n])
      /\ files' \in [DOMAIN files' -> File]
  <2>1. CASE files' = files
    BY <2>1 DEF ConfigTypes
  <2>2. CASE files' = back
    <3>1. \A n \in DOMAIN files : files[n] \in File
      BY DEF ConfigTypes
    <3>2. DOMAIN back = DOMAIN files \union {dialog.id}
      OBVIOUS
    <3>3. ASSUME NEW n \in DOMAIN back
          PROVE  /\ (back[n] = c /\ n = dialog.id) \/ (n \in DOMAIN files /\ back[n] = files[n])
                 /\ back[n] \in File
      BY <1>2, <3>1
    <3>4. back = [n \in DOMAIN back |-> back[n]]
      OBVIOUS
    <3> HIDE DEF back
    <3>5. back \in [DOMAIN back -> File]
      BY <3>3, <3>4
    <3> QED
      BY <2>2, <3>2, <3>3, <3>5
  <2> QED
    BY <1>1, <2>1, <2>2
<1>6. ConfigTypes'
  BY <1>1, <1>3, <1>5 DEF ConfigTypes
<1>7. NumbersInv'
  <2>1. daemon # "down" /\ ~meddled' =>
          (DOMAIN files' \union Ids(list)) \ changed' \subseteq Ids(loaded) \union ToSet(found)
    BY <1>1, <1>5 DEF NumbersInv, ConfigTypes
  <2> QED
    BY <1>1, <1>4, <1>5, <2>1 DEF NumbersInv
<1>8. FilesInv'
  <2>1. 1..saving.done = {}
    BY <1>4
  <2> QED
    BY <1>1, <2>1 DEF FilesInv
<1>9. SavedInv'
  <2>1. ASSUME NEW n \in DOMAIN files', n \notin torn
        PROVE  [id |-> n, config |-> Filled(files'[n])] \in saved'
    BY <1>1, <1>2, <1>4, <1>5, <2>1 DEF SavedInv
  <2>2. ~(daemon' = "loads" /\ ~meddled')
    BY <1>1
  <2>3. daemon # "down" /\ ~meddled' => \A s \in ToSet(loaded) : s \in saved' \/ s.id \in torn
    BY <1>1 DEF SavedInv, ConfigTypes
  <2> QED
    BY <1>1, <2>1, <2>2, <2>3 DEF SavedInv
<1> QED
  BY <1>6, <1>7, <1>8, <1>9

LEMMA DialogCancelled ==
    ASSUME ConfigInv, Cancel
    PROVE  ConfigInv'
<1>1. /\ dialog' = NoDialog
      /\ UNCHANGED <<list, files, saving, daemon, found, partly, loaded, saved, unsaved, ghost, torn,
                     meddled, changed>>
  BY DEF Cancel, daemonVars
<1> QED
  BY <1>1 DEF ConfigInv, ConfigTypes, NumbersInv, FilesInv, SavedInv, Agrees, Ids

LEMMA SensorDeleted ==
    ASSUME ConfigInv, NEW i \in DOMAIN list, Delete(i)
    PROVE  ConfigInv'
<1> USE DEF ConfigInv
<1> DEFINE id == list[i].id
<1>1. /\ saving = Rest
      /\ list' = RemoveAt(list, i) /\ files' = [n \in DOMAIN files \ {id} |-> files[n]]
      /\ dialog' = IF dialog.id = id THEN [dialog EXCEPT !.gone = TRUE] ELSE dialog
      /\ unsaved' = unsaved \ {id}
      /\ meddled' = (meddled \/ daemon = "loads")
      /\ changed' = changed \union {id}
      /\ UNCHANGED <<saving, daemon, found, partly, loaded, saved, ghost, torn>>
  BY DEF Delete, Edits, daemonVars
<1>2. id \in Ids(list) /\ id \in Number
  BY OneOfANumber DEF Ids, ToSet, ConfigTypes
<1> HIDE DEF id
<1>3. /\ list' \in Seq(Sensor) /\ ToSet(list') = {s \in ToSet(list) : s.id # id}
      /\ Ids(list') = Ids(list) \ {id} /\ IsInjective(Numbers(list'))
  BY <1>1, OneLess DEF ConfigTypes, NumbersInv, id
<1>4. /\ Ids(loaded)' = Ids(loaded) /\ ToSet(found)' = ToSet(found)
      /\ saving.id = 0 /\ saving.done = 0
  BY <1>1 DEF Ids, Rest
<1>5. Ids(list) \subseteq DOMAIN files
  BY <1>4, OneOfANumber, NumbersArePositive DEF NumbersInv, ConfigTypes
<1>6. /\ DOMAIN files' = DOMAIN files \ {id}
      /\ \A n \in DOMAIN files' : files'[n] = files[n]
      /\ files' \in [DOMAIN files' -> File]
  BY <1>1 DEF ConfigTypes
<1>7. /\ dialog' = NoDialog \/ dialog' \in [id : Number, gone : BOOLEAN]
      /\ dialog' # NoDialog /\ ~dialog'.gone => dialog # NoDialog /\ ~dialog.gone /\ dialog' = dialog /\ dialog.id # id
  <2>1. CASE dialog = NoDialog
    <3>1. dialog' = dialog
      BY <1>1, <1>2, <2>1, NumbersArePositive DEF NoDialog
    <3> QED
      BY <2>1, <3>1
  <2>2. CASE dialog \in [id : Number, gone : BOOLEAN]
    <3>1. CASE dialog.id = id
      <4>1. dialog' \in [id : Number, gone : BOOLEAN] /\ dialog'.gone
        BY <1>1, <2>2, <3>1
      <4> QED
        BY <4>1
    <3>2. CASE dialog.id # id
      BY <1>1, <2>2, <3>2
    <3> QED
      BY <3>1, <3>2
  <2> QED
    BY <2>1, <2>2 DEF ConfigTypes
<1>8. ConfigTypes'
  BY <1>1, <1>3, <1>6, <1>7 DEF ConfigTypes
<1>9. NumbersInv'
  <2>1. dialog' # NoDialog /\ ~dialog'.gone => dialog'.id \in Ids(list')
    BY <1>3, <1>7 DEF NumbersInv
  <2>2. daemon # "down" /\ ~meddled' =>
          (DOMAIN files' \union Ids(list')) \ changed' \subseteq Ids(loaded) \union ToSet(found)
    BY <1>1, <1>3, <1>6 DEF NumbersInv, ConfigTypes
  <2>3. Ids(list') \subseteq DOMAIN files'
    BY <1>3, <1>5, <1>6
  <2> QED
    BY <1>1, <1>3, <1>4, <2>1, <2>2, <2>3 DEF NumbersInv
<1>10. FilesInv'
  <2>1. ASSUME ~ghost, NEW s \in ToSet(list'), NEW k \in KeySet, s.id # saving.id
        PROVE  Agrees(s, k)'
    <3>1. s \in ToSet(list) /\ s.id # id
      BY <1>3
    <3>2. s.id \in DOMAIN files'
      BY <1>5, <1>6, <3>1, IdOfSensor DEF ConfigTypes
    <3> QED
      BY <1>1, <1>6, <2>1, <3>1, <3>2 DEF FilesInv, Agrees
  <2>2. 1..saving.done = {}
    BY <1>4
  <2>3. ~ghost => DOMAIN files' \subseteq Ids(list')
    BY <1>3, <1>6 DEF FilesInv
  <2> QED
    BY <1>1, <2>1, <2>2, <2>3 DEF FilesInv
<1>11. SavedInv'
  <2>1. ~(daemon' = "loads" /\ ~meddled')
    BY <1>1
  <2>2. daemon # "down" /\ ~meddled' => \A s \in ToSet(loaded) : s \in saved \/ s.id \in torn
    BY <1>1 DEF SavedInv, ConfigTypes
  <2> QED
    BY <1>1, <1>6, <2>1, <2>2 DEF SavedInv
<1> QED
  BY <1>8, <1>9, <1>10, <1>11

LEMMA KeySaved ==
    ASSUME ConfigInv, SaveKey
    PROVE  ConfigInv'
<1> USE DEF ConfigInv
<1> DEFINE n == saving.id
           d == saving.done
           key == Keys[d + 1]
           old == IF n \in DOMAIN files THEN files[n] ELSE NoValues
           it == Saved(n)
           new == [k \in DOMAIN old \union {key} |-> IF k = key THEN it.config[k] ELSE old[k]]
           all == d + 1 = Len(Keys)
<1>1. /\ saving # Rest
      /\ files' = [j \in DOMAIN files \union {n} |-> IF j = n THEN new ELSE files[j]]
      /\ saving' = IF all THEN Rest ELSE [saving EXCEPT !.done = d + 1]
      /\ saved' = IF all THEN saved \union {it} ELSE saved
      /\ unsaved' = IF all THEN unsaved \ {n} ELSE unsaved
      /\ meddled' = (meddled \/ daemon = "loads")
      /\ UNCHANGED <<list, dialog, daemon, found, partly, loaded, ghost, torn, changed>>
  BY DEF SaveKey, daemonVars
<1>2. /\ saving \in [id : Number, done : 0..Len(Keys) - 1]
      /\ n \in Number /\ d \in Nat /\ d + 1 \in 1..Len(Keys) /\ n \in Ids(list)
  <2>1. saving \in [id : Number, done : 0..Len(Keys) - 1]
    BY <1>1 DEF ConfigTypes
  <2> QED
    BY <1>1, <2>1, KeysAre DEF NumbersInv
<1>3. it \in ToSet(list) /\ it.id = n
  BY <1>2 DEF Saved, Ids
<1>4. /\ it \in Sensor /\ it.config \in Config /\ it = [id |-> n, config |-> it.config]
      /\ \A s \in ToSet(list) : s.id = n => s = it
  <2>1. it \in Sensor /\ it.config \in Config
    BY <1>3, IdOfSensor DEF ConfigTypes
  <2>2. it = [id |-> n, config |-> it.config]
    BY <1>3, <2>1 DEF Sensor
  <2>3. \A s \in ToSet(list) : s.id = n => s = it
    BY <1>3, OneOfANumber DEF ConfigTypes, NumbersInv
  <2> QED
    BY <2>1, <2>2, <2>3
<1> HIDE DEF it
<1>5. key \in KeySet /\ it.config[key] \in Values
  BY <1>2, <1>4, KeysAre DEF Config
<1>6. old \in File
  <2>1. CASE n \in DOMAIN files
    BY <2>1 DEF ConfigTypes
  <2>2. CASE n \notin DOMAIN files
    <3>1. NoValues \in [{} -> Values]
      BY DEF NoValues
    <3> QED
      BY <2>2, <3>1 DEF File
  <2> QED
    BY <2>1, <2>2
<1>7. \A j \in 1..d : Keys[j] \in DOMAIN old /\ old[Keys[j]] = it.config[Keys[j]]
  <2> SUFFICES ASSUME NEW j \in 1..d
               PROVE  Keys[j] \in DOMAIN old /\ old[Keys[j]] = it.config[Keys[j]]
    OBVIOUS
  <2>1. d > 0
    BY <1>2
  <2>2. n \in DOMAIN files
    BY <2>1 DEF NumbersInv
  <2> QED
    BY <1>3, <2>2 DEF FilesInv
<1> HIDE DEF old
<1>8. new \in File
  <2>1. PICK K \in SUBSET KeySet : old \in [K -> Values]
    BY <1>6 DEF File
  <2>2. K \union {key} \in SUBSET KeySet
    BY <1>5
  <2>3. new \in [K \union {key} -> Values]
    BY <1>5, <2>1
  <2> QED
    BY <2>2, <2>3 DEF File
<1>9. \A j \in 1..d + 1 : Keys[j] \in DOMAIN new /\ new[Keys[j]] = it.config[Keys[j]]
  BY <1>2, <1>7
<1> HIDE DEF new
<1>10. all => Filled(new) = it.config
  <2> SUFFICES ASSUME all PROVE Filled(new) = it.config
    OBVIOUS
  <2>1. \A k \in KeySet : k \in DOMAIN new /\ new[k] = it.config[k]
    BY <1>9, KeysAre
  <2>2. Filled(new) = [k \in KeySet |-> it.config[k]]
    BY <2>1 DEF Filled
  <2> QED
    BY <1>4, <2>2 DEF Config
<1>11. /\ DOMAIN files' = DOMAIN files \union {n} /\ files'[n] = new
       /\ \A j \in DOMAIN files : j # n => files'[j] = files[j]
       /\ files' \in [DOMAIN files' -> File]
  <2>1. \A j \in DOMAIN files : files[j] \in File
    BY DEF ConfigTypes
  <2> QED
    BY <1>1, <1>8, <2>1
<1>12. /\ all => saving'.id = 0 /\ saving'.done = 0 /\ saving' = Rest
       /\ ~all => /\ saving'.id = n /\ saving'.done = d + 1
                  /\ saving' \in [id : Number, done : 0..Len(Keys) - 1]
  <2>1. all => saving'.id = 0 /\ saving'.done = 0 /\ saving' = Rest
    BY <1>1 DEF Rest
  <2>2. ASSUME ~all PROVE saving' = [id |-> n, done |-> d + 1] /\ d + 1 \in 0..Len(Keys) - 1
    BY <1>1, <1>2, <2>2, KeysAre
  <2> QED
    BY <1>2, <2>1, <2>2
<1>13. Ids(loaded)' = Ids(loaded) /\ Ids(list)' = Ids(list) /\ ToSet(found)' = ToSet(found)
  BY <1>1 DEF Ids
<1> HIDE DEF n, d, key, all
<1>14. ConfigTypes'
  BY <1>1, <1>2, <1>11, <1>12 DEF ConfigTypes
<1>15. NumbersInv'
  <2>1. saving' # Rest => saving'.id \in Ids(list)
    BY <1>2, <1>12
  <2>2. saving'.done > 0 => saving'.id \in DOMAIN files'
    BY <1>11, <1>12
  <2>3. Ids(list) \subseteq DOMAIN files'
    BY <1>11 DEF NumbersInv, n
  <2>4. daemon # "down" /\ ~meddled' =>
          (DOMAIN files' \union Ids(list)) \ changed \subseteq Ids(loaded) \union ToSet(found)
    BY <1>1, <1>2, <1>11 DEF NumbersInv, ConfigTypes
  <2> QED
    BY <1>1, <1>13, <2>1, <2>2, <2>3, <2>4 DEF NumbersInv
<1>16. FilesInv'
  <2>1. ASSUME ~ghost, NEW s \in ToSet(list), NEW k \in KeySet, s.id # saving'.id
        PROVE  Agrees(s, k)'
    <3>1. CASE s.id = n
      <4>1. all /\ s = it
        BY <1>4, <1>12, <2>1, <3>1
      <4>2. Filled(files'[s.id]) = s.config
        BY <1>10, <1>11, <3>1, <4>1
      <4> QED
        BY <4>2 DEF Agrees
    <3>2. CASE s.id # n
      <4>1. Agrees(s, k)
        BY <2>1, <3>2 DEF FilesInv, n
      <4>2. s.id \in DOMAIN files
        BY <3>2, IdOfSensor DEF NumbersInv, ConfigTypes, n
      <4>3. files'[s.id] = files[s.id]
        BY <1>11, <3>2, <4>2
      <4> QED
        BY <1>1, <3>2, <4>1, <4>3 DEF Agrees
    <3> QED
      BY <3>1, <3>2
  <2>2. ASSUME NEW s \in ToSet(list), NEW j \in 1..saving'.done, s.id = saving'.id
        PROVE  Keys[j] \in DOMAIN files'[s.id] /\ files'[s.id][Keys[j]] = s.config[Keys[j]]
    <3>1. ~all
      BY <1>12
    <3>2. s = it /\ s.id = n /\ j \in 1..d + 1
      BY <1>4, <1>12, <2>2, <3>1
    <3> QED
      BY <1>9, <1>11, <3>2
  <2>3. ~ghost => DOMAIN files' \subseteq Ids(list)
    BY <1>2, <1>11 DEF FilesInv
  <2> QED
    BY <1>1, <1>13, <2>1, <2>2, <2>3 DEF FilesInv
<1>17. SavedInv'
  <2>1. ASSUME NEW m \in DOMAIN files', m \notin torn, m # saving'.id \/ saving'.done = 0
        PROVE  [id |-> m, config |-> Filled(files'[m])] \in saved'
    <3>1. CASE m = n
      <4>1. all
        BY <1>2, <1>12, <2>1, <3>1
      <4> QED
        BY <1>1, <1>4, <1>10, <1>11, <3>1, <4>1
    <3>2. CASE m # n
      <4>1. m \in DOMAIN files /\ files'[m] = files[m]
        BY <1>11, <3>2
      <4>2. [id |-> m, config |-> Filled(files[m])] \in saved
        BY <2>1, <3>2, <4>1 DEF SavedInv, n
      <4> QED
        BY <1>1, <4>1, <4>2
    <3> QED
      BY <3>1, <3>2
  <2>2. ~(daemon' = "loads" /\ ~meddled')
    BY <1>1
  <2>3. daemon # "down" /\ ~meddled' => \A s \in ToSet(loaded) : s \in saved' \/ s.id \in torn
    BY <1>1 DEF SavedInv, ConfigTypes
  <2> QED
    BY <1>1, <2>1, <2>2, <2>3 DEF SavedInv
<1> QED
  BY <1>14, <1>15, <1>16, <1>17

\* A list that is read back from the files has the numbers and the configurations of them.
LEMMA UIRestarted ==
    ASSUME ConfigInv, RestartUI
    PROVE  ConfigInv'
<1> USE DEF ConfigInv
<1> DEFINE o == InOrder(DOMAIN files)
           of(n) == [id |-> n, config |-> Filled(files[n])]
<1>1. /\ list' = [i \in DOMAIN o |-> of(o[i])]
      /\ saving' = Rest /\ dialog' = NoDialog /\ unsaved' = {}
      /\ torn' = torn \union ({saving.id} \ {Rest.id})
      /\ UNCHANGED <<files, daemon, found, partly, loaded, saved, ghost, meddled, changed>>
  BY DEF RestartUI, daemonVars
<1>2. /\ o \in Seq(Number) /\ ToSet(o) = DOMAIN files /\ IsInjective(o)
      /\ DOMAIN o = 1..Len(o) /\ Len(o) \in Nat
  <2>1. DOMAIN files \in SUBSET Number
    BY DEF ConfigTypes
  <2>2. o \in Seq(Number) /\ ToSet(o) = DOMAIN files /\ IsInjective(o)
    BY <2>1, FoundInOrder
  <2> QED
    BY <2>2, LenProperties
<1> HIDE DEF o
<1>3. \A i \in 1..Len(o) : o[i] \in DOMAIN files /\ o[i] \in Number
  BY <1>2 DEF ToSet, ConfigTypes
<1>4. ASSUME NEW n \in DOMAIN files PROVE of(n) \in Sensor /\ of(n).id = n /\ of(n).config = Filled(files[n])
  BY FilledConfig DEF Sensor, ConfigTypes
<1> HIDE DEF of
<1>5. list' \in Seq(Sensor) /\ Len(list') = Len(o) /\ \A i \in 1..Len(o) : list'[i] = of(o[i])
  <2>1. list' \in [1..Len(o) -> Sensor]
    BY <1>1, <1>2, <1>3, <1>4
  <2>2. list' \in Seq(Sensor)
    BY <1>2, <2>1, SeqDef
  <2>3. Len(list') = Len(o)
    BY <1>1, <1>2, <2>2, LenProperties
  <2> QED
    BY <1>1, <1>2, <2>2, <2>3
<1>6. /\ \A s \in ToSet(list') : s.id \in DOMAIN files /\ s = of(s.id)
      /\ Ids(list') = DOMAIN files
  <2>1. ASSUME NEW s \in ToSet(list') PROVE s.id \in DOMAIN files /\ s = of(s.id)
    <3>1. PICK i \in 1..Len(o) : s = of(o[i])
      BY <1>5, InSeq
    <3> QED
      BY <1>3, <1>4, <3>1
  <2>2. ASSUME NEW n \in DOMAIN files PROVE n \in Ids(list')
    <3>1. PICK i \in 1..Len(o) : o[i] = n
      BY <1>2 DEF ToSet
    <3>2. of(n) \in ToSet(list')
      BY <1>5, <3>1, InSeq
    <3> QED
      BY <1>4, <3>2 DEF Ids
  <2> QED
    BY <2>1, <2>2 DEF Ids
<1>7. IsInjective(Numbers(list'))
  <2>1. \A i \in 1..Len(o) : list'[i].id = o[i]
    BY <1>3, <1>4, <1>5
  <2>2. \A i, j \in 1..Len(o) : list'[i].id = list'[j].id => i = j
    BY <1>2, <2>1 DEF IsInjective
  <2> QED
    BY <1>5, <2>2, OneOfANumber
<1>8. /\ Ids(loaded)' = Ids(loaded) /\ ToSet(found)' = ToSet(found)
      /\ saving'.id = 0 /\ saving'.done = 0 /\ Rest.id = 0
  BY <1>1 DEF Ids, Rest
<1>9. ConfigTypes'
  BY <1>1, <1>5 DEF ConfigTypes
<1>10. NumbersInv'
  <2>1. daemon # "down" /\ ~meddled =>
          (DOMAIN files' \union Ids(list')) \ changed \subseteq Ids(loaded) \union ToSet(found)
    BY <1>1, <1>6 DEF NumbersInv
  <2> QED
    BY <1>1, <1>6, <1>7, <1>8, <2>1 DEF NumbersInv
<1>11. FilesInv'
  <2>1. ASSUME NEW s \in ToSet(list'), NEW k \in KeySet PROVE Agrees(s, k)'
    <3>1. s.config = Filled(files'[s.id])
      BY <1>1, <1>4, <1>6
    <3> QED
      BY <3>1 DEF Agrees
  <2>2. 1..saving'.done = {}
    BY <1>8
  <2>3. DOMAIN files' \subseteq Ids(list')
    BY <1>1, <1>6
  <2> QED
    BY <2>1, <2>2, <2>3 DEF FilesInv
<1>12. SavedInv'
  <2>1. ASSUME NEW m \in DOMAIN files', m \notin torn'
        PROVE  [id |-> m, config |-> Filled(files'[m])] \in saved'
    <3>1. m \in Number /\ m # 0
      BY <1>1, NumbersArePositive DEF ConfigTypes
    <3>2. m # saving.id /\ m \notin torn
      BY <1>1, <1>8, <2>1, <3>1
    <3> QED
      BY <1>1, <3>2 DEF SavedInv
  <2> QED
    BY <1>1, <1>8, <2>1 DEF SavedInv
<1> QED
  BY <1>9, <1>10, <1>11, <1>12

-----------------------------------------------------------------------------
(* The daemon *)

LEMMA DaemonStarted ==
    ASSUME ConfigInv, StartDaemon
    PROVE  ConfigInv'
<1> USE DEF ConfigInv
<1>1. /\ daemon' = "loads" /\ found' = InOrder(DOMAIN files) /\ partly' = << >> /\ loaded' = << >>
      /\ meddled' = (saving # Rest) /\ changed' = {}
      /\ UNCHANGED <<list, files, saving, dialog, saved, unsaved, ghost, torn>>
  BY DEF StartDaemon
<1>2. /\ found' \in Seq(Number) /\ ToSet(found') = DOMAIN files /\ IsInjective(found')
  <2>1. DOMAIN files \in SUBSET Number
    BY DEF ConfigTypes
  <2> QED
    BY <1>1, <2>1, FoundInOrder
<1>3. /\ loaded' \in Seq(Sensor) /\ ToSet(loaded') = {} /\ Ids(loaded') = {}
      /\ IsInjective(Numbers(loaded')) /\ partly' \in Seq(Values) /\ 1..Len(partly') = {}
  <2>1. loaded' \in Seq(Sensor) /\ DOMAIN loaded' = {} /\ partly' \in Seq(Values) /\ Len(partly') = 0
    BY <1>1
  <2> QED
    BY <2>1 DEF ToSet, Ids, Numbers, IsInjective
<1>4. ~meddled' => saving = Rest /\ saving.id = 0 /\ saving.done = 0
  <2>1. ~meddled' => saving = Rest
    BY <1>1
  <2> QED
    BY <2>1 DEF Rest
<1>5. Ids(list)' = Ids(list)
  BY <1>1 DEF Ids
<1>6. ConfigTypes'
  <2>1. Len(partly') < Len(LoadKeys) /\ meddled' \in BOOLEAN
    BY <1>1, LoadKeysAre
  <2> QED
    BY <1>1, <1>2, <1>3, <2>1 DEF ConfigTypes
<1>7. NumbersInv'
  <2>1. ~meddled' => Ids(list) \subseteq DOMAIN files
    BY <1>4, OneOfANumber, NumbersArePositive DEF NumbersInv, ConfigTypes
  <2>2. ~meddled' => (DOMAIN files' \union Ids(list)) \ changed' \subseteq Ids(loaded') \union ToSet(found')
    BY <1>1, <1>2, <2>1
  <2> QED
    BY <1>1, <1>2, <1>3, <1>5, <2>2 DEF NumbersInv
<1>8. FilesInv'
  BY <1>1, <1>5 DEF FilesInv, Agrees
<1>9. SavedInv'
  BY <1>1, <1>2, <1>3, <1>4 DEF SavedInv
<1> QED
  BY <1>6, <1>7, <1>8, <1>9

LEMMA FirstFound ==
    ASSUME NEW seq \in Seq(Number), seq # << >>, IsInjective(seq)
    PROVE  /\ Head(seq) \in ToSet(seq) /\ Head(seq) \in Number
           /\ Tail(seq) \in Seq(Number) /\ ToSet(Tail(seq)) = ToSet(seq) \ {Head(seq)}
           /\ IsInjective(Tail(seq))
<1> DEFINE rest == Tail(seq)
<1>1. /\ Head(seq) = seq[1] /\ rest \in Seq(Number) /\ Len(rest) = Len(seq) - 1
      /\ \A i \in 1..Len(rest) : rest[i] = seq[i + 1]
  BY HeadTailProperties
<1>2. /\ Len(seq) \in Nat /\ Len(seq) >= 1 /\ \A i \in 1..Len(seq) : seq[i] \in Number
      /\ \A i, j \in 1..Len(seq) : seq[i] = seq[j] => i = j
  BY EmptySeq, InSeq, ElementOfSeq DEF IsInjective
<1>3. /\ \A x : x \in ToSet(seq) <=> \E i \in 1..Len(seq) : seq[i] = x
      /\ \A x : x \in ToSet(rest) <=> \E i \in 1..Len(rest) : rest[i] = x
      /\ DOMAIN rest = 1..Len(rest)
  BY <1>1, InSeq
<1> HIDE DEF rest
<1>4. Head(seq) \in ToSet(seq) /\ Head(seq) \in Number
  BY <1>1, <1>2, <1>3
<1>5. ASSUME NEW x PROVE x \in ToSet(rest) <=> x \in ToSet(seq) /\ x # Head(seq)
  <2>1. ASSUME x \in ToSet(rest) PROVE x \in ToSet(seq) /\ x # Head(seq)
    <3>1. PICK i \in 1..Len(rest) : rest[i] = x
      BY <1>3, <2>1
    <3>2. i + 1 \in 1..Len(seq) /\ 1 \in 1..Len(seq) /\ i + 1 # 1 /\ seq[i + 1] = x
      BY <1>1, <1>2, <3>1
    <3> QED
      BY <1>1, <1>2, <1>3, <3>2
  <2>2. ASSUME x \in ToSet(seq), x # Head(seq) PROVE x \in ToSet(rest)
    <3>1. PICK i \in 1..Len(seq) : seq[i] = x
      BY <1>3, <2>2
    <3>2. i - 1 \in 1..Len(rest) /\ (i - 1) + 1 = i
      BY <1>1, <1>2, <2>2, <3>1
    <3>3. rest[i - 1] = x
      BY <1>1, <3>1, <3>2
    <3> QED
      BY <1>3, <3>2, <3>3
  <2> QED
    BY <2>1, <2>2
<1>6. IsInjective(rest)
  <2>1. ASSUME NEW i \in 1..Len(rest), NEW j \in 1..Len(rest), rest[i] = rest[j] PROVE i = j
    <3>1. i + 1 \in 1..Len(seq) /\ j + 1 \in 1..Len(seq) /\ seq[i + 1] = seq[j + 1]
      BY <1>1, <1>2, <2>1
    <3>2. i + 1 = j + 1
      BY <1>2, <3>1
    <3> QED
      BY <3>2
  <2> QED
    BY <1>3, <2>1 DEF IsInjective
<1>7. ToSet(rest) = ToSet(seq) \ {Head(seq)}
  BY <1>5
<1> QED
  BY <1>1, <1>4, <1>6, <1>7 DEF rest

LEMMA KeyLoaded ==
    ASSUME ConfigInv, LoadKey
    PROVE  ConfigInv'
<1> USE DEF ConfigInv
<1> DEFINE n == Head(found)
           key == LoadKeys[Len(partly) + 1]
           there == IF n \in DOMAIN files THEN files[n] ELSE NoValues
           read == Append(partly, Filled(there)[key])
           whole == [k \in KeySet |-> read[CHOOSE j \in DOMAIN LoadKeys : LoadKeys[j] = k]]
           new == [id |-> n, config |-> whole]
<1>1. /\ daemon = "loads" /\ found # << >>
      /\ \/ /\ Len(read) = Len(LoadKeys)
            /\ loaded' = Append(loaded, new) /\ found' = Tail(found) /\ partly' = << >>
         \/ /\ Len(read) # Len(LoadKeys)
            /\ partly' = read /\ UNCHANGED <<loaded, found>>
      /\ UNCHANGED <<list, files, saving, dialog, daemon, saved, unsaved, ghost, torn, meddled, changed>>
  BY DEF LoadKey
<1>2. /\ n \in ToSet(found) /\ n \in Number
      /\ Tail(found) \in Seq(Number) /\ ToSet(Tail(found)) = ToSet(found) \ {n}
      /\ IsInjective(Tail(found))
  BY <1>1, FirstFound DEF ConfigTypes, NumbersInv
<1>3. Filled(there) \in Config
  BY FilledConfig DEF ConfigTypes
<1>4. Len(partly) \in Nat /\ Len(partly) + 1 \in 1..Len(LoadKeys) /\ key \in KeySet
  <2>1. Len(partly) \in Nat /\ Len(partly) < Len(LoadKeys)
    BY InSeq DEF ConfigTypes
  <2> QED
    BY <2>1, LoadKeysAre
<1>5. /\ read \in Seq(Values) /\ Len(read) = Len(partly) + 1
      /\ \A j \in 1..Len(partly) : read[j] = partly[j]
      /\ read[Len(partly) + 1] = Filled(there)[key]
  <2>1. Filled(there)[key] \in Values /\ partly \in Seq(Values)
    BY <1>3, <1>4 DEF Config, ConfigTypes
  <2> HIDE DEF key, there
  <2> QED
    BY <2>1, AppendProperties
<1>6. ~meddled => /\ saving.done = 0 /\ n \in DOMAIN files /\ there = files[n]
                  /\ \A j \in 1..Len(read) : read[j] = Filled(files[n])[LoadKeys[j]]
  <2> SUFFICES ASSUME ~meddled
               PROVE  /\ saving.done = 0 /\ n \in DOMAIN files /\ there = files[n]
                      /\ \A j \in 1..Len(read) : read[j] = Filled(files[n])[LoadKeys[j]]
    OBVIOUS
  <2>1. saving.done = 0 /\ n \in DOMAIN files
    BY <1>1, <1>2 DEF SavedInv
  <2>2. there = files[n]
    BY <2>1
  <2>3. ASSUME NEW j \in 1..Len(read) PROVE read[j] = Filled(files[n])[LoadKeys[j]]
    <3>1. CASE j \in 1..Len(partly)
      <4>1. partly[j] = Filled(files[n])[LoadKeys[j]]
        BY <1>1, <3>1 DEF SavedInv
      <4> QED
        BY <1>5, <3>1, <4>1
    <3>2. CASE j \notin 1..Len(partly)
      <4>1. j = Len(partly) + 1
        BY <1>4, <1>5, <3>2
      <4> QED
        BY <1>5, <2>2, <4>1
    <3> QED
      BY <3>1, <3>2
  <2> QED
    BY <2>1, <2>2, <2>3
<1> HIDE DEF read, there, key
<1>7. ASSUME Len(read) = Len(LoadKeys)
      PROVE  /\ whole \in Config
             /\ ~meddled => whole = Filled(files[n])
  <2>1. ASSUME NEW k \in KeySet
        PROVE  /\ whole[k] \in Values
               /\ ~meddled => whole[k] = Filled(files[n])[k]
    <3> DEFINE j == CHOOSE j \in DOMAIN LoadKeys : LoadKeys[j] = k
    <3>1. j \in DOMAIN LoadKeys /\ LoadKeys[j] = k
      BY LoadKeysAre
    <3>2. j \in 1..Len(read)
      BY <1>7, <3>1, LoadKeysAre
    <3>3. whole[k] = read[j]
      OBVIOUS
    <3> HIDE DEF j
    <3>4. read[j] \in Values
      BY <1>5, <3>2, ElementOfSeq
    <3> QED
      BY <1>6, <3>1, <3>2, <3>3, <3>4
  <2>2. whole = [k \in KeySet |-> whole[k]]
    OBVIOUS
  <2> HIDE DEF whole
  <2>3. whole \in Config
    BY <2>1, <2>2 DEF Config
  <2>4. ~meddled => whole = Filled(files[n])
    BY <2>1, <2>2 DEF Filled
  <2> QED
    BY <2>3, <2>4
<1> HIDE DEF whole
<1>8. CASE Len(read) = Len(LoadKeys)
  <2>1. loaded' = Append(loaded, new) /\ found' = Tail(found) /\ partly' = << >>
    BY <1>1, <1>8
  <2>2. new \in Sensor /\ new.id = n /\ (~meddled => new = [id |-> n, config |-> Filled(files[n])])
    BY <1>2, <1>7, <1>8 DEF Sensor
  <2> HIDE DEF new, n
  <2>3. n \notin Ids(loaded)
    BY <1>2 DEF NumbersInv
  <2>4. /\ loaded' \in Seq(Sensor) /\ ToSet(loaded') = ToSet(loaded) \union {new}
        /\ Ids(loaded') = Ids(loaded) \union {n} /\ IsInjective(Numbers(loaded'))
    BY <2>1, <2>2, <2>3, OneMore DEF ConfigTypes, NumbersInv
  <2>5. partly' \in Seq(Values) /\ Len(partly') < Len(LoadKeys) /\ 1..Len(partly') = {}
    BY <2>1, LoadKeysAre
  <2>6. Ids(list)' = Ids(list)
    BY <1>1 DEF Ids
  <2>7. ConfigTypes'
    BY <1>1, <1>2, <2>1, <2>4, <2>5 DEF ConfigTypes
  <2>8. NumbersInv'
    <3>1. Ids(loaded') \union ToSet(found') = Ids(loaded) \union ToSet(found)
      BY <1>2, <2>1, <2>4
    <3>2. Ids(loaded') \intersect ToSet(found') = {}
      BY <1>2, <2>1, <2>4 DEF NumbersInv
    <3>3. daemon' # "down" /\ ~meddled' =>
            (DOMAIN files' \union Ids(list')) \ changed' \subseteq Ids(loaded') \union ToSet(found')
      BY <1>1, <2>6, <3>1 DEF NumbersInv
    <3> QED
      BY <1>1, <1>2, <2>1, <2>4, <2>6, <3>2, <3>3 DEF NumbersInv
  <2>9. FilesInv'
    BY <1>1, <2>6 DEF FilesInv, Agrees
  <2>10. SavedInv'
    <3>1. ASSUME ~meddled, NEW s \in ToSet(loaded') PROVE s \in saved \/ s.id \in torn
      <4>1. CASE s \in ToSet(loaded)
        BY <1>1, <3>1, <4>1 DEF SavedInv
      <4>2. CASE s = new
        BY <1>6, <2>2, <3>1, <4>2 DEF SavedInv
      <4> QED
        BY <2>4, <4>1, <4>2
    <3>2. ~meddled => ToSet(found') \subseteq DOMAIN files
      BY <1>1, <1>2, <2>1 DEF SavedInv
    <3> QED
      BY <1>1, <1>6, <2>5, <3>1, <3>2 DEF SavedInv
  <2> QED
    BY <2>7, <2>8, <2>9, <2>10
<1>9. CASE Len(read) # Len(LoadKeys)
  <2>1. partly' = read /\ UNCHANGED <<loaded, found>>
    BY <1>1, <1>9
  <2>2. Len(partly') < Len(LoadKeys)
    <3>1. Len(partly') = Len(partly) + 1
      BY <1>5, <2>1
    <3>2. Len(partly) + 1 # Len(LoadKeys)
      BY <1>5, <1>9
    <3>3. Len(partly) + 1 \in 1..Len(LoadKeys) /\ Len(LoadKeys) \in Nat
      BY <1>4, LoadKeysAre
    <3> QED
      BY <3>1, <3>2, <3>3
  <2>3. Ids(list)' = Ids(list) /\ Ids(loaded)' = Ids(loaded) /\ ToSet(found)' = ToSet(found)
    BY <1>1, <2>1 DEF Ids
  <2>4. ConfigTypes'
    BY <1>1, <1>5, <2>1, <2>2 DEF ConfigTypes
  <2>5. NumbersInv'
    BY <1>1, <2>1, <2>3 DEF NumbersInv
  <2>6. FilesInv'
    BY <1>1, <2>3 DEF FilesInv, Agrees
  <2>7. SavedInv'
    BY <1>1, <1>6, <2>1 DEF SavedInv
  <2> QED
    BY <2>4, <2>5, <2>6, <2>7
<1> QED
  BY <1>8, <1>9

LEMMA AllCreated ==
    ASSUME ConfigInv, CreateAll
    PROVE  ConfigInv'
<1>1. /\ daemon = "loads" /\ daemon' = "runs" /\ found = << >>
      /\ UNCHANGED <<list, files, saving, dialog, found, partly, loaded, saved, unsaved, ghost, torn,
                     meddled, changed>>
  BY DEF CreateAll
<1> QED
  BY <1>1 DEF ConfigInv, ConfigTypes, NumbersInv, FilesInv, SavedInv, Agrees, Ids

LEMMA DaemonStopped ==
    ASSUME ConfigInv, StopDaemon
    PROVE  ConfigInv'
<1> USE DEF ConfigInv
<1>1. /\ daemon' = "down" /\ loaded' = << >> /\ found' = << >> /\ partly' = << >>
      /\ UNCHANGED <<list, files, saving, dialog, saved, unsaved, ghost, torn, meddled, changed>>
  BY DEF StopDaemon
<1>2. /\ loaded' \in Seq(Sensor) /\ DOMAIN loaded' = {} /\ partly' \in Seq(Values) /\ Len(partly') = 0
      /\ found' \in Seq(Number) /\ DOMAIN found' = {}
  BY <1>1
<1>3. Ids(loaded') = {} /\ IsInjective(Numbers(loaded')) /\ IsInjective(found')
  BY <1>2 DEF ToSet, Ids, Numbers, IsInjective
<1>4. Ids(list)' = Ids(list)
  BY <1>1 DEF Ids
<1>5. ConfigTypes'
  BY <1>1, <1>2, LoadKeysAre DEF ConfigTypes
<1>6. NumbersInv'
  BY <1>1, <1>3, <1>4 DEF NumbersInv
<1>7. FilesInv'
  BY <1>1, <1>4 DEF FilesInv, Agrees
<1>8. SavedInv'
  BY <1>1 DEF SavedInv
<1> QED
  BY <1>5, <1>6, <1>7, <1>8

-----------------------------------------------------------------------------
(* The theorems *)

LEMMA ConfigInit == Init => ConfigInv
<1> SUFFICES ASSUME Init PROVE ConfigInv
  OBVIOUS
<1>1. /\ list = << >> /\ loaded = << >> /\ found = << >> /\ partly = << >>
      /\ files = [n \in {} |-> NoValues] /\ saving = Rest /\ dialog = NoDialog
      /\ daemon = "down" /\ ghost = FALSE /\ meddled = FALSE
  BY DEF Init
<1>2. /\ list \in Seq(Sensor) /\ loaded \in Seq(Sensor) /\ found \in Seq(Number)
      /\ partly \in Seq(Values) /\ Len(partly) = 0
      /\ DOMAIN list = {} /\ DOMAIN loaded = {} /\ DOMAIN found = {}
  BY <1>1
<1>3. DOMAIN files = {} /\ files \in [DOMAIN files -> File] /\ DOMAIN files \subseteq Number
  BY <1>1
<1>4. saving.id = 0 /\ saving.done = 0 /\ 1..saving.done = {} /\ 1..Len(partly) = {}
  BY <1>1, <1>2 DEF Rest
<1>5. /\ ToSet(list) = {} /\ ToSet(loaded) = {} /\ Ids(list) = {} /\ Ids(loaded) = {}
      /\ IsInjective(Numbers(list)) /\ IsInjective(Numbers(loaded)) /\ IsInjective(found)
  BY <1>2 DEF ToSet, Ids, Numbers, IsInjective
<1>6. ConfigTypes
  <2>1. Len(partly) < Len(LoadKeys)
    BY <1>2, LoadKeysAre
  <2>2. daemon \in {"down", "loads", "runs"} /\ meddled \in BOOLEAN /\ ghost \in BOOLEAN
    BY <1>1
  <2> QED
    BY <1>1, <1>2, <1>3, <2>1, <2>2 DEF ConfigTypes
<1>7. NumbersInv
  BY <1>1, <1>4, <1>5 DEF NumbersInv
<1>8. FilesInv
  BY <1>3, <1>4, <1>5 DEF FilesInv
<1>9. SavedInv
  BY <1>1, <1>3 DEF SavedInv
<1> QED
  BY <1>6, <1>7, <1>8, <1>9 DEF ConfigInv

\* The list, the files and what the daemon has loaded fit together at any time, for any number
\* of sensors, with saves cut off, dialogs of deleted sensors and restarts of both sides.
THEOREM ConfigsFit == Spec => []ConfigInv
<1>1. ConfigInv /\ [Next]_vars => ConfigInv'
  <2> SUFFICES ASSUME ConfigInv, [Next]_vars PROVE ConfigInv'
    OBVIOUS
  <2>1. ASSUME NEW c \in Configs, Add(c) PROVE ConfigInv'
    BY <2>1, SensorAdded
  <2>2. ASSUME NEW i \in DOMAIN list, OpenDialog(i) PROVE ConfigInv'
    BY <2>2, DialogOpened
  <2>3. ASSUME NEW i \in DOMAIN list, Delete(i) PROVE ConfigInv'
    BY <2>3, SensorDeleted
  <2>4. ASSUME NEW c \in Configs, SetParams(c) PROVE ConfigInv'
    BY <2>4, ParamsSet
  <2>5. ASSUME NEW c \in Configs, Confirm(c) PROVE ConfigInv'
    BY <2>5, DialogConfirmed
  <2>6. ASSUME NEW c \in Configs, ConfirmGone(c) PROVE ConfigInv'
    BY <2>6, GhostConfirmed
  <2>7. CASE Cancel
    BY <2>7, DialogCancelled
  <2>8. CASE SaveKey
    BY <2>8, KeySaved
  <2>9. CASE RestartUI
    BY <2>9, UIRestarted
  <2>10. CASE StartDaemon
    BY <2>10, DaemonStarted
  <2>11. CASE LoadKey
    BY <2>11, KeyLoaded
  <2>12. CASE CreateAll
    BY <2>12, AllCreated
  <2>13. CASE StopDaemon
    BY <2>13, DaemonStopped
  <2>14. CASE UNCHANGED vars
    BY <2>14 DEF vars, daemonVars, ConfigInv, ConfigTypes, NumbersInv, FilesInv, SavedInv, Agrees, Ids
  <2> QED
    BY <2>1, <2>2, <2>3, <2>4, <2>5, <2>6, <2>7, <2>8, <2>9, <2>10, <2>11, <2>12, <2>13, <2>14
       DEF Next
<1> QED
  BY <1>1, ConfigInit, PTL DEF Spec

\* Between two saves there is a file for every sensor of the list and for no other, and it has
\* the configuration the list shows.
THEOREM FilesFollowList == Spec => []FilesAreList
<1>1. ConfigInv => FilesAreList
  <2> SUFFICES ASSUME ConfigInv, saving = Rest, ~ghost
               PROVE  /\ DOMAIN files = ToSet(Numbers(list))
                      /\ \A s \in ToSet(list), k \in KeySet : Agrees(s, k)
    BY DEF FilesAreList, Agrees
  <2>1. list \in Seq(Sensor) /\ saving.id = 0
    BY DEF ConfigInv, ConfigTypes, Rest
  <2>2. ToSet(Numbers(list)) = Ids(list) /\ 0 \notin Ids(list)
    BY <2>1, OneOfANumber, NumbersArePositive
  <2>3. DOMAIN files = Ids(list)
    BY <2>1, <2>2 DEF ConfigInv, NumbersInv, FilesInv
  <2>4. ASSUME NEW s \in ToSet(list), NEW k \in KeySet PROVE Agrees(s, k)
    <3>1. s.id # saving.id
      BY <2>1, IdOfSensor, NumbersArePositive
    <3> QED
      BY <3>1 DEF ConfigInv, FilesInv
  <2> QED
    BY <2>2, <2>3, <2>4
<1> QED
  BY <1>1, ConfigsFit, PTL

\* The daemon never runs with a configuration that is put together of two, unless the UI wrote
\* while it loaded or ended in the middle of a save.
THEOREM LoadedSaved == Spec => []LoadedWereSaved
<1>1. ConfigInv => LoadedWereSaved
  <2> SUFFICES ASSUME ConfigInv, ~meddled, NEW s \in ToSet(loaded) PROVE s \in saved \/ s.id \in torn
    BY DEF LoadedWereSaved
  <2>1. CASE daemon = "down"
    <3>1. ToSet(loaded) = {}
      BY <2>1 DEF ConfigInv, NumbersInv, ToSet
    <3> QED
      BY <3>1
  <2>2. CASE daemon # "down"
    BY <2>2 DEF ConfigInv, SavedInv
  <2> QED
    BY <2>1, <2>2
<1> QED
  BY <1>1, ConfigsFit, PTL

\* No number is given twice, and the icon of a sensor that was not edited since the daemon
\* began to load shows the state of that sensor.
THEOREM IconsRight == Spec => []IconsOfList
<1>1. ConfigInv => IconsOfList
  <2> SUFFICES ASSUME ConfigInv PROVE IconsOfList
    OBVIOUS
  <2>1. IsInjective(Numbers(list)) /\ IsInjective(Numbers(loaded))
    BY DEF ConfigInv, NumbersInv
  <2>2. ASSUME daemon = "runs", ~meddled, NEW i \in DOMAIN list, list[i].id \notin changed
        PROVE  {s.id : s \in StateOf(i)} = {list[i].id}
    <3>1. list[i].id \in Ids(list)
      BY DEF Ids, ToSet
    <3>2. ToSet(found) = {}
      BY <2>2 DEF ConfigInv, NumbersInv, ToSet
    <3>3. list[i].id \in Ids(loaded)
      BY <2>2, <3>1, <3>2 DEF ConfigInv, NumbersInv
    <3> QED
      BY <3>3 DEF StateOf, Ids
  <2> QED
    BY <2>1, <2>2 DEF IconsOfList
<1> QED
  BY <1>1, ConfigsFit, PTL

=============================================================================
