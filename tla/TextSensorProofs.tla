-------------------------- MODULE TextSensorProofs --------------------------
(***************************************************************************)
(* What holds of a text sensor, from the bytes to the storage. Of its      *)
(* queue, for any wire, any division of it into pushes and any size of the *)
(* buffer: the order of the sentences, that a line without its end blocks  *)
(* the sensor, that lines fit the buffer, and that a sentence that came in *)
(* one push is parsed. Of its parsers, for any sentences and AIS messages  *)
(* with any values: what the storage has of what the talker means, and a   *)
(* target of what its ship says; and that a position report is read out.   *)
(***************************************************************************)
EXTENDS SentenceQueue, Decoding, SequenceTheorems, WellFoundedInduction, TLAPS

-----------------------------------------------------------------------------
(* The operators *)

LEMMA MinOf ==
    ASSUME NEW S \in SUBSET Nat, S # {}
    PROVE  Min(S) \in S /\ \A y \in S : Min(S) <= y
<1> DEFINE R == {ss \in Nat \X Nat : ss[1] < ss[2]}
<1>1. IsWellFoundedOn(R, Nat)
  BY NatLessThanWellFounded DEF OpToRel
<1>2. \E x \in S : \A y \in S : x <= y
  <2> HIDE DEF R
  <2>1. PICK x \in S : \A y \in S : ~(<<y, x>> \in R)
    BY <1>1, WFMin
  <2>2. ASSUME NEW y \in S PROVE x <= y
    <3>1. x \in Nat /\ y \in Nat
      OBVIOUS
    <3>2. y < x => <<y, x>> \in R
      BY <3>1 DEF R
    <3> QED
      BY <2>1, <3>1, <3>2
  <2> QED
    BY <2>2
<1> QED
  BY <1>2 DEF Min

\* A set of numbers with 0 and with the successor of each of its members has them all: what
\* is shown of every list below is shown of the set of lengths it holds for.
LEMMA Induction ==
    ASSUME NEW S \in SUBSET Nat, 0 \in S, \A n \in S : n + 1 \in S
    PROVE  S = Nat
<1> DEFINE R == {ss \in Nat \X Nat : ss[1] < ss[2]}
<1>1. IsWellFoundedOn(R, Nat)
  BY NatLessThanWellFounded DEF OpToRel
<1> SUFFICES ASSUME Nat \ S # {}
             PROVE  FALSE
  OBVIOUS
<1>2. PICK n \in Nat \ S : \A m \in Nat \ S : ~(<<m, n>> \in R)
  <2> HIDE DEF R
  <2> QED
    BY <1>1, WFMin
<1>3. n # 0 /\ n - 1 \in Nat /\ n - 1 < n
  OBVIOUS
<1>4. n - 1 \in S
  <2>1. <<n - 1, n>> \in R
    BY <1>3
  <2> HIDE DEF R
  <2> QED
    BY <1>2, <1>3, <2>1
<1> QED
  BY <1>3, <1>4

LEMMA MaxOf ==
    ASSUME NEW n \in Nat, NEW S \in SUBSET (0..n), S # {}
    PROVE  Max(S) \in S /\ \A y \in S : y <= Max(S)
<1> DEFINE T == {i \in 0..n : n - i \in S}
<1>1. PICK s \in S : TRUE
  OBVIOUS
<1>2. n - s \in T
  <2>1. s \in 0..n /\ n - s \in 0..n /\ n - (n - s) = s
    OBVIOUS
  <2> QED
    BY <1>1, <2>1
<1>3. T \in SUBSET Nat /\ T # {}
  BY <1>2
<1>4. Min(T) \in T /\ \A y \in T : Min(T) <= y
  BY <1>3, MinOf
<1>5. \A y \in S : y <= n - Min(T)
  <2>1. SUFFICES ASSUME NEW y \in S PROVE y <= n - Min(T)
    OBVIOUS
  <2>2. y \in 0..n /\ n - y \in 0..n /\ n - (n - y) = y
    OBVIOUS
  <2>3. n - y \in T
    BY <2>2
  <2> QED
    BY <1>4, <2>2, <2>3
<1>6. \E x \in S : \A y \in S : x >= y
  BY <1>4, <1>5
<1> QED
  BY <1>6 DEF Max

\* The ends that are skipped are among the bytes seen; the byte after them is no end.
LEMMA LeadingEnds ==
    ASSUME NEW q \in Seq(Byte), NEW n \in 0..Len(q)
    PROVE  /\ Leading(q, n) \in 0..n
           /\ n > 0 /\ ~IsEnd(q[1]) => Leading(q, n) = 0
<1> DEFINE S == {i \in 0..n : \A j \in 1..i : IsEnd(q[j])}
<1>1. n \in Nat /\ S \in SUBSET (0..n) /\ 0 \in S
  OBVIOUS
<1>2. Max(S) \in S
  BY <1>1, MaxOf
<1>3. Leading(q, n) = Max(S)
  BY DEF Leading
<1>4. ASSUME ~IsEnd(q[1]) PROVE Max(S) = 0
  <2>1. Max(S) \in 0..n /\ \A j \in 1..Max(S) : IsEnd(q[j])
    BY <1>2
  <2>2. ~(1 \in 1..Max(S))
    BY <1>4, <2>1
  <2> QED
    BY <2>1, <2>2
<1> QED
  BY <1>2, <1>3, <1>4

\* The scan passes at least the ends it skips, and no more than there is.
LEMMA Counted ==
    ASSUME NEW q \in Seq(Byte), NEW n \in 0..Len(q)
    PROVE  Count(q, n) \in Leading(q, n)..Len(q)
<1> DEFINE L == Leading(q, n)
<1>1. L \in 0..n /\ n \in Nat /\ Len(q) \in Nat /\ BufSize \in Nat \ {0}
  BY LeadingEnds, WireAssumption
<1>2. CASE Stops(q, n) = {}
  <2>1. Count(q, n) = Min({n, L + BufSize})
    BY <1>2 DEF Count
  <2>2. {n, L + BufSize} \in SUBSET Nat
    BY <1>1
  <2>3. Min({n, L + BufSize}) \in {n, L + BufSize} /\ Min({n, L + BufSize}) <= n
    BY <2>2, MinOf
  <2> QED
    BY <1>1, <2>1, <2>3
<1>3. CASE Stops(q, n) # {}
  <2> DEFINE p == Min(Stops(q, n))
  <2>1. Stops(q, n) \in SUBSET Nat /\ Stops(q, n) \subseteq (L + 2)..n
    BY <1>1 DEF Stops
  <2>2. p \in (L + 2)..n
    BY <1>3, <2>1, MinOf
  <2>3. p \in Stops(q, n)
    BY <1>3, <2>1, MinOf
  <2>4. CASE IsStart(q[p])
    <3>1. Count(q, n) = p - 1
      BY <1>3, <2>4 DEF Count
    <3> QED
      BY <1>1, <2>2, <3>1
  <2>5. CASE ~IsStart(q[p])
    <3>1. Count(q, n) = LastEnd(q, p)
      BY <1>3, <2>5 DEF Count
    <3>2. IsEnd(q[p])
      BY <2>3, <2>5 DEF Stops
    <3> DEFINE K == {k \in p..Len(q) : \A j \in p..k : IsEnd(q[j])}
    <3>3. p \in K
      BY <1>1, <2>2, <3>2
    <3>4. K \in SUBSET (0..Len(q))
      BY <1>1, <2>2
    <3>5. Max(K) \in K
      BY <1>1, <3>3, <3>4, MaxOf
    <3> QED
      BY <1>1, <2>2, <3>1, <3>5 DEF LastEnd
  <2> QED
    BY <2>4, <2>5
<1> QED
  BY <1>2, <1>3

\* Every byte that is pulled is a byte of the queue.
LEMMA LineOf ==
    ASSUME NEW q \in Seq(Byte), NEW n \in 0..Len(q)
    PROVE  /\ Line(q, n) \in Seq(Byte)
           /\ Len(Line(q, n)) = Count(q, n) - Leading(q, n)
           /\ \A i \in 1..Len(Line(q, n)) : Line(q, n)[i] = q[Leading(q, n) + i]
<1> DEFINE L == Leading(q, n)
           C == Count(q, n)
<1>1. L \in Nat /\ C \in Nat /\ L <= C /\ C <= Len(q) /\ Len(q) \in Nat
  BY LeadingEnds, Counted
<1> HIDE DEF L, C
<1>2. \A i \in L + 1..C : q[i] \in Byte
  BY <1>1
<1>3. /\ SubSeq(q, L + 1, C) \in Seq(Byte)
      /\ Len(SubSeq(q, L + 1, C)) = IF L + 1 <= C THEN C - (L + 1) + 1 ELSE 0
      /\ \A i \in 1..C - (L + 1) + 1 : SubSeq(q, L + 1, C)[i] = q[L + 1 + i - 1]
  BY <1>1, <1>2, SubSeqProperties
<1>4. Len(SubSeq(q, L + 1, C)) = C - L
  BY <1>1, <1>3
<1>5. \A i \in 1..C - L : SubSeq(q, L + 1, C)[i] = q[L + i]
  <2>1. SUFFICES ASSUME NEW i \in 1..C - L PROVE SubSeq(q, L + 1, C)[i] = q[L + i]
    OBVIOUS
  <2>2. i \in 1..C - (L + 1) + 1 /\ L + 1 + i - 1 = L + i
    BY <1>1
  <2> QED
    BY <1>3, <2>2
<1> QED
  BY <1>3, <1>4, <1>5 DEF Line, L, C

\* What stays is the end of the queue, from the last byte that was scanned.
LEMMA RestOf ==
    ASSUME NEW q \in Seq(Byte), NEW n \in 0..Len(q), Count(q, n) > 0
    PROVE  /\ Rest(q, n) \in Seq(Byte)
           /\ Rest(q, n) = SubSeq(q, Count(q, n), Len(q))
           /\ Count(q, n) \in 1..Len(q)
<1>1. Count(q, n) \in 1..Len(q)
  BY LeadingEnds, Counted
<1>2. \A i \in Count(q, n)..Len(q) : q[i] \in Byte
  BY <1>1
<1>3. SubSeq(q, Count(q, n), Len(q)) \in Seq(Byte)
  BY <1>1, <1>2, SubSeqProperties
<1> QED
  BY <1>1, <1>3 DEF Rest

\* A sentence that is parsed begins after the ends that were skipped, and has at least two
\* bytes of the scan.
LEMMA ParsedStart ==
    ASSUME NEW q \in Seq(Byte), NEW n \in 0..Len(q), NEW s \in Parsed(Line(q, n))
    PROVE  /\ s \in 1..Len(Sentences)
           /\ Leading(q, n) + 2 <= Count(q, n)
           /\ IsStart(q[Leading(q, n) + 1])
           /\ q[Leading(q, n) + 1].of = s
<1> DEFINE L == Leading(q, n)
           C == Count(q, n)
           l == Line(q, n)
<1>1. L \in Nat /\ C \in Nat /\ L <= C
  BY LeadingEnds, Counted
<1>2. l \in Seq(Byte) /\ Len(l) = C - L /\ \A i \in 1..Len(l) : l[i] = q[L + i]
  BY LineOf
<1>3. s \in 1..Len(Sentences) /\ IsPrefix(Sentences[s], l)
  BY DEF Parsed
<1>4. Sentences[s] \in Seq(Byte) /\ Len(Sentences[s]) > 1 /\ IsStart(Sentences[s][1])
        /\ Sentences[s][1].of = s
  BY <1>3, WireAssumption
<1> HIDE DEF L, C, l
<1>5. /\ Len(Sentences[s]) <= Len(l)
      /\ SubSeq(Sentences[s], 1, Len(Sentences[s])) = SubSeq(l, 1, Len(Sentences[s]))
  BY <1>3 DEF IsPrefix
<1>6. Len(Sentences[s]) \in Nat /\ Len(l) \in Nat /\ C - L >= 2 /\ 1 \in 1..Len(l)
  BY <1>1, <1>2, <1>4, <1>5
<1>7. SubSeq(Sentences[s], 1, Len(Sentences[s])) = Sentences[s]
  BY <1>4, SubSeqFull
<1>8. SubSeq(l, 1, Len(Sentences[s]))[1] = l[1]
  <2>1. \A i \in 1..Len(Sentences[s]) : l[i] \in Byte
    BY <1>2, <1>5, <1>6
  <2>2. 1 \in 1..Len(Sentences[s]) - 1 + 1 /\ 1 + 1 - 1 = 1
    BY <1>4, <1>6
  <2> QED
    BY <1>6, <2>1, <2>2, SubSeqProperties
<1>9. l[1] = q[L + 1]
  BY <1>2, <1>6
<1>10. Sentences[s][1] = q[L + 1]
  BY <1>5, <1>7, <1>8, <1>9
<1> QED
  BY <1>1, <1>3, <1>4, <1>6, <1>10 DEF L, C

-----------------------------------------------------------------------------
(* Types *)

LEMMA WireTypes ==
    /\ Len(Wire) \in Nat
    /\ \A i \in 1..Len(Wire) : Wire[i] \in Byte
    /\ \A b \in Byte : b.of \in 1..Len(Sentences)
    /\ Len(Sentences) \in Nat
<1>1. Len(Wire) \in Nat /\ Len(Sentences) \in Nat /\ \A i \in 1..Len(Wire) : Wire[i] \in Byte
  BY WireAssumption
<1> QED
  BY <1>1 DEF Byte

\* A push of the next k bytes.
LEMMA Pushed ==
    ASSUME NEW k \in 1..Len(Wire), TypeOK, pushed + k <= Len(Wire)
    PROVE  /\ SubSeq(Wire, pushed + 1, pushed + k) \in Seq(Byte)
           /\ Len(SubSeq(Wire, pushed + 1, pushed + k)) = k
<1>1. pushed \in Nat /\ k \in Nat /\ Len(Wire) \in Nat
  BY WireTypes DEF TypeOK
<1>2. \A i \in pushed + 1..pushed + k : Wire[i] \in Byte
  BY <1>1, WireTypes
<1>3. /\ SubSeq(Wire, pushed + 1, pushed + k) \in Seq(Byte)
      /\ Len(SubSeq(Wire, pushed + 1, pushed + k))
            = IF pushed + 1 <= pushed + k THEN pushed + k - (pushed + 1) + 1 ELSE 0
  BY <1>1, <1>2, SubSeqProperties
<1> QED
  BY <1>1, <1>3

LEMMA TypeStep == TypeOK /\ [Next]_vars => TypeOK'
<1> SUFFICES ASSUME TypeOK, [Next]_vars PROVE TypeOK'
  OBVIOUS
<1>1. /\ queue \in Seq(Byte) /\ Len(queue) \in Nat /\ size \in 0..Len(queue)
      /\ pushed \in 0..Len(Wire) /\ line \in Seq(Byte) /\ proc \in {"rest", "loop", "pull"}
      /\ accepted \in Seq(1..Len(Sentences)) /\ split \subseteq 1..Len(Sentences)
  BY DEF TypeOK
<1>2. ASSUME NEW k \in 1..Len(Wire), ReaderPush(k) PROVE TypeOK'
  <2> DEFINE part == SubSeq(Wire, pushed + 1, pushed + k)
  <2>1. pushed + k <= Len(Wire) /\ pushed' = pushed + k /\ queue' = queue \o part
          /\ UNCHANGED <<size, proc, line, accepted>>
    BY <1>2 DEF ReaderPush
  <2>2. part \in Seq(Byte) /\ Len(part) = k
    BY <2>1, Pushed
  <2> HIDE DEF part
  <2>3. queue' \in Seq(Byte) /\ Len(queue') = Len(queue) + k
    BY <1>1, <2>1, <2>2, ConcatProperties
  <2>4. pushed' \in 0..Len(Wire) /\ size' \in 0..Len(queue')
    BY <1>1, <2>1, <2>3, WireTypes
  <2>5. split' \subseteq 1..Len(Sentences)
    <3>1. pushed + k \in 1..Len(Wire)
      BY <1>1, <2>1, WireTypes
    <3>2. Wire[pushed + k].of \in 1..Len(Sentences)
      BY <3>1, WireTypes
    <3>3. split' = split \/ split' = split \union {Wire[pushed + k].of}
      BY <1>2 DEF ReaderPush
    <3> QED
      BY <1>1, <3>2, <3>3
  <2> QED
    BY <1>1, <2>1, <2>3, <2>4, <2>5 DEF TypeOK
<1>3. CASE ProcessorSize
  BY <1>1, <1>3 DEF ProcessorSize, TypeOK
<1>4. CASE ProcessorPull
  <2>1. size' = 0 /\ UNCHANGED <<pushed, split>>
    BY <1>4 DEF ProcessorPull
  <2>2. CASE proc' = "rest" /\ UNCHANGED <<queue, line, accepted>>
    BY <1>1, <2>1, <2>2 DEF TypeOK
  <2>3. CASE ~(proc' = "rest" /\ UNCHANGED <<queue, line, accepted>>)
    <3>1. /\ Count(queue, size) > 0
          /\ queue' = Rest(queue, size) /\ line' = Line(queue, size)
          /\ proc' \in {"loop", "rest"}
          /\ \/ UNCHANGED accepted
             \/ \E n \in Parsed(line') : accepted' = Append(accepted, n)
      BY <1>4, <2>3 DEF ProcessorPull
    <3>2. queue' \in Seq(Byte) /\ line' \in Seq(Byte)
      BY <1>1, <3>1, RestOf, LineOf
    <3>3. accepted' \in Seq(1..Len(Sentences))
      <4>1. CASE UNCHANGED accepted
        BY <1>1, <4>1
      <4>2. ASSUME NEW n \in Parsed(line'), accepted' = Append(accepted, n)
            PROVE  accepted' \in Seq(1..Len(Sentences))
        <5>1. n \in 1..Len(Sentences)
          BY <4>2 DEF Parsed
        <5> QED
          BY <1>1, <4>2, <5>1, AppendProperties
      <4> QED
        BY <3>1, <4>1, <4>2
    <3>4. size' \in 0..Len(queue')
      BY <2>1, <3>2
    <3> QED
      BY <1>1, <2>1, <3>1, <3>2, <3>3, <3>4 DEF TypeOK
  <2> QED
    BY <2>2, <2>3
<1>5. CASE UNCHANGED vars
  BY <1>5 DEF vars, TypeOK
<1> QED
  BY <1>2, <1>3, <1>4, <1>5 DEF Next

\* The queue and the buffer hold bytes, the size that was read is never more than there is,
\* and what is parsed are sentences.
THEOREM TypeCorrect == Spec => []TypeOK
<1>1. Init => TypeOK
  <2> SUFFICES ASSUME Init PROVE TypeOK
    OBVIOUS
  <2>1. Len(queue) = 0 /\ queue \in Seq(Byte) /\ line \in Seq(Byte)
          /\ accepted \in Seq(1..Len(Sentences))
    BY EmptySeq DEF Init
  <2> QED
    BY <2>1, WireTypes DEF Init, TypeOK
<1> QED
  BY <1>1, TypeStep, PTL DEF Spec

-----------------------------------------------------------------------------
(* The order of the sentences *)

\* The queue is what was pushed but for the first k bytes.
Pulled(k) ==
    /\ k \in 0..pushed
    /\ Len(queue) = pushed - k
    /\ \A i \in 1..Len(queue) : queue[i] = Wire[k + i]

\* No sentence that was parsed begins, or comes after one that does, in what is left.
Behind(k) ==
    \A i \in 1..Len(accepted) : \A p \in k + 1..Len(Wire) :
        IsStart(Wire[p]) => accepted[i] < Wire[p].of

OrderInv == AcceptedInOrder /\ \E k \in Nat : Pulled(k) /\ Behind(k)

LEMMA PushKeepsPulled ==
    ASSUME TypeOK, NEW j \in 1..Len(Wire), ReaderPush(j), NEW k \in Nat, Pulled(k)
    PROVE  Pulled(k)'
<1> DEFINE part == SubSeq(Wire, pushed + 1, pushed + j)
<1>1. pushed + j <= Len(Wire) /\ pushed' = pushed + j /\ queue' = queue \o part
  BY DEF ReaderPush
<1>2. /\ pushed \in Nat /\ Len(Wire) \in Nat /\ j \in Nat
      /\ queue \in Seq(Byte) /\ Len(queue) = pushed - k /\ k <= pushed
  BY WireTypes DEF TypeOK, Pulled
<1>3. part \in Seq(Byte) /\ Len(part) = j
  BY <1>1, Pushed
<1>4. \A i \in 1..j : part[i] = Wire[pushed + i]
  <2>1. \A i \in pushed + 1..pushed + j : Wire[i] \in Byte
    BY <1>1, <1>2, WireTypes
  <2>2. \A i \in 1..pushed + j - (pushed + 1) + 1 : part[i] = Wire[pushed + 1 + i - 1]
    BY <1>2, <2>1, SubSeqProperties
  <2>3. SUFFICES ASSUME NEW i \in 1..j PROVE part[i] = Wire[pushed + i]
    OBVIOUS
  <2>4. i \in 1..pushed + j - (pushed + 1) + 1 /\ pushed + 1 + i - 1 = pushed + i
    BY <1>2
  <2> HIDE DEF part
  <2> QED
    BY <2>2, <2>4
<1> HIDE DEF part
<1>5. /\ Len(queue') = Len(queue) + j
      /\ \A i \in 1..Len(queue) + j :
            queue'[i] = IF i <= Len(queue) THEN queue[i] ELSE part[i - Len(queue)]
  <2>1. /\ Len(queue \o part) = Len(queue) + Len(part)
        /\ \A i \in 1..Len(queue) + Len(part) :
              (queue \o part)[i] = IF i <= Len(queue) THEN queue[i] ELSE part[i - Len(queue)]
    BY <1>2, <1>3, ConcatProperties
  <2>2. queue' = queue \o part /\ Len(part) = j
    BY <1>1, <1>3
  <2> QED
    BY <2>1, <2>2
<1>6. Len(queue') = pushed' - k /\ k \in 0..pushed'
  BY <1>1, <1>2, <1>5
<1>7. ASSUME NEW i \in 1..Len(queue') PROVE queue'[i] = Wire[k + i]
  <2>1. CASE i <= Len(queue)
    BY <1>2, <1>5, <1>7, <2>1 DEF Pulled
  <2>2. CASE ~(i <= Len(queue))
    <3>1. i - Len(queue) \in 1..j /\ pushed + (i - Len(queue)) = k + i
      BY <1>2, <1>5, <1>7, <2>2
    <3>2. part[i - Len(queue)] = Wire[k + i]
      BY <1>4, <3>1
    <3> QED
      BY <1>2, <1>5, <1>7, <2>2, <3>2
  <2> QED
    BY <2>1, <2>2
<1> QED
  BY <1>6, <1>7 DEF Pulled

\* A pull takes all but the last of the bytes it scans.
LEMMA PullKeepsPulled ==
    ASSUME TypeOK, Count(queue, size) > 0, queue' = Rest(queue, size), pushed' = pushed,
           NEW k \in Nat, Pulled(k)
    PROVE  \E d \in Nat : d = k + Count(queue, size) - 1 /\ Pulled(d)'
<1> DEFINE C == Count(queue, size)
<1>1. /\ queue \in Seq(Byte) /\ size \in 0..Len(queue) /\ Len(queue) \in Nat
      /\ pushed \in Nat /\ k <= pushed /\ Len(queue) = pushed - k
  BY WireTypes DEF TypeOK, Pulled
<1>2. queue' = SubSeq(queue, C, Len(queue)) /\ C \in 1..Len(queue)
  BY <1>1, RestOf
<1> HIDE DEF C
<1>3. \A i \in C..Len(queue) : queue[i] \in Byte
  BY <1>1, <1>2
<1>4. /\ Len(queue') = Len(queue) - C + 1
      /\ \A i \in 1..Len(queue) - C + 1 : queue'[i] = queue[C + i - 1]
  BY <1>1, <1>2, <1>3, SubSeqProperties
<1>5. \A i \in 1..Len(queue') : queue'[i] = Wire[k + C - 1 + i]
  <2>1. SUFFICES ASSUME NEW i \in 1..Len(queue') PROVE queue'[i] = Wire[k + C - 1 + i]
    OBVIOUS
  <2>2. i \in 1..Len(queue) - C + 1 /\ C + i - 1 \in 1..Len(queue)
          /\ k + (C + i - 1) = k + C - 1 + i
    <3>1. C \in Nat /\ C >= 1 /\ C <= Len(queue) /\ Len(queue) \in Nat
      BY <1>1, <1>2
    <3>2. i \in 1..Len(queue) - C + 1
      BY <1>4
    <3>3. i \in Nat /\ i >= 1 /\ i <= Len(queue) - C + 1
      BY <3>1, <3>2
    <3> QED
      BY <3>1, <3>2, <3>3
  <2>3. queue[C + i - 1] = Wire[k + (C + i - 1)]
    BY <2>2 DEF Pulled
  <2> QED
    BY <1>4, <2>2, <2>3
<1>6. k + C - 1 \in 0..pushed /\ Len(queue') = pushed - (k + C - 1) /\ k + C - 1 \in Nat
  BY <1>1, <1>2, <1>4
<1>7. PICK d \in Nat : d = k + C - 1
  BY <1>6
<1>8. Pulled(d)'
  BY <1>5, <1>6, <1>7 DEF Pulled
<1> QED
  BY <1>7, <1>8 DEF C

LEMMA OrderStep == TypeOK /\ OrderInv /\ [Next]_vars => OrderInv'
<1> SUFFICES ASSUME TypeOK, OrderInv, [Next]_vars PROVE OrderInv'
  OBVIOUS
<1>1. PICK k \in Nat : Pulled(k) /\ Behind(k)
  BY DEF OrderInv
<1>2. AcceptedInOrder
  BY DEF OrderInv
<1>3. ASSUME NEW j \in 1..Len(Wire), ReaderPush(j) PROVE OrderInv'
  <2>1. Pulled(k)'
    BY <1>1, <1>3, PushKeepsPulled
  <2>2. UNCHANGED accepted
    BY <1>3 DEF ReaderPush
  <2>3. AcceptedInOrder' /\ Behind(k)'
    BY <1>1, <1>2, <2>2 DEF AcceptedInOrder, Behind
  <2> QED
    BY <2>1, <2>3 DEF OrderInv
<1>4. CASE UNCHANGED <<pushed, queue, accepted>>
  BY <1>1, <1>2, <1>4 DEF OrderInv, AcceptedInOrder, Behind, Pulled
<1>5. CASE /\ Count(queue, size) > 0
           /\ queue' = Rest(queue, size) /\ line' = Line(queue, size)
           /\ \/ UNCHANGED accepted
              \/ \E n \in Parsed(line') : accepted' = Append(accepted, n)
           /\ UNCHANGED pushed
  <2> DEFINE L == Leading(queue, size)
             C == Count(queue, size)
  <2>1. /\ queue \in Seq(Byte) /\ size \in 0..Len(queue) /\ Len(queue) \in Nat
        /\ pushed \in 0..Len(Wire) /\ Len(Wire) \in Nat
        /\ accepted \in Seq(1..Len(Sentences)) /\ Len(accepted) \in Nat
    BY WireTypes DEF TypeOK
  <2>2. L \in Nat /\ C \in 1..Len(queue) /\ L <= C
    BY <1>5, <2>1, LeadingEnds, Counted, RestOf
  <2>3. PICK d \in Nat : d = k + C - 1 /\ Pulled(d)'
    BY <1>1, <1>5, PullKeepsPulled
  <2>4. d >= k
    BY <2>2, <2>3
  <2>5. CASE UNCHANGED accepted
    <3>1. Behind(d)'
      <4>1. \A p \in d + 1..Len(Wire) : p \in k + 1..Len(Wire)
        BY <2>1, <2>4
      <4> QED
        BY <1>1, <2>5, <4>1 DEF Behind
    <3>2. AcceptedInOrder'
      BY <1>2, <2>5 DEF AcceptedInOrder
    <3> QED
      BY <2>3, <3>1, <3>2 DEF OrderInv
  <2>6. ASSUME NEW n \in Parsed(line'), accepted' = Append(accepted, n) PROVE OrderInv'
    <3>1. /\ n \in 1..Len(Sentences) /\ L + 2 <= C
          /\ IsStart(queue[L + 1]) /\ queue[L + 1].of = n
      <4>1. n \in Parsed(Line(queue, size))
        BY <1>5
      <4> QED
        BY <2>1, <4>1, ParsedStart
    <3> HIDE DEF L, C
    <3>2. queue[L + 1] = Wire[k + (L + 1)] /\ k + (L + 1) \in k + 1..Len(Wire)
      <4>1. L + 1 \in 1..Len(queue)
        BY <2>1, <2>2, <3>1
      <4>2. Len(queue) = pushed - k
        BY <1>1 DEF Pulled
      <4> QED
        BY <1>1, <2>1, <2>2, <4>1, <4>2 DEF Pulled
    <3> DEFINE w == k + (L + 1)
    <3>3. w \in k + 1..Len(Wire) /\ IsStart(Wire[w]) /\ Wire[w].of = n /\ w <= d
      BY <2>2, <2>3, <3>1, <3>2
    <3> HIDE DEF w
    <3>4. /\ Len(accepted') = Len(accepted) + 1
          /\ \A i \in 1..Len(accepted) : accepted'[i] = accepted[i]
          /\ accepted'[Len(accepted) + 1] = n
      <4>1. n \in 1..Len(Sentences)
        BY <3>1
      <4> QED
        BY <2>1, <2>6, <4>1, AppendProperties
    <3>5. \A i \in 1..Len(accepted) : accepted[i] < n
      BY <1>1, <3>3 DEF Behind
    <3>6. AcceptedInOrder'
      <4>1. SUFFICES ASSUME NEW i \in 1..Len(accepted'), NEW j \in 1..Len(accepted'), i < j
                     PROVE  accepted'[i] < accepted'[j]
        BY DEF AcceptedInOrder
      <4>2. i \in 1..Len(accepted) /\ accepted'[i] = accepted[i]
        BY <2>1, <3>4, <4>1
      <4>3. CASE j \in 1..Len(accepted)
        BY <1>2, <3>4, <4>1, <4>2, <4>3 DEF AcceptedInOrder
      <4>4. CASE ~(j \in 1..Len(accepted))
        <5>1. j = Len(accepted) + 1
          <6>1. j \in 1..Len(accepted) + 1
            BY <3>4
          <6> QED
            BY <2>1, <4>4, <6>1
        <5> QED
          BY <3>4, <3>5, <4>2, <5>1
      <4> QED
        BY <4>3, <4>4
    <3>7. Behind(d)'
      <4>1. SUFFICES ASSUME NEW i \in 1..Len(accepted'), NEW p \in d + 1..Len(Wire),
                            IsStart(Wire[p])
                     PROVE  accepted'[i] < Wire[p].of
        BY DEF Behind
      <4>2. CASE i \in 1..Len(accepted)
        <5>1. p \in k + 1..Len(Wire)
          BY <2>1, <2>4, <4>1
        <5> QED
          BY <1>1, <3>4, <4>1, <4>2, <5>1 DEF Behind
      <4>3. CASE ~(i \in 1..Len(accepted))
        <5>1. accepted'[i] = n
          <6>1. i = Len(accepted) + 1
            BY <2>1, <3>4, <4>1, <4>3
          <6> QED
            BY <3>4, <6>1
        <5>2. w \in 1..Len(Wire) /\ p \in 1..Len(Wire) /\ w < p
          BY <2>1, <3>3, <4>1
        <5>3. Wire[w].of < Wire[p].of
          BY <3>3, <4>1, <5>2, WireAssumption
        <5> QED
          BY <3>3, <5>1, <5>3
      <4> QED
        BY <4>2, <4>3
    <3> QED
      BY <2>3, <3>6, <3>7 DEF OrderInv
  <2> QED
    BY <1>5, <2>5, <2>6
<1>6. CASE ProcessorSize \/ UNCHANGED vars
  BY <1>4, <1>6 DEF ProcessorSize, vars
<1>7. CASE ProcessorPull
  BY <1>4, <1>5, <1>7 DEF ProcessorPull
<1> QED
  BY <1>3, <1>6, <1>7 DEF Next

\* No sentence is parsed twice and none overtakes another, for any wire on which a talker
\* sends each once, any split of it into pushes and any size of the buffer.
THEOREM InOrder == Spec => []AcceptedInOrder
<1>1. Init => OrderInv
  <2> SUFFICES ASSUME Init PROVE OrderInv
    OBVIOUS
  <2>1. Len(queue) = 0 /\ Len(accepted) = 0 /\ pushed = 0
    BY DEF Init
  <2>2. Pulled(0) /\ Behind(0) /\ AcceptedInOrder
    BY <2>1 DEF Pulled, Behind, AcceptedInOrder
  <2> QED
    BY <2>2 DEF OrderInv
<1>2. OrderInv => AcceptedInOrder
  BY DEF OrderInv
<1> QED
  BY <1>1, <1>2, TypeCorrect, OrderStep, PTL DEF Spec

-----------------------------------------------------------------------------
(* A line without its end *)

\* Before the start of the next sentence a pull sees one byte, which it leaves, or none.
LEMMA BlockedCount ==
    ASSUME NEW q \in Seq(Byte), NEW n \in 0..Len(q),
           Len(q) > 1, ~IsEnd(q[1]), IsStart(q[2])
    PROVE  Count(q, n) \in {0, 1}
<1>1. BufSize \in Nat \ {0} /\ n \in Nat
  BY WireAssumption
<1>2. Leading(q, n) = 0
  <2>1. Leading(q, n) \in 0..n /\ (n > 0 => Leading(q, n) = 0)
    BY LeadingEnds
  <2> QED
    BY <1>1, <2>1
<1>3. CASE Stops(q, n) = {}
  <2>1. Count(q, n) = Min({n, BufSize})
    BY <1>1, <1>2, <1>3 DEF Count
  <2>2. {n, BufSize} \in SUBSET Nat
    BY <1>1
  <2>3. /\ Min({n, BufSize}) \in Nat
        /\ Min({n, BufSize}) <= n /\ Min({n, BufSize}) <= BufSize
    BY <2>2, MinOf
  <2>4. n >= 2 => BufSize < 2
    <3>1. SUFFICES ASSUME n >= 2, BufSize >= 2 PROVE FALSE
      BY <1>1
    <3>2. 2 \in (Leading(q, n) + 2)..n /\ 2 - Leading(q, n) <= BufSize
      BY <1>1, <1>2, <3>1
    <3>3. 2 \in Stops(q, n)
      BY <3>2 DEF Stops
    <3> QED
      BY <1>3, <3>3
  <2>5. Min({n, BufSize}) < 2
    BY <1>1, <2>3, <2>4
  <2> QED
    BY <2>1, <2>3, <2>5
<1>4. CASE Stops(q, n) # {}
  <2>1. Stops(q, n) \in SUBSET Nat /\ \A p \in Stops(q, n) : p >= 2 /\ p <= n /\ p <= BufSize
    BY <1>1, <1>2 DEF Stops
  <2>2. Min(Stops(q, n)) \in Stops(q, n) /\ \A p \in Stops(q, n) : Min(Stops(q, n)) <= p
    BY <1>4, <2>1, MinOf
  <2>3. 2 \in Stops(q, n)
    <3>1. n >= 2 /\ BufSize >= 2
      BY <1>1, <1>4, <2>1
    <3>2. 2 \in (Leading(q, n) + 2)..n /\ 2 - Leading(q, n) <= BufSize
      BY <1>1, <1>2, <3>1
    <3> QED
      BY <3>2 DEF Stops
  <2>4. Min(Stops(q, n)) = 2
    BY <2>1, <2>2, <2>3
  <2>5. Count(q, n) = 2 - 1
    BY <1>4, <2>4 DEF Count
  <2> QED
    BY <2>5
<1> QED
  BY <1>3, <1>4

LEMMA BlockedStep == TypeOK /\ [Next]_vars => (Blocked => Blocked' /\ accepted' = accepted)
<1> SUFFICES ASSUME TypeOK, [Next]_vars, Blocked PROVE Blocked' /\ accepted' = accepted
  OBVIOUS
<1>1. /\ queue \in Seq(Byte) /\ Len(queue) \in Nat /\ size \in 0..Len(queue)
      /\ Len(queue) > 1 /\ ~IsEnd(queue[1]) /\ IsStart(queue[2])
  BY DEF TypeOK, Blocked
<1>2. ASSUME NEW j \in 1..Len(Wire), ReaderPush(j) PROVE Blocked' /\ accepted' = accepted
  <2> DEFINE part == SubSeq(Wire, pushed + 1, pushed + j)
  <2>1. pushed + j <= Len(Wire) /\ queue' = queue \o part /\ accepted' = accepted
    BY <1>2 DEF ReaderPush
  <2>2. part \in Seq(Byte) /\ Len(part) \in Nat
    BY <2>1, Pushed
  <2> HIDE DEF part
  <2>3. /\ Len(queue \o part) = Len(queue) + Len(part)
        /\ \A i \in 1..Len(queue) + Len(part) :
              (queue \o part)[i] = IF i <= Len(queue) THEN queue[i] ELSE part[i - Len(queue)]
    BY <1>1, <2>2, ConcatProperties
  <2>4. Len(queue') > 1 /\ queue'[1] = queue[1] /\ queue'[2] = queue[2]
    BY <1>1, <2>1, <2>2, <2>3
  <2> QED
    BY <1>1, <2>1, <2>4 DEF Blocked, IsEnd, IsStart
<1>3. CASE UNCHANGED <<queue, accepted>>
  BY <1>3 DEF Blocked, IsEnd, IsStart
<1>4. CASE ProcessorPull
  <2>1. Count(queue, size) \in {0, 1}
    BY <1>1, BlockedCount
  <2>2. CASE Count(queue, size) = 0
    <3>1. UNCHANGED <<queue, accepted>>
      BY <1>4, <2>2 DEF ProcessorPull
    <3> QED
      BY <1>3, <3>1
  <2>3. CASE Count(queue, size) = 1
    <3>1. Rest(queue, size) = queue
      <4>1. Rest(queue, size) = SubSeq(queue, 1, Len(queue))
        BY <2>3 DEF Rest
      <4> QED
        BY <1>1, <4>1, SubSeqFull
    <3>2. Parsed(Line(queue, size)) = {}
      <4>1. SUFFICES ASSUME NEW s \in Parsed(Line(queue, size)) PROVE FALSE
        OBVIOUS
      <4>2. Leading(queue, size) + 2 <= Count(queue, size) /\ Leading(queue, size) \in Nat
        BY <1>1, <4>1, ParsedStart, LeadingEnds
      <4> QED
        BY <2>3, <4>2
    <3>3. UNCHANGED <<queue, accepted>>
      <4>1. CASE UNCHANGED <<queue, line, accepted>>
        BY <4>1
      <4>2. CASE ~(UNCHANGED <<queue, line, accepted>>)
        <5>1. queue' = Rest(queue, size) /\ line' = Line(queue, size)
                /\ (Parsed(line') = {} => UNCHANGED accepted)
          BY <1>4, <4>2 DEF ProcessorPull
        <5> QED
          BY <3>1, <3>2, <5>1
      <4> QED
        BY <4>1, <4>2
    <3> QED
      BY <1>3, <3>3
  <2> QED
    BY <2>1, <2>2, <2>3
<1>5. CASE ProcessorSize \/ UNCHANGED vars
  BY <1>3, <1>5 DEF ProcessorSize, vars
<1> QED
  BY <1>2, <1>4, <1>5 DEF Next

\* After a line that ends at the start of the next sentence no byte leaves the queue and no
\* sentence is parsed again, whatever the talker sends.
THEOREM UnendedBlocks == Spec => UnendedLineBlocks
<1>1. TypeOK /\ [Next]_vars => [Blocked => Blocked' /\ accepted' = accepted]_vars
  BY BlockedStep
<1> QED
  BY <1>1, TypeCorrect, PTL DEF Spec, UnendedLineBlocks

-----------------------------------------------------------------------------
(* How far a pull scans *)

\* The byte after the ends that are skipped is none.
LEMMA AfterLeading ==
    ASSUME NEW q \in Seq(Byte), NEW n \in 0..Len(q), Leading(q, n) < n
    PROVE  ~IsEnd(q[Leading(q, n) + 1])
<1> DEFINE S == {i \in 0..n : \A j \in 1..i : IsEnd(q[j])}
           m == Max(S)
<1>1. n \in Nat /\ S \in SUBSET (0..n) /\ 0 \in S
  OBVIOUS
<1>2. m \in S /\ \A y \in S : y <= m
  BY <1>1, MaxOf
<1>3. Leading(q, n) = m
  BY DEF Leading
<1>4. SUFFICES ASSUME IsEnd(q[m + 1]) PROVE FALSE
  BY <1>3
<1>5. m \in 0..n /\ m < n /\ \A j \in 1..m : IsEnd(q[j])
  BY <1>2, <1>3
<1> HIDE DEF m
<1>6. \A j \in 1..m + 1 : j \in 1..m \/ j = m + 1
  BY <1>5
<1>7. m + 1 \in S
  BY <1>1, <1>4, <1>5, <1>6
<1> QED
  BY <1>2, <1>5, <1>7

\* Skipped bytes are ends.
LEMMA LeadingAreEnds ==
    ASSUME NEW q \in Seq(Byte), NEW n \in 0..Len(q), NEW j \in 1..Leading(q, n)
    PROVE  IsEnd(q[j])
<1> DEFINE S == {i \in 0..n : \A x \in 1..i : IsEnd(q[x])}
<1>1. n \in Nat /\ S \in SUBSET (0..n) /\ 0 \in S
  OBVIOUS
<1>2. Max(S) \in S
  BY <1>1, MaxOf
<1> QED
  BY <1>2 DEF Leading

\* The three ways a scan ends: at what it can see or hold, before a start, or with the run
\* of ends it comes to; in the last two nothing before that stop was a start or an end.
Cut(q, n)        == Stops(q, n) = {} /\ Count(q, n) <= n /\ Count(q, n) <= Leading(q, n) + BufSize
                      /\ (Count(q, n) = n \/ Count(q, n) = Leading(q, n) + BufSize)
BeforeStart(q, n, p) == IsStart(q[p]) /\ Count(q, n) = p - 1
WithEnds(q, n, p)    == /\ IsEnd(q[p]) /\ Count(q, n) \in p..Len(q)
                        /\ \A j \in p..Count(q, n) : IsEnd(q[j])

LEMMA HowCounted ==
    ASSUME NEW q \in Seq(Byte), NEW n \in 0..Len(q)
    PROVE  \/ Cut(q, n)
           \/ \E p \in Stops(q, n) :
                 /\ BeforeStart(q, n, p) \/ WithEnds(q, n, p)
                 /\ \A o \in Stops(q, n) : p <= o
<1> DEFINE L == Leading(q, n)
<1>1. L \in 0..n /\ n \in Nat /\ Len(q) \in Nat /\ n <= Len(q) /\ BufSize \in Nat \ {0}
  BY LeadingEnds, WireAssumption
<1>2. CASE Stops(q, n) = {}
  <2>1. Count(q, n) = Min({n, L + BufSize})
    BY <1>2 DEF Count
  <2>2. {n, L + BufSize} \in SUBSET Nat
    BY <1>1
  <2>3. /\ Min({n, L + BufSize}) \in {n, L + BufSize}
        /\ Min({n, L + BufSize}) <= n /\ Min({n, L + BufSize}) <= L + BufSize
    BY <2>2, MinOf
  <2>4. Cut(q, n)
    BY <1>2, <2>1, <2>3 DEF Cut
  <2> QED
    BY <2>4
<1>3. CASE Stops(q, n) # {}
  <2>1. Stops(q, n) \in SUBSET Nat /\ Stops(q, n) \subseteq (L + 2)..n
    BY <1>1 DEF Stops
  <2>2. PICK p \in Stops(q, n) : p = Min(Stops(q, n)) /\ \A o \in Stops(q, n) : p <= o
    BY <1>3, <2>1, MinOf
  <2>3. p \in Nat /\ p >= 1 /\ p <= n
    BY <1>1, <2>1, <2>2
  <2>4. CASE IsStart(q[p])
    <3>1. Count(q, n) = p - 1
      BY <1>3, <2>2, <2>4 DEF Count
    <3> QED
      BY <2>2, <2>4, <3>1 DEF BeforeStart
  <2>5. CASE ~IsStart(q[p])
    <3>1. Count(q, n) = LastEnd(q, p)
      BY <1>3, <2>2, <2>5 DEF Count
    <3>2. IsEnd(q[p])
      BY <2>2, <2>5 DEF Stops
    <3> DEFINE K == {k \in p..Len(q) : \A j \in p..k : IsEnd(q[j])}
    <3>3. p \in K
      BY <1>1, <2>3, <3>2
    <3>4. K \in SUBSET (0..Len(q))
      BY <1>1, <2>3
    <3>5. Max(K) \in K
      BY <1>1, <3>3, <3>4, MaxOf
    <3>6. WithEnds(q, n, p)
      BY <3>1, <3>2, <3>5 DEF WithEnds, LastEnd
    <3> QED
      BY <2>2, <3>6
  <2> QED
    BY <2>4, <2>5
<1> QED
  BY <1>2, <1>3

\* Between the byte a line begins with and its stop no byte is a start or an end.
LEMMA TextBefore ==
    ASSUME NEW q \in Seq(Byte), NEW n \in 0..Len(q),
           NEW p \in Stops(q, n), \A o \in Stops(q, n) : p <= o,
           NEW i \in Leading(q, n) + 2..p - 1
    PROVE  ~IsStart(q[i]) /\ ~IsEnd(q[i])
<1>1. Leading(q, n) \in 0..n /\ n \in Nat /\ BufSize \in Nat
  BY LeadingEnds, WireAssumption
<1>2. p \in Leading(q, n) + 2..n /\ p - Leading(q, n) <= BufSize
  BY DEF Stops
<1>3. i \in Leading(q, n) + 2..n /\ i - Leading(q, n) <= BufSize /\ i < p
  BY <1>1, <1>2
<1>4. i \notin Stops(q, n)
  BY <1>1, <1>2, <1>3
<1> QED
  BY <1>3, <1>4 DEF Stops

\* A start that is not the first byte of the line is not passed.
LEMMA StartNotPassed ==
    ASSUME NEW q \in Seq(Byte), NEW n \in 0..Len(q),
           NEW z \in Leading(q, n) + 2..Len(q), IsStart(q[z])
    PROVE  Count(q, n) < z
<1> DEFINE L == Leading(q, n)
           C == Count(q, n)
<1>1. L \in 0..n /\ n \in Nat /\ Len(q) \in Nat /\ BufSize \in Nat /\ C \in L..Len(q)
  BY LeadingEnds, Counted, WireAssumption
<1>2. ~IsEnd(q[z])
  BY DEF IsStart, IsEnd
<1>3. CASE Cut(q, n)
  <2>1. z \notin Stops(q, n)
    BY <1>3 DEF Cut
  <2>2. z > n \/ z - L > BufSize
    BY <1>1, <2>1 DEF Stops
  <2> QED
    BY <1>1, <1>3, <2>2 DEF Cut
<1>4. ASSUME NEW p \in Stops(q, n), \A o \in Stops(q, n) : p <= o,
             BeforeStart(q, n, p) \/ WithEnds(q, n, p)
      PROVE  C < z
  <2>1. p \in L + 2..n /\ p - L <= BufSize
    BY DEF Stops
  <2>2. p <= z
    <3>1. CASE z \in Stops(q, n)
      BY <1>4, <3>1
    <3>2. CASE z \notin Stops(q, n)
      <4>1. z > n \/ z - L > BufSize
        BY <1>1, <3>2 DEF Stops
      <4> QED
        BY <1>1, <2>1, <4>1
    <3> QED
      BY <3>1, <3>2
  <2>3. CASE BeforeStart(q, n, p)
    BY <1>1, <2>1, <2>2, <2>3 DEF BeforeStart
  <2>4. CASE WithEnds(q, n, p)
    <3>1. z \notin p..C
      BY <1>2, <2>4 DEF WithEnds
    <3> QED
      BY <1>1, <2>1, <2>2, <3>1
  <2> QED
    BY <1>4, <2>3, <2>4
<1> QED
  BY <1>3, <1>4, HowCounted

-----------------------------------------------------------------------------
(* Lines and the buffer *)

\* A line longer than the buffer goes on to the end of a run of ends.
LEMMA LongLine ==
    ASSUME NEW q \in Seq(Byte), NEW n \in 0..Len(q), Count(q, n) - Leading(q, n) > BufSize
    PROVE  /\ ~IsEnd(q[Leading(q, n) + 1])
           /\ \A i \in Leading(q, n) + 2..Count(q, n) : ~IsStart(q[i])
           /\ \A i \in Leading(q, n) + 1..Count(q, n) - 1 : IsEnd(q[i]) => IsEnd(q[i + 1])
<1> DEFINE L == Leading(q, n)
           C == Count(q, n)
<1>1. L \in 0..n /\ n \in Nat /\ Len(q) \in Nat /\ BufSize \in Nat /\ C \in L..Len(q)
  BY LeadingEnds, Counted, WireAssumption
<1>2. PICK p \in Stops(q, n) : /\ BeforeStart(q, n, p) \/ WithEnds(q, n, p)
                               /\ \A o \in Stops(q, n) : p <= o
  <2>1. ~Cut(q, n)
    BY <1>1 DEF Cut
  <2> QED
    BY <2>1, HowCounted
<1>3. p \in L + 2..n /\ p - L <= BufSize
  BY DEF Stops
<1>4. WithEnds(q, n, p)
  <2>1. ~BeforeStart(q, n, p)
    BY <1>1, <1>3 DEF BeforeStart
  <2> QED
    BY <1>2, <2>1
<1>5. ~IsEnd(q[L + 1])
  <2>1. L < n
    BY <1>1, <1>3
  <2> QED
    BY <2>1, AfterLeading
<1>6. \A i \in L + 2..p - 1 : ~IsStart(q[i]) /\ ~IsEnd(q[i])
  BY <1>2, TextBefore
<1>7. \A i \in p..C : IsEnd(q[i]) /\ ~IsStart(q[i])
  BY <1>4 DEF WithEnds, IsEnd, IsStart
<1> HIDE DEF L, C
<1>8. ASSUME NEW i \in L + 2..C PROVE ~IsStart(q[i])
  <2>1. i \in L + 2..p - 1 \/ i \in p..C
    BY <1>1, <1>3
  <2> QED
    BY <1>6, <1>7, <2>1
<1>9. ASSUME NEW i \in L + 1..C - 1, IsEnd(q[i]) PROVE IsEnd(q[i + 1])
  <2>1. i = L + 1 \/ i \in L + 2..p - 1 \/ i \in p..C
    BY <1>1, <1>3
  <2>2. i \in p..C
    BY <1>5, <1>6, <1>9, <2>1
  <2>3. i + 1 \in p..C
    BY <1>1, <1>3, <1>9, <2>2
  <2> QED
    BY <1>7, <2>3
<1> QED
  BY <1>5, <1>8, <1>9 DEF L, C

LEMMA PulledFits ==
    ASSUME LinesFit, TypeOK, NEW k \in Nat, Pulled(k)
    PROVE  Count(queue, size) - Leading(queue, size) <= BufSize
<1> DEFINE L == Leading(queue, size)
           C == Count(queue, size)
<1>1. /\ queue \in Seq(Byte) /\ size \in 0..Len(queue) /\ Len(queue) \in Nat /\ pushed \in 0..Len(Wire)
      /\ Len(Wire) \in Nat /\ Len(queue) = pushed - k /\ BufSize \in Nat \ {0}
  BY WireTypes, WireAssumption DEF TypeOK, Pulled
<1>2. L \in 0..size /\ C \in L..Len(queue)
  BY <1>1, LeadingEnds, Counted
<1>3. SUFFICES ASSUME C - L > BufSize PROVE FALSE
  BY <1>1, <1>2
<1>4. /\ ~IsEnd(queue[L + 1])
      /\ \A i \in L + 2..C : ~IsStart(queue[i])
      /\ \A i \in L + 1..C - 1 : IsEnd(queue[i]) => IsEnd(queue[i + 1])
  BY <1>1, <1>3, LongLine
<1> HIDE DEF L, C
<1>5. \A i \in 1..Len(queue) : queue[i] = Wire[k + i]
  BY DEF Pulled
<1>6. k + L + 1 \in 1..Len(Wire) /\ k + C \in 1..Len(Wire) /\ k + L + 1 <= k + C
  BY <1>1, <1>2, <1>3
<1>7. ~IsEnd(Wire[k + L + 1])
  <2>1. L + 1 \in 1..Len(queue) /\ k + (L + 1) = k + L + 1
    BY <1>1, <1>2, <1>3
  <2>2. queue[L + 1] = Wire[k + (L + 1)]
    BY <1>5, <2>1
  <2> QED
    BY <1>4, <2>1, <2>2
<1>8. ASSUME NEW x \in k + L + 1 + 1..k + C PROVE ~IsStart(Wire[x])
  <2>1. x - k \in L + 2..C /\ x - k \in 1..Len(queue) /\ k + (x - k) = x
    BY <1>1, <1>2
  <2>2. queue[x - k] = Wire[x]
    BY <1>5, <2>1
  <2> QED
    BY <1>4, <2>1, <2>2
<1>9. ASSUME NEW x \in k + L + 1..k + C - 1 PROVE IsEnd(Wire[x]) => IsEnd(Wire[x + 1])
  <2>1. /\ x - k \in L + 1..C - 1 /\ x - k \in 1..Len(queue) /\ k + (x - k) = x
        /\ x - k + 1 \in 1..Len(queue) /\ k + (x - k + 1) = x + 1
    BY <1>1, <1>2
  <2>2. queue[x - k] = Wire[x] /\ queue[x - k + 1] = Wire[x + 1]
    BY <1>5, <2>1
  <2> QED
    BY <1>4, <2>1, <2>2
<1>10. (k + C) - (k + L + 1) < BufSize
  <2> DEFINE i == k + L + 1
             j == k + C
  <2>1. /\ i \in 1..Len(Wire) /\ j \in 1..Len(Wire) /\ i <= j /\ ~IsEnd(Wire[i])
        /\ \A x \in i + 1..j : ~IsStart(Wire[x])
        /\ \A x \in i..j - 1 : IsEnd(Wire[x]) => IsEnd(Wire[x + 1])
    <3>1. i \in 1..Len(Wire) /\ j \in 1..Len(Wire) /\ i <= j /\ ~IsEnd(Wire[i])
      BY <1>6, <1>7
    <3>2. \A x \in i + 1..j : ~IsStart(Wire[x])
      BY <1>8
    <3>3. \A x \in i..j - 1 : IsEnd(Wire[x]) => IsEnd(Wire[x + 1])
      <4>1. i..j - 1 = k + L + 1..k + C - 1
        BY <1>1, <1>2
      <4> QED
        BY <1>9, <4>1
    <3> QED
      BY <3>1, <3>2, <3>3
  <2> HIDE DEF i, j
  <2>2. j - i < BufSize
    BY <2>1 DEF LinesFit
  <2> QED
    BY <2>2 DEF i, j
<1> QED
  BY <1>1, <1>2, <1>3, <1>10

\* No line is copied past the end of the buffer, however pushes and pulls cut the bytes of a
\* talker whose lines fit with their ends.
THEOREM Fits == LinesFit => (Spec => []LineFits)
<1> SUFFICES ASSUME LinesFit PROVE Spec => []LineFits
  OBVIOUS
<1>1. Init => OrderInv
  <2> SUFFICES ASSUME Init PROVE OrderInv
    OBVIOUS
  <2>1. Len(queue) = 0 /\ Len(accepted) = 0 /\ pushed = 0
    BY DEF Init
  <2>2. Pulled(0) /\ Behind(0) /\ AcceptedInOrder
    BY <2>1 DEF Pulled, Behind, AcceptedInOrder
  <2> QED
    BY <2>2 DEF OrderInv
<1>2. Init => LineFits
  BY WireAssumption DEF Init, LineFits
<1>3. ASSUME TypeOK, OrderInv, LineFits, [Next]_vars PROVE LineFits'
  <2>1. PICK k \in Nat : Pulled(k)
    BY <1>3 DEF OrderInv
  <2>2. CASE UNCHANGED line
    BY <1>3, <2>2 DEF LineFits
  <2>3. CASE line' = Line(queue, size)
    <3>1. queue \in Seq(Byte) /\ size \in 0..Len(queue)
      BY <1>3 DEF TypeOK
    <3> QED
      BY <1>3, <2>1, <2>3, <3>1, PulledFits, LineOf DEF LineFits
  <2> QED
    BY <1>3, <2>2, <2>3 DEF Next, ReaderPush, ProcessorSize, ProcessorPull, vars
<1> QED
  BY <1>1, <1>2, <1>3, TypeCorrect, OrderStep, PTL DEF Spec

-----------------------------------------------------------------------------
(* What comes in one push is parsed *)

\* The first b bytes of the wire end inside the sentence.
Inside(b, n, w) == w <= b /\ b < w + Len(Sentences[n]) - 1

\* A sentence that is neither split nor parsed has not lost its start, and neither what was
\* pushed nor what the processor has seen ends inside it.
Unparsed(k) ==
    \A n \in (1..Len(Sentences)) \ (split \union ToSet(accepted)) : \A w \in 1..Len(Wire) :
        Begins(n, w) => k < w /\ ~Inside(pushed, n, w) /\ ~Inside(k + size, n, w)

UnparsedInv == \E k \in Nat : Pulled(k) /\ Unparsed(k)

LEMMA SentenceBytes ==
    ASSUME SentencesWhole, NEW n \in 1..Len(Sentences), NEW w \in 1..Len(Wire), Begins(n, w)
    PROVE  /\ Len(Sentences[n]) \in Nat /\ Len(Sentences[n]) > 1 /\ Len(Sentences[n]) <= BufSize
           /\ w \in Nat /\ w + Len(Sentences[n]) - 1 <= Len(Wire)
           /\ IsStart(Wire[w]) /\ Wire[w].of = n
           /\ \A b \in w..w + Len(Sentences[n]) - 1 : Wire[b].of = n
           /\ \A b \in w + 1..w + Len(Sentences[n]) - 1 : ~IsStart(Wire[b]) /\ ~IsEnd(Wire[b])
<1>1. Sentences[n] \in Seq(Byte) /\ Len(Sentences[n]) > 1 /\ IsStart(Sentences[n][1])
  BY WireAssumption
<1>2. /\ Len(Sentences[n]) <= BufSize
      /\ \A i \in 1..Len(Sentences[n]) :
            Sentences[n][i].of = n /\ (i > 1 => Sentences[n][i].kind = "text")
  BY DEF SentencesWhole
<1> DEFINE len == Len(Sentences[n])
<1>3. len \in Nat /\ len > 1 /\ w \in Nat /\ Len(Wire) \in Nat
  BY <1>1, WireTypes
<1>4. w + len - 1 <= Len(Wire) /\ \A i \in 1..len : Wire[w + i - 1] = Sentences[n][i]
  BY DEF Begins
<1> HIDE DEF len
<1>5. ASSUME NEW b \in w..w + len - 1
      PROVE  b - w + 1 \in 1..len /\ Wire[b] = Sentences[n][b - w + 1]
  <2>1. b - w + 1 \in 1..len /\ w + (b - w + 1) - 1 = b
    BY <1>3
  <2> QED
    BY <1>4, <2>1
<1>6. Wire[w] = Sentences[n][1]
  <2>1. w \in w..w + len - 1 /\ w - w + 1 = 1
    BY <1>3
  <2> QED
    BY <1>5, <2>1
<1>7. ASSUME NEW b \in w..w + len - 1 PROVE Wire[b].of = n
  BY <1>2, <1>5 DEF len
<1>8. ASSUME NEW b \in w + 1..w + len - 1 PROVE ~IsStart(Wire[b]) /\ ~IsEnd(Wire[b])
  <2>1. b \in w..w + len - 1 /\ b - w + 1 > 1
    BY <1>3
  <2>2. Wire[b].kind = "text"
    BY <1>2, <1>5, <2>1 DEF len
  <2> QED
    BY <2>2 DEF IsStart, IsEnd
<1> QED
  BY <1>1, <1>2, <1>3, <1>4, <1>6, <1>7, <1>8 DEF len

\* A line that begins with a sentence the processor sees whole contains it, and so the
\* sentence is parsed.
LEMMA WholeIsParsed ==
    ASSUME NEW q \in Seq(Byte), NEW n \in 0..Len(q), NEW s \in 1..Len(Sentences),
           Len(Sentences[s]) <= BufSize,
           Leading(q, n) + Len(Sentences[s]) <= n,
           \A i \in 1..Len(Sentences[s]) : q[Leading(q, n) + i] = Sentences[s][i],
           \A i \in 2..Len(Sentences[s]) : ~IsStart(Sentences[s][i]) /\ ~IsEnd(Sentences[s][i])
    PROVE  s \in Parsed(Line(q, n))
<1> DEFINE L == Leading(q, n)
           C == Count(q, n)
           len == Len(Sentences[s])
           l == Line(q, n)
<1>1. /\ L \in 0..n /\ n \in Nat /\ Len(q) \in Nat /\ BufSize \in Nat /\ C \in L..Len(q)
      /\ Sentences[s] \in Seq(Byte) /\ len \in Nat /\ len > 1
  <2>1. L \in 0..n /\ C \in L..Len(q)
    BY LeadingEnds, Counted
  <2>2. Sentences[s] \in Seq(Byte) /\ len > 1 /\ BufSize \in Nat
    BY WireAssumption
  <2>3. len \in Nat
    BY <2>2
  <2> QED
    BY <2>1, <2>2, <2>3
<1>2. L + len <= C
  <2>1. CASE Cut(q, n)
    BY <1>1, <2>1 DEF Cut
  <2>2. ASSUME NEW p \in Stops(q, n), BeforeStart(q, n, p) \/ WithEnds(q, n, p)
        PROVE  L + len <= C
    <3>1. p \in L + 2..n /\ (IsEnd(q[p]) \/ IsStart(q[p]))
      BY DEF Stops
    <3>2. p > L + len
      <4>1. SUFFICES ASSUME p <= L + len PROVE FALSE
        BY <1>1, <3>1
      <4>2. \E i \in 2..len : i \in 1..len /\ L + i = p
        <5>1. L \in Nat /\ len \in Nat /\ p \in L + 2..n
          BY <1>1, <3>1
        <5> HIDE DEF L, len
        <5>2. p - L \in 2..len /\ p - L \in 1..len /\ L + (p - L) = p
          BY <1>1, <4>1, <5>1
        <5> QED
          BY <5>2
      <4>3. PICK i \in 2..len : i \in 1..len /\ L + i = p
        BY <4>2
      <4>4. q[p] = Sentences[s][i]
        BY <4>3
      <4> QED
        BY <3>1, <4>3, <4>4
    <3>3. C >= p - 1
      BY <1>1, <2>2, <3>1 DEF BeforeStart, WithEnds
    <3> QED
      BY <1>1, <3>1, <3>2, <3>3
  <2> QED
    BY <2>1, <2>2, HowCounted
<1>3. l \in Seq(Byte) /\ Len(l) = C - L /\ \A i \in 1..Len(l) : l[i] = q[L + i]
  BY LineOf
<1> HIDE DEF l, C, L
<1>4. /\ SubSeq(l, 1, len) \in Seq(Byte)
      /\ Len(SubSeq(l, 1, len)) = len
      /\ \A i \in 1..len : SubSeq(l, 1, len)[i] = l[i]
  <2>1. \A i \in 1..len : l[i] \in Byte
    BY <1>1, <1>2, <1>3
  <2>2. /\ SubSeq(l, 1, len) \in Seq(Byte)
        /\ Len(SubSeq(l, 1, len)) = IF 1 <= len THEN len - 1 + 1 ELSE 0
        /\ \A i \in 1..len - 1 + 1 : SubSeq(l, 1, len)[i] = l[1 + i - 1]
    BY <1>1, <2>1, SubSeqProperties
  <2>3. ASSUME NEW i \in 1..len PROVE SubSeq(l, 1, len)[i] = l[i]
    <3>1. i \in 1..len - 1 + 1 /\ 1 + i - 1 = i
      BY <1>1
    <3> QED
      BY <2>2, <3>1
  <2> QED
    BY <1>1, <2>2, <2>3
<1>5. \A i \in 1..len : SubSeq(l, 1, len)[i] = Sentences[s][i]
  <2>1. SUFFICES ASSUME NEW i \in 1..len PROVE SubSeq(l, 1, len)[i] = Sentences[s][i]
    OBVIOUS
  <2>2. i \in 1..Len(l)
    BY <1>1, <1>2, <1>3
  <2>3. q[L + i] = Sentences[s][i]
    BY <2>1 DEF L
  <2> QED
    BY <1>3, <1>4, <2>2, <2>3
<1>6. SubSeq(l, 1, len) = Sentences[s]
  BY <1>1, <1>4, <1>5, SeqEqual
<1>7. SubSeq(Sentences[s], 1, len) = Sentences[s]
  BY <1>1, SubSeqFull
<1>8. IsPrefix(Sentences[s], l)
  BY <1>1, <1>2, <1>3, <1>6, <1>7 DEF IsPrefix
<1> QED
  BY <1>8 DEF Parsed, l

LEMMA UnparsedPush ==
    ASSUME SentencesWhole, TypeOK, NEW j \in 1..Len(Wire), ReaderPush(j),
           NEW k \in Nat, Pulled(k), Unparsed(k)
    PROVE  Unparsed(k)'
<1>1. /\ pushed + j <= Len(Wire) /\ pushed' = pushed + j /\ UNCHANGED <<size, accepted>>
      /\ split' = IF pushed + j < Len(Wire) /\ Wire[pushed + j].of = Wire[pushed + j + 1].of
                    THEN split \union {Wire[pushed + j].of} ELSE split
  BY DEF ReaderPush
<1>2. SUFFICES ASSUME NEW n \in (1..Len(Sentences)) \ (split' \union ToSet(accepted')),
                      NEW w \in 1..Len(Wire), Begins(n, w)
               PROVE  k < w /\ ~Inside(pushed', n, w) /\ ~Inside(k + size', n, w)
  BY DEF Unparsed, Inside
<1>3. n \in (1..Len(Sentences)) \ (split \union ToSet(accepted))
  BY <1>1, <1>2
<1>4. k < w /\ ~Inside(k + size, n, w)
  BY <1>2, <1>3 DEF Unparsed
<1>5. ASSUME Inside(pushed', n, w) PROVE FALSE
  <2> DEFINE b == pushed + j
             e == w + Len(Sentences[n]) - 1
  <2>1. b \in Nat /\ b + 1 \in Nat /\ w \in Nat /\ e \in Int /\ w <= b /\ b < e /\ e <= Len(Wire)
    <3>1. Len(Sentences[n]) \in Nat /\ w \in Nat /\ e <= Len(Wire)
      BY <1>2, SentenceBytes
    <3>2. w <= b /\ b < e
      BY <1>1, <1>5 DEF Inside
    <3> QED
      BY <3>1, <3>2, WireTypes DEF TypeOK
  <2>2. \A x \in w..e : Wire[x].of = n
    BY <1>2, SentenceBytes
  <2> HIDE DEF b, e
  <2>3. b \in w..e /\ b + 1 \in w..e /\ b < Len(Wire)
    BY <2>1, WireTypes
  <2>4. Wire[b].of = n /\ Wire[b + 1].of = n
    BY <2>2, <2>3
  <2>5. split' = split \union {n}
    BY <1>1, <2>3, <2>4 DEF b
  <2> QED
    BY <1>2, <2>5
<1> QED
  BY <1>1, <1>4, <1>5

\* A pull does not take the start of a sentence unless it takes it all, and parses it.
LEMMA UnparsedPull ==
    ASSUME SentencesWhole, TypeOK, NEW k \in Nat, Pulled(k), Unparsed(k),
           Count(queue, size) > 0, queue' = Rest(queue, size), line' = Line(queue, size),
           \/ Parsed(line') = {} /\ UNCHANGED accepted
           \/ \E n \in Parsed(line') : accepted' = Append(accepted, n),
           size' = 0, UNCHANGED <<pushed, split>>
    PROVE  UnparsedInv'
<1> DEFINE L == Leading(queue, size)
           C == Count(queue, size)
<1>1. /\ queue \in Seq(Byte) /\ size \in 0..Len(queue) /\ Len(queue) \in Nat
      /\ pushed \in 0..Len(Wire) /\ Len(Wire) \in Nat /\ Len(queue) = pushed - k
      /\ accepted \in Seq(1..Len(Sentences)) /\ Len(accepted) \in Nat
  BY WireTypes DEF TypeOK, Pulled
<1>2. L \in 0..size /\ C \in L..Len(queue) /\ C \in 1..Len(queue)
  BY <1>1, LeadingEnds, Counted, RestOf
<1>3. PICK d \in Nat : d = k + C - 1 /\ Pulled(d)'
  BY PullKeepsPulled
<1>4. \A x \in Parsed(line') : x \in 1..Len(Sentences)
  BY DEF Parsed
<1>5. ToSet(accepted) \subseteq ToSet(accepted')
  <2>1. CASE UNCHANGED accepted
    BY <2>1
  <2>2. ASSUME NEW x \in Parsed(line'), accepted' = Append(accepted, x)
        PROVE  ToSet(accepted) \subseteq ToSet(accepted')
    <3>1. x \in 1..Len(Sentences)
      BY <1>4
    <3>2. /\ accepted' \in Seq(1..Len(Sentences)) /\ Len(accepted') = Len(accepted) + 1
          /\ \A i \in 1..Len(accepted) : accepted'[i] = accepted[i]
      BY <1>1, <2>2, <3>1, AppendProperties
    <3>3. \A i \in 1..Len(accepted) : i \in 1..Len(accepted')
      BY <1>1, <3>2
    <3>4. DOMAIN accepted = 1..Len(accepted) /\ DOMAIN accepted' = 1..Len(accepted')
      BY <1>1, <3>2
    <3> QED
      BY <3>2, <3>3, <3>4 DEF ToSet
  <2> QED
    BY <2>1, <2>2
<1>6. ASSUME NEW n \in (1..Len(Sentences)) \ (split' \union ToSet(accepted')),
             NEW w \in 1..Len(Wire), Begins(n, w)
      PROVE  d < w /\ ~Inside(pushed', n, w) /\ ~Inside(d + size', n, w)
  <2> DEFINE len == Len(Sentences[n])
  <2>1. n \in (1..Len(Sentences)) \ (split \union ToSet(accepted))
    BY <1>5, <1>6
  <2>2. k < w /\ ~Inside(pushed, n, w) /\ ~Inside(k + size, n, w)
    BY <1>6, <2>1 DEF Unparsed
  <2>3. /\ len \in Nat /\ len > 1 /\ len <= BufSize /\ w \in Nat /\ IsStart(Wire[w]) /\ Wire[w].of = n
        /\ BufSize \in Nat
    BY <1>6, SentenceBytes, WireAssumption
  <2>4. d < w
    <3>1. SUFFICES ASSUME d >= w PROVE FALSE
      BY <1>3, <2>3
    <3>2. PICK z \in 1..Len(queue) : k + z = w /\ z < C
      <4>1. C \in 1..Len(queue) /\ d = k + C - 1 /\ Len(queue) \in Nat /\ w \in Nat
        BY <1>1, <1>2, <1>3, <2>3
      <4> HIDE DEF C
      <4>2. k < w /\ w <= k + C - 1 /\ C \in Nat
        BY <2>2, <3>1, <4>1
      <4>3. w - k \in 1..Len(queue) /\ k + (w - k) = w /\ w - k < C
        BY <4>1, <4>2
      <4> QED
        BY <4>3
    <3>3. queue[z] = Wire[w] /\ IsStart(queue[z]) /\ ~IsEnd(queue[z])
      BY <2>3, <3>2 DEF Pulled, IsStart, IsEnd
    <3>4. ~(z \in 1..L)
      BY <1>1, <3>3, LeadingAreEnds
    <3>5. ~(z \in L + 2..Len(queue))
      <4>1. SUFFICES ASSUME z \in L + 2..Len(queue) PROVE FALSE
        OBVIOUS
      <4>2. C < z
        BY <1>1, <3>3, <4>1, StartNotPassed
      <4> QED
        BY <1>1, <1>2, <3>2, <4>2
    <3>6. z = L + 1
      BY <1>1, <1>2, <3>2, <3>4, <3>5
    <3>7. size > L
      <4>1. CASE Cut(queue, size)
        <5>1. C <= size
          BY <4>1 DEF Cut
        <5> QED
          BY <1>1, <1>2, <3>2, <3>6, <5>1
      <4>2. ASSUME NEW p \in Stops(queue, size) PROVE size > L
        <5>1. p \in L + 2..size
          BY DEF Stops
        <5> QED
          BY <1>1, <1>2, <5>1
      <4> QED
        BY <1>1, <4>1, <4>2, HowCounted
    <3>8. L + len <= size
      <4>1. w <= k + size
        BY <1>1, <1>2, <3>2, <3>6, <3>7
      <4>2. ~(k + size < w + len - 1)
        BY <2>2, <4>1 DEF Inside
      <4> HIDE DEF L, len
      <4> QED
        BY <1>1, <1>2, <2>3, <3>2, <3>6, <4>2
    <3>9. \A i \in 1..len : queue[L + i] = Sentences[n][i]
      <4>1. SUFFICES ASSUME NEW i \in 1..len PROVE queue[L + i] = Sentences[n][i]
        OBVIOUS
      <4>2. Wire[w + i - 1] = Sentences[n][i]
        BY <1>6, <4>1 DEF Begins
      <4> HIDE DEF L, len
      <4>3. L + i \in 1..Len(queue) /\ k + (L + i) = w + i - 1
        BY <1>1, <1>2, <2>3, <3>2, <3>6, <3>8
      <4>4. queue[L + i] = Wire[k + (L + i)]
        BY <4>3 DEF Pulled
      <4> QED
        BY <4>2, <4>3, <4>4
    <3>10. \A i \in 2..len : ~IsStart(Sentences[n][i]) /\ ~IsEnd(Sentences[n][i])
      <4>1. SUFFICES ASSUME NEW i \in 2..len PROVE Sentences[n][i].kind = "text"
        BY DEF IsStart, IsEnd
      <4>2. i \in 1..len /\ i > 1
        BY <2>3
      <4> QED
        BY <1>6, <4>2 DEF SentencesWhole
    <3>11. n \in Parsed(line')
      <4>1. n \in 1..Len(Sentences) /\ len <= BufSize
        BY <1>6, <2>3
      <4>2. n \in Parsed(Line(queue, size))
        BY <1>1, <3>8, <3>9, <3>10, <4>1, WholeIsParsed
      <4> QED
        BY <4>2
    <3>12. PICK x \in Parsed(line') : accepted' = Append(accepted, x)
      BY <3>11
    <3>13. x = n
      <4>1. x \in Parsed(Line(queue, size))
        BY <3>12
      <4>2. queue[L + 1].of = x
        BY <1>1, <4>1, ParsedStart
      <4> QED
        BY <2>3, <3>3, <3>6, <4>2
    <3>14. n \in ToSet(accepted')
      <4>1. n \in 1..Len(Sentences)
        BY <1>6
      <4>2. /\ accepted' \in Seq(1..Len(Sentences)) /\ Len(accepted') = Len(accepted) + 1
            /\ accepted'[Len(accepted) + 1] = n
        BY <1>1, <3>12, <3>13, <4>1, AppendProperties
      <4>3. Len(accepted) + 1 \in DOMAIN accepted'
        BY <1>1, <4>2
      <4> QED
        BY <4>2, <4>3 DEF ToSet
    <3> QED
      BY <1>6, <3>14
  <2>5. ~Inside(d + size', n, w)
    BY <1>3, <2>3, <2>4 DEF Inside
  <2> QED
    BY <2>2, <2>4, <2>5
<1>7. Unparsed(d)'
  BY <1>6 DEF Unparsed, Inside
<1> QED
  BY <1>3, <1>7 DEF UnparsedInv

LEMMA UnparsedStep ==
    ASSUME SentencesWhole PROVE TypeOK /\ UnparsedInv /\ [Next]_vars => UnparsedInv'
<1> SUFFICES ASSUME TypeOK, UnparsedInv, [Next]_vars PROVE UnparsedInv'
  OBVIOUS
<1>1. PICK k \in Nat : Pulled(k) /\ Unparsed(k)
  BY DEF UnparsedInv
<1>2. /\ size \in 0..Len(queue) /\ Len(queue) = pushed - k /\ pushed \in Nat
  BY <1>1, WireTypes DEF TypeOK, Pulled
<1>3. ASSUME NEW j \in 1..Len(Wire), ReaderPush(j) PROVE UnparsedInv'
  BY <1>1, <1>3, PushKeepsPulled, UnparsedPush DEF UnparsedInv
<1>4. CASE UNCHANGED <<pushed, queue, accepted, split>> /\ size' \in {0, Len(queue), size}
  <2>1. Pulled(k)'
    BY <1>1, <1>4 DEF Pulled
  <2>2. ASSUME NEW n \in (1..Len(Sentences)) \ (split' \union ToSet(accepted')),
               NEW w \in 1..Len(Wire), Begins(n, w)
        PROVE  k < w /\ ~Inside(pushed', n, w) /\ ~Inside(k + size', n, w)
    <3>1. k < w /\ ~Inside(pushed, n, w) /\ ~Inside(k + size, n, w)
      BY <1>1, <1>4, <2>2 DEF Unparsed
    <3>2. k + size' \in {k, pushed, k + size}
      <4>1. Len(queue) \in Nat /\ k + Len(queue) = pushed
        BY <1>2 DEF TypeOK
      <4>2. k + 0 = k
        OBVIOUS
      <4>3. CASE size' = 0
        BY <4>2, <4>3
      <4>4. CASE size' = Len(queue)
        BY <4>1, <4>4
      <4>5. CASE size' = size
        BY <4>5
      <4> QED
        BY <1>4, <4>3, <4>4, <4>5
    <3>3. ~Inside(k, n, w)
      BY <3>1 DEF Inside
    <3> QED
      BY <1>4, <3>1, <3>2, <3>3
  <2>3. Unparsed(k)'
    BY <2>2 DEF Unparsed, Inside
  <2> QED
    BY <2>1, <2>3 DEF UnparsedInv
<1>5. CASE ProcessorSize \/ UNCHANGED vars
  BY <1>4, <1>5 DEF ProcessorSize, vars
<1>6. CASE ProcessorPull
  <2>1. CASE UNCHANGED <<queue, line, accepted>>
    BY <1>4, <1>6, <2>1 DEF ProcessorPull
  <2>2. CASE ~(UNCHANGED <<queue, line, accepted>>)
    <3>1. /\ Count(queue, size) > 0 /\ queue' = Rest(queue, size) /\ line' = Line(queue, size)
          /\ \/ Parsed(line') = {} /\ UNCHANGED accepted
             \/ \E n \in Parsed(line') : accepted' = Append(accepted, n)
          /\ size' = 0 /\ UNCHANGED <<pushed, split>>
      BY <1>6, <2>2 DEF ProcessorPull
    <3> QED
      BY <1>1, <3>1, UnparsedPull
  <2> QED
    BY <2>1, <2>2
<1> QED
  BY <1>3, <1>5, <1>6 DEF Next

\* A sentence that came in one push is parsed by the pull that takes its first byte, whatever
\* was split or refused before it, when the talker sends its sentences in one piece.
THEOREM OnePushParsed == SentencesWhole => (Spec => []UnsplitParsed)
<1> SUFFICES ASSUME SentencesWhole PROVE Spec => []UnsplitParsed
  OBVIOUS
<1>1. Init => UnparsedInv
  <2> SUFFICES ASSUME Init PROVE UnparsedInv
    OBVIOUS
  <2>1. Len(queue) = 0 /\ pushed = 0 /\ size = 0
    BY DEF Init
  <2>2. Pulled(0)
    BY <2>1 DEF Pulled
  <2>3. Unparsed(0)
    BY <2>1, WireTypes DEF Unparsed, Inside
  <2> QED
    BY <2>2, <2>3 DEF UnparsedInv
<1>2. ASSUME TypeOK, UnparsedInv PROVE UnsplitParsed
  <2>1. PICK k \in Nat : Pulled(k) /\ Unparsed(k)
    BY <1>2 DEF UnparsedInv
  <2>2. SUFFICES ASSUME NEW n \in (1..Len(Sentences)) \ (split \union ToSet(accepted)), Taken(n)
                 PROVE  FALSE
    BY DEF UnsplitParsed
  <2>3. PICK w \in 1..Len(Wire) : Begins(n, w)
    BY DEF SentencesWhole
  <2>4. k < w
    BY <2>1, <2>3 DEF Unparsed
  <2>5. IsStart(Wire[w]) /\ Wire[w].of = n
    BY <2>3, SentenceBytes
  <2>6. Wire[w] \notin ToSet(queue) \union ToSet(SubSeq(Wire, pushed + 1, Len(Wire)))
    BY <2>2, <2>5 DEF Taken
  <2>7. /\ queue \in Seq(Byte) /\ Len(queue) \in Nat /\ Len(queue) = pushed - k
        /\ pushed \in Nat /\ pushed <= Len(Wire) /\ Len(Wire) \in Nat
    BY <1>2, <2>1, WireTypes DEF TypeOK, Pulled
  <2>8. CASE w <= pushed
    <3>1. w - k \in 1..Len(queue) /\ k + (w - k) = w
      BY <2>4, <2>7, <2>8
    <3>2. queue[w - k] = Wire[w] /\ w - k \in DOMAIN queue
      BY <2>1, <2>7, <3>1 DEF Pulled
    <3> QED
      BY <2>6, <3>2 DEF ToSet
  <2>9. CASE w > pushed
    <3> DEFINE rest == SubSeq(Wire, pushed + 1, Len(Wire))
    <3>1. \A x \in pushed + 1..Len(Wire) : Wire[x] \in Byte
      BY <2>7, WireTypes
    <3>2. /\ rest \in Seq(Byte)
          /\ Len(rest) = IF pushed + 1 <= Len(Wire) THEN Len(Wire) - (pushed + 1) + 1 ELSE 0
          /\ \A i \in 1..Len(Wire) - (pushed + 1) + 1 : rest[i] = Wire[pushed + 1 + i - 1]
      BY <2>7, <3>1, SubSeqProperties
    <3>3. PICK i \in 1..Len(Wire) - (pushed + 1) + 1 : pushed + 1 + i - 1 = w
      <4>1. /\ w - pushed \in 1..Len(Wire) - (pushed + 1) + 1
            /\ pushed + 1 + (w - pushed) - 1 = w
        BY <2>7, <2>9
      <4> QED
        BY <4>1
    <3>4. rest[i] = Wire[w]
      BY <3>2, <3>3
    <3>5. i \in 1..Len(rest)
      BY <2>7, <2>9, <3>2
    <3> HIDE DEF rest
    <3>6. i \in DOMAIN rest
      BY <3>2, <3>5
    <3>7. Wire[w] \in ToSet(rest)
      BY <3>4, <3>6 DEF ToSet
    <3> QED
      BY <2>6, <3>7 DEF rest
  <2> QED
    BY <2>7, <2>8, <2>9
<1> QED
  BY <1>1, <1>2, TypeCorrect, UnparsedStep, PTL DEF Spec

-----------------------------------------------------------------------------
(* The parsers *)

\* Types that nobody means: the parsers add them to say what a value is worth.
Marks == {"PosSysMode", "GPSQual", "GyroMode"}

Said(s, m) == [type |-> m.type, value |-> m.value, by |-> Source(s)]
Updates(s) == ToSet(Parse(s))
Updated(s) == {u.type : u \in Updates(s)}

\* A sequence of updates with each type once.
WellFormed(q) ==
    /\ q \in Seq(ToSet(q))
    /\ \A i, j \in DOMAIN q : q[i].type = q[j].type => i = j

\* What one, two and three calls of updateData make.
LEMMA UpdateMade ==
    ASSUME NEW t, NEW v, NEW c \in BOOLEAN
    PROVE  /\ WellFormed(Update(t, v, c))
           /\ \A x : x \in ToSet(Update(t, v, c)) <=> c /\ x = [type |-> t, value |-> v]
<1> DEFINE u == [type |-> t, value |-> v]
<1>1. CASE c
  <2>1. Update(t, v, c) = <<u>>
    BY <1>1 DEF Update
  <2>2. ToSet(<<u>>) = {u} /\ WellFormed(<<u>>)
    BY DEF ToSet, WellFormed
  <2> QED
    BY <1>1, <2>1, <2>2
<1>2. CASE ~c
  <2>1. Update(t, v, c) = << >>
    BY <1>2 DEF Update
  <2>2. ToSet(<< >>) = {} /\ WellFormed(<< >>)
    BY DEF ToSet, WellFormed
  <2> QED
    BY <1>2, <2>1, <2>2
<1> QED
  BY <1>1, <1>2

LEMMA UpdatesJoined ==
    ASSUME NEW a, NEW b, WellFormed(a), WellFormed(b),
           \A x \in ToSet(a), y \in ToSet(b) : x.type # y.type
    PROVE  WellFormed(a \o b) /\ ToSet(a \o b) = ToSet(a) \union ToSet(b)
<1> DEFINE S == ToSet(a) \union ToSet(b)
<1>1. a \in Seq(S) /\ b \in Seq(S)
  BY DEF WellFormed
<1>2. /\ a \o b \in Seq(S) /\ DOMAIN (a \o b) = 1..(Len(a) + Len(b))
      /\ Len(a) \in Nat /\ Len(b) \in Nat /\ DOMAIN a = 1..Len(a) /\ DOMAIN b = 1..Len(b)
      /\ \A i \in 1..(Len(a) + Len(b)) : (a \o b)[i] = IF i <= Len(a) THEN a[i] ELSE b[i - Len(a)]
  BY <1>1
<1>3. ToSet(a \o b) = S
  <2>1. \A i \in DOMAIN a : i \in DOMAIN (a \o b) /\ (a \o b)[i] = a[i]
    BY <1>2
  <2>2. \A i \in DOMAIN b : i + Len(a) \in DOMAIN (a \o b) /\ (a \o b)[i + Len(a)] = b[i]
    BY <1>2
  <2>3. \A i \in DOMAIN (a \o b) : (i \in DOMAIN a /\ (a \o b)[i] = a[i])
                                    \/ (i - Len(a) \in DOMAIN b /\ (a \o b)[i] = b[i - Len(a)])
    BY <1>2
  <2>4. ASSUME NEW x \in S PROVE x \in ToSet(a \o b)
    BY <2>1, <2>2 DEF ToSet
  <2>5. ASSUME NEW x \in ToSet(a \o b) PROVE x \in S
    <3>1. PICK i \in DOMAIN (a \o b) : x = (a \o b)[i]
      BY DEF ToSet
    <3>2. x \in ToSet(a) \/ x \in ToSet(b)
      BY <2>3, <3>1 DEF ToSet
    <3> QED
      BY <3>2
  <2> HIDE DEF S
  <2> QED
    BY <2>4, <2>5
<1>4. ASSUME NEW i \in DOMAIN (a \o b), NEW j \in DOMAIN (a \o b), (a \o b)[i].type = (a \o b)[j].type
      PROVE  i = j
  <2>1. CASE i <= Len(a) /\ j <= Len(a)
    BY <1>2, <1>4, <2>1 DEF WellFormed
  <2>2. CASE ~(i <= Len(a)) /\ ~(j <= Len(a))
    <3>1. i - Len(a) \in DOMAIN b /\ j - Len(a) \in DOMAIN b
      BY <1>2, <2>2
    <3> QED
      BY <1>2, <1>4, <2>2, <3>1 DEF WellFormed
  <2>3. CASE i <= Len(a) /\ ~(j <= Len(a))
    <3>1. i \in DOMAIN a /\ j - Len(a) \in DOMAIN b
      BY <1>2, <2>3
    <3> QED
      BY <1>2, <1>4, <2>3, <3>1 DEF ToSet
  <2>4. CASE ~(i <= Len(a)) /\ j <= Len(a)
    <3>1. j \in DOMAIN a /\ i - Len(a) \in DOMAIN b
      BY <1>2, <2>4
    <3> QED
      BY <1>2, <1>4, <2>4, <3>1 DEF ToSet
  <2> QED
    BY <1>2, <2>1, <2>2, <2>3, <2>4
<1> QED
  BY <1>2, <1>3, <1>4 DEF WellFormed

LEMMA TwoUpdates ==
    ASSUME NEW t1, NEW v1, NEW c1 \in BOOLEAN, NEW t2, NEW v2, NEW c2 \in BOOLEAN, t1 # t2
    PROVE  /\ WellFormed(Update(t1, v1, c1) \o Update(t2, v2, c2))
           /\ \A x : x \in ToSet(Update(t1, v1, c1) \o Update(t2, v2, c2)) <=>
                 \/ c1 /\ x = [type |-> t1, value |-> v1]
                 \/ c2 /\ x = [type |-> t2, value |-> v2]
<1> DEFINE a == Update(t1, v1, c1)
           b == Update(t2, v2, c2)
<1>1. WellFormed(a) /\ \A x : x \in ToSet(a) <=> c1 /\ x = [type |-> t1, value |-> v1]
  BY UpdateMade
<1>2. WellFormed(b) /\ \A x : x \in ToSet(b) <=> c2 /\ x = [type |-> t2, value |-> v2]
  BY UpdateMade
<1>3. \A x \in ToSet(a), y \in ToSet(b) : x.type # y.type
  BY <1>1, <1>2
<1> HIDE DEF a, b
<1>4. WellFormed(a \o b) /\ ToSet(a \o b) = ToSet(a) \union ToSet(b)
  BY <1>1, <1>2, <1>3, UpdatesJoined
<1> QED
  BY <1>1, <1>2, <1>4 DEF a, b

LEMMA ThreeUpdates ==
    ASSUME NEW t1, NEW v1, NEW c1 \in BOOLEAN, NEW t2, NEW v2, NEW c2 \in BOOLEAN,
           NEW t3, NEW v3, NEW c3 \in BOOLEAN, t1 # t2, t1 # t3, t2 # t3
    PROVE  /\ WellFormed(Update(t1, v1, c1) \o Update(t2, v2, c2) \o Update(t3, v3, c3))
           /\ \A x : x \in ToSet(Update(t1, v1, c1) \o Update(t2, v2, c2) \o Update(t3, v3, c3)) <=>
                 \/ c1 /\ x = [type |-> t1, value |-> v1]
                 \/ c2 /\ x = [type |-> t2, value |-> v2]
                 \/ c3 /\ x = [type |-> t3, value |-> v3]
<1> DEFINE u1 == [type |-> t1, value |-> v1]
           u2 == [type |-> t2, value |-> v2]
           u3 == [type |-> t3, value |-> v3]
           a == Update(t1, v1, c1) \o Update(t2, v2, c2)
           b == Update(t3, v3, c3)
<1>0. WellFormed(a)
  BY TwoUpdates
<1>1. WellFormed(a) /\ \A x : x \in ToSet(a) <=> ((c1 /\ x = u1) \/ (c2 /\ x = u2))
  <2>1. \A x : x \in ToSet(a) <=> ((c1 /\ x = u1) \/ (c2 /\ x = u2))
    BY TwoUpdates
  <2> QED
    BY <1>0, <2>1
<1>2. WellFormed(b) /\ \A x : x \in ToSet(b) <=> c3 /\ x = u3
  BY UpdateMade
<1>3. u1.type # u3.type /\ u2.type # u3.type
  OBVIOUS
<1> HIDE DEF a, b, u1, u2, u3
<1>4. \A x \in ToSet(a), y \in ToSet(b) : x.type # y.type
  BY <1>1, <1>2, <1>3
<1>5. WellFormed(a \o b) /\ ToSet(a \o b) = ToSet(a) \union ToSet(b)
  BY <1>1, <1>2, <1>4, UpdatesJoined
<1>6. WellFormed(a \o b)
       /\ \A x : x \in ToSet(a \o b) <=> ((c1 /\ x = u1) \/ (c2 /\ x = u2) \/ (c3 /\ x = u3))
  BY <1>1, <1>2, <1>5
<1> QED
  BY <1>6, Zenon DEF a, b, u1, u2, u3

\* A parser takes what is meant or rejects it, and updates nothing that is not meant but
\* marks and, from MWD, the relative direction of the wind.
Understood(s) ==
    /\ WellFormed(Parse(s))
    /\ \A m \in Means(s) :
          /\ m.type \notin Marks
          /\ [type |-> m.type, value |-> m.value] \in Updates(s) \/ Rejected(Said(s, m))
    /\ \A t \in Updated(s) :
          \/ t \in Marks \/ \E m \in Means(s) : m.type = t
          \/ t = "WindDirR" /\ t \in Doubts(s)

\* A parser that updates a doubtful position or heading marks it, and takes the mark away
\* only with the value, or with a position at the meridian of 180 degrees.
Marked(s) ==
    /\ "Position" \in Updated(s) /\ "Position" \in Doubts(s) =>
          [type |-> "GPSQual", value |-> 0] \in Updates(s)
    /\ "GPSQual" \in Updated(s) =>
          \/ [type |-> "GPSQual", value |-> 0] \in Updates(s)
          \/ "Position" \in Updated(s) /\ "Position" \notin Doubts(s)
          \/ \E m \in Means(s) : AtMeridian(m)
    /\ \A m \in Means(s) : m.type = "Position" => "Position" \in Updated(s) \/ AtMeridian(m)
    /\ "TrueHeading" \in Updated(s) /\ "TrueHeading" \in Doubts(s) =>
          [type |-> "GyroMode", value |-> 0] \in Updates(s)
    /\ "GyroMode" \in Updated(s) =>
          \/ [type |-> "GyroMode", value |-> 0] \in Updates(s)
          \/ "TrueHeading" \in Updated(s) /\ "TrueHeading" \notin Doubts(s)

LEMMA IsUpdated ==
    ASSUME NEW s, NEW t, NEW v, [type |-> t, value |-> v] \in Updates(s)
    PROVE  t \in Updated(s)
<1>1. [type |-> t, value |-> v].type = t
  OBVIOUS
<1> QED
  BY <1>1 DEF Updated

\* Which of a talker's fields the parsers take.
LEMMA AngleTaken ==
    ASSUME NEW a \in Angles \union {Empty}
    PROVE  /\ Given(a) => a \in 0..359 /\ Circle(a)
           /\ Circle(a) => Given(a)
           /\ HalfCircle(a) => Given(a) /\ a < 180
           /\ Given(a) /\ ~HalfCircle(a) => a >= 180
<1>1. a = -1 \/ a \in 0..359
  BY TalkerAssumption DEF Empty
<1> QED
  BY <1>1 DEF Given, Circle, HalfCircle, Empty

LEMMA AmountTaken ==
    ASSUME NEW v \in Amounts \union {Empty}
    PROVE  /\ Given(v) => v \in Nat
           /\ Moving(v) => Given(v)
           /\ Given(v) /\ ~Moving(v) => v = 0 \/ v >= 100
<1>1. v = -1 \/ v \in Nat
  BY TalkerAssumption DEF Empty
<1> QED
  BY <1>1 DEF Given, Moving, Empty

\* A position on the globe is taken as it is meant, but at the meridian of 180 degrees.
LEMMA PositionMeant ==
    ASSUME NEW s, s.lat \in Nat, s.lon \in Nat, s.side \in {"N", "S"}, s.half \in {"E", "W"},
           NEW p, p = [type |-> "Position",
                       value |-> [lat |-> Deformat(s.lat, s.side), lon |-> Deformat(s.lon, s.half)]]
    PROVE  /\ \A x : x \in Fix(s) <=> s.lat <= 90 /\ s.lon <= 180 /\ x = p
           /\ PositionOf(s) = Update("Position", p.value, s.lat <= 90 /\ s.lon < 180)
           /\ ~(s.lon < 180) /\ s.lon <= 180 => AtMeridian(p)
<1> DEFINE lat == IF s.side = "N" THEN s.lat ELSE -s.lat
           lon == IF s.half = "E" THEN s.lon ELSE -s.lon
<1>1. lat = Deformat(s.lat, s.side) /\ lon = Deformat(s.lon, s.half)
  BY DEF Deformat
<1>2. \A x : x \in Fix(s) <=> s.lat \in 0..90 /\ s.lon \in 0..180 /\ x = [type |-> "Position", value |-> [lat |-> lat, lon |-> lon]]
  BY DEF Fix, Meaning
<1>3. \A x : x \in Fix(s) <=> s.lat \in 0..90 /\ s.lon \in 0..180 /\ x = p
  BY <1>1, <1>2
<1>4. PositionOf(s) = Update("Position", p.value, s.lat <= 90 /\ s.lon < 180)
  BY DEF PositionOf, Update, Given, Empty
<1>5. ASSUME ~(s.lon < 180), s.lon <= 180 PROVE AtMeridian(p)
  <2>1. s.lon = 180
    BY <1>5
  <2>2. p.value.lon \in {180, -180}
    BY <2>1 DEF Deformat
  <2> QED
    BY <2>2 DEF AtMeridian
<1>6. (s.lat \in 0..90 /\ s.lon \in 0..180) <=> (s.lat <= 90 /\ s.lon <= 180)
  OBVIOUS
<1> QED
  BY <1>3, <1>4, <1>5, <1>6

LEMMA ReadGLL == ASSUME NEW s \in SentencesOf("GLL") PROVE Understood(s) /\ Marked(s)
<1>1. /\ s.type = "GLL" /\ s.lat \in Nat /\ s.lon \in Nat /\ s.mode = 1 /\ s.status \in {"A", "V"}
      /\ s.side \in {"N", "S"} /\ s.half \in {"E", "W"}
  BY TalkerAssumption DEF SentencesOf
<1>2. CASE s.status = "V"
  <2>1. Parse(s) = << >> /\ Means(s) = {}
    BY <1>1, <1>2 DEF Parse, GLL, Means
  <2>2. Updates(s) = {} /\ WellFormed(Parse(s))
    BY <2>1 DEF Updates, ToSet, WellFormed
  <2> QED
    BY <2>1, <2>2 DEF Understood, Marked, Updated
<1>3. CASE s.status = "A"
  <2>1. PICK p : p = [type |-> "Position",
                      value |-> [lat |-> Deformat(s.lat, s.side), lon |-> Deformat(s.lon, s.half)]]
    OBVIOUS
  <2>2. Means(s) = Fix(s) /\ Doubts(s) = {}
    BY <1>1, <1>3 DEF Means, Doubts
  <2>3. /\ \A x : x \in Means(s) <=> s.lat <= 90 /\ s.lon <= 180 /\ x = p
        /\ PositionOf(s) = Update("Position", p.value, s.lat <= 90 /\ s.lon < 180)
        /\ ~(s.lon < 180) /\ s.lon <= 180 => AtMeridian(p)
    BY <1>1, <2>1, <2>2, PositionMeant
  <2>4. PICK c \in BOOLEAN, m \in BOOLEAN : (c <=> s.lat <= 90 /\ s.lon < 180) /\ m
    OBVIOUS
  <2> DEFINE q == Update("PosSysMode", 1, m) \o Update("Position", p.value, c)
  <2>5. Parse(s) = q
    BY <1>1, <1>3, <2>3, <2>4 DEF Parse, GLL, Update, Given, Empty
  <2>6. "PosSysMode" # "Position"
    OBVIOUS
  <2>7. WellFormed(q)
    BY <2>6, TwoUpdates
  <2>8. \A x : x \in ToSet(q) <=> \/ m /\ x = [type |-> "PosSysMode", value |-> 1]
                                  \/ c /\ x = [type |-> "Position", value |-> p.value]
    BY <2>6, TwoUpdates
  <2> HIDE DEF q
  <2>9. /\ p = [type |-> "Position", value |-> p.value] /\ p.type = "Position"
        /\ p = [type |-> p.type, value |-> p.value]
    BY <2>1
  <2>10. /\ WellFormed(Parse(s))
         /\ \A x : x \in Updates(s) <=> (x = [type |-> "PosSysMode", value |-> 1] \/ (c /\ x = p))
    BY <2>4, <2>5, <2>7, <2>8, <2>9 DEF Updates
  <2>11. /\ \A t \in Updated(s) : t = "PosSysMode" \/ (c /\ t = "Position")
         /\ c => "Position" \in Updated(s)
    <3>1. \A u \in Updates(s) : u.type = "PosSysMode" \/ (c /\ u.type = "Position")
      BY <2>9, <2>10
    <3>2. c => "Position" \in Updated(s)
      BY <2>9, <2>10, IsUpdated
    <3> QED
      BY <3>1, <3>2 DEF Updated
  <2>12. c => p \in Means(s)
    BY <1>1, <2>3, <2>4
  <2>13. AtMeridian(p) => Rejected(Said(s, p))
    BY DEF AtMeridian, Rejected, Said
  <2>14. \A m1 \in Means(s) : m1 = p /\ (c \/ AtMeridian(p))
    BY <1>1, <2>3, <2>4
  <2>15. Understood(s)
    BY <2>2, <2>9, <2>10, <2>11, <2>12, <2>13, <2>14 DEF Understood, Marks
  <2>16. Marked(s)
    BY <2>2, <2>9, <2>10, <2>11, <2>14 DEF Marked
  <2> QED
    BY <2>15, <2>16
<1> QED
  BY <1>1, <1>2, <1>3

LEMMA ReadGGA == ASSUME NEW s \in SentencesOf("GGA") PROVE Understood(s) /\ Marked(s)
<1>1. /\ s.type = "GGA" /\ s.lat \in Nat /\ s.lon \in Nat /\ s.quality \in {0, 1}
      /\ s.quality = 1 => s.lat <= 90 /\ s.lon <= 180
      /\ s.side \in {"N", "S"} /\ s.half \in {"E", "W"}
  BY TalkerAssumption DEF SentencesOf
<1>2. PICK p : p = [type |-> "Position",
                    value |-> [lat |-> Deformat(s.lat, s.side), lon |-> Deformat(s.lon, s.half)]]
  OBVIOUS
<1>3. Means(s) = Fix(s) /\ Doubts(s) = IF s.quality = 0 THEN {"Position"} ELSE {}
  BY <1>1 DEF Means, Doubts
<1>4. /\ \A x : x \in Means(s) <=> s.lat <= 90 /\ s.lon <= 180 /\ x = p
      /\ PositionOf(s) = Update("Position", p.value, s.lat <= 90 /\ s.lon < 180)
      /\ ~(s.lon < 180) /\ s.lon <= 180 => AtMeridian(p)
  BY <1>1, <1>2, <1>3, PositionMeant
<1>5. PICK c \in BOOLEAN, m \in BOOLEAN : (c <=> s.lat <= 90 /\ s.lon < 180) /\ m
  OBVIOUS
<1> DEFINE q == Update("Position", p.value, c) \o Update("GPSQual", s.quality, m)
           mark == [type |-> "GPSQual", value |-> s.quality]
<1>6. Parse(s) = q
  BY <1>1, <1>4, <1>5 DEF Parse, GGA, Update
<1>7. "Position" # "GPSQual"
  OBVIOUS
<1>8. WellFormed(q)
  BY <1>7, TwoUpdates
<1>9. \A x : x \in ToSet(q) <=> \/ c /\ x = [type |-> "Position", value |-> p.value]
                                \/ m /\ x = mark
  BY <1>7, TwoUpdates
<1> HIDE DEF q
<1>10. /\ p = [type |-> "Position", value |-> p.value] /\ p.type = "Position"
       /\ p = [type |-> p.type, value |-> p.value]
  BY <1>2
<1>11. /\ WellFormed(Parse(s))
       /\ \A x : x \in Updates(s) <=> ((c /\ x = p) \/ x = mark)
  BY <1>5, <1>6, <1>8, <1>9, <1>10 DEF Updates
<1>12. /\ \A t \in Updated(s) : (c /\ t = "Position") \/ t = "GPSQual"
       /\ c => "Position" \in Updated(s)
  <2>1. \A u \in Updates(s) : (c /\ u.type = "Position") \/ u.type = "GPSQual"
    BY <1>10, <1>11
  <2>2. c => "Position" \in Updated(s)
    BY <1>10, <1>11, IsUpdated
  <2> QED
    BY <2>1, <2>2 DEF Updated
<1>13. c => p \in Means(s)
  BY <1>1, <1>4, <1>5
<1>14. AtMeridian(p) => Rejected(Said(s, p))
  BY DEF AtMeridian, Rejected, Said
<1>15. \A m1 \in Means(s) : m1 = p /\ (c \/ AtMeridian(p))
  BY <1>1, <1>4, <1>5
<1>16. Understood(s)
  BY <1>10, <1>11, <1>12, <1>13, <1>14, <1>15 DEF Understood, Marks
<1>17. s.quality = 1 => p \in Means(s)
  BY <1>1, <1>4
<1>18. s.quality = 0 => [type |-> "GPSQual", value |-> 0] \in Updates(s)
  BY <1>11
<1>19. Marked(s)
  BY <1>1, <1>3, <1>10, <1>12, <1>15, <1>17, <1>18 DEF Marked
<1> QED
  BY <1>16, <1>19

LEMMA ReadVTG == ASSUME NEW s \in SentencesOf("VTG") PROVE Understood(s) /\ Marked(s)
<1>1. /\ s.type = "VTG" /\ s.mode = 1
      /\ s.angle \in Angles \union {Empty} /\ s.speed \in Amounts \union {Empty}
  BY DEF SentencesOf
<1>2. \A x : x \in Means(s) <=>
          \/ Given(s.angle) /\ x = [type |-> "Course", value |-> s.angle]
          \/ Given(s.speed) /\ x = [type |-> "SpeedOG", value |-> s.speed]
  BY <1>1 DEF Means, Meaning, Given
<1>3. /\ WellFormed(Parse(s))
      /\ \A x : x \in Updates(s) <=>
                \/ Circle(s.angle) /\ x = [type |-> "Course", value |-> s.angle]
                \/ Moving(s.speed) /\ x = [type |-> "SpeedOG", value |-> s.speed]
                \/ x = [type |-> "PosSysMode", value |-> 1]
  <2>1. PICK c \in BOOLEAN, v \in BOOLEAN, m \in BOOLEAN :
            (c <=> Circle(s.angle)) /\ (v <=> Moving(s.speed)) /\ m
    OBVIOUS
  <2> DEFINE q == Update("Course", s.angle, c) \o Update("SpeedOG", s.speed, v)
                    \o Update("PosSysMode", 1, m)
  <2>2. Parse(s) = q
    BY <1>1, <2>1 DEF Parse, VTG, Update, Given, Empty
  <2>3. "Course" # "SpeedOG" /\ "Course" # "PosSysMode" /\ "SpeedOG" # "PosSysMode"
    OBVIOUS
  <2>4. WellFormed(q)
    BY <2>3, ThreeUpdates
  <2>5. \A x : x \in ToSet(q) <=> \/ c /\ x = [type |-> "Course", value |-> s.angle]
                                  \/ v /\ x = [type |-> "SpeedOG", value |-> s.speed]
                                  \/ m /\ x = [type |-> "PosSysMode", value |-> 1]
    BY <2>3, ThreeUpdates
  <2> QED
    BY <2>1, <2>2, <2>4, <2>5 DEF Updates
<1>4. /\ Given(s.angle) <=> Circle(s.angle)
      /\ Moving(s.speed) => Given(s.speed)
      /\ Given(s.speed) /\ ~Moving(s.speed) => s.speed = 0 \/ s.speed >= 100
  BY <1>1, AngleTaken, AmountTaken
<1>5. Doubts(s) = {}
  BY <1>1 DEF Doubts
<1>6. \A u \in Updates(s) : \/ u.type = "PosSysMode"
                            \/ u.type \in {"Course", "SpeedOG"} /\ u \in Means(s)
  BY <1>2, <1>3, <1>4
<1>7. ASSUME NEW m \in Means(s)
      PROVE  m.type \notin Marks /\ ([type |-> m.type, value |-> m.value] \in Updates(s) \/ Rejected(Said(s, m)))
  <2>1. CASE Given(s.angle) /\ m = [type |-> "Course", value |-> s.angle]
    BY <1>3, <1>4, <2>1 DEF Marks
  <2>2. CASE Given(s.speed) /\ m = [type |-> "SpeedOG", value |-> s.speed]
    <3>1. CASE Moving(s.speed)
      BY <1>3, <2>2, <3>1 DEF Marks
    <3>2. CASE ~Moving(s.speed)
      BY <1>4, <2>2, <3>2 DEF Marks, Rejected, Said
    <3> QED
      BY <3>1, <3>2
  <2> QED
    BY <1>2, <2>1, <2>2
<1>8. \A t \in Updated(s) : \/ t = "PosSysMode"
                            \/ t \in {"Course", "SpeedOG"} /\ \E m \in Means(s) : m.type = t
  BY <1>6 DEF Updated
<1>9. WellFormed(Parse(s)) /\ \A m \in Means(s) : m.type # "Position"
  BY <1>2, <1>3
<1> QED
  BY <1>5, <1>7, <1>8, <1>9 DEF Understood, Marked, Marks

LEMMA ReadVHW == ASSUME NEW s \in SentencesOf("VHW") PROVE Understood(s) /\ Marked(s)
<1>1. s.type = "VHW" /\ s.angle \in Angles \union {Empty} /\ s.speed \in Amounts \union {Empty}
  BY DEF SentencesOf
<1>2. \A x : x \in Means(s) <=>
          \/ Given(s.angle) /\ x = [type |-> "TrueHeading", value |-> s.angle]
          \/ Given(s.speed) /\ x = [type |-> "SpeedTW", value |-> s.speed]
  BY <1>1 DEF Means, Meaning, Given
<1>3. /\ WellFormed(Parse(s))
      /\ \A x : x \in Updates(s) <=>
                \/ Circle(s.angle) /\ x = [type |-> "TrueHeading", value |-> s.angle]
                \/ Moving(s.speed) /\ x = [type |-> "SpeedTW", value |-> s.speed]
  <2>1. PICK c \in BOOLEAN, v \in BOOLEAN : (c <=> Circle(s.angle)) /\ (v <=> Moving(s.speed))
    OBVIOUS
  <2> DEFINE q == Update("TrueHeading", s.angle, c) \o Update("SpeedTW", s.speed, v)
  <2>2. Parse(s) = q
    BY <1>1, <2>1 DEF Parse, VHW, Update
  <2>3. "TrueHeading" # "SpeedTW"
    OBVIOUS
  <2>4. WellFormed(q)
    BY <2>3, TwoUpdates
  <2>5. \A x : x \in ToSet(q) <=> \/ c /\ x = [type |-> "TrueHeading", value |-> s.angle]
                                  \/ v /\ x = [type |-> "SpeedTW", value |-> s.speed]
    BY <2>3, TwoUpdates
  <2> QED
    BY <2>1, <2>2, <2>4, <2>5 DEF Updates
<1>4. /\ Given(s.angle) <=> Circle(s.angle)
      /\ Moving(s.speed) => Given(s.speed)
      /\ Given(s.speed) /\ ~Moving(s.speed) => s.speed = 0 \/ s.speed >= 100
  BY <1>1, AngleTaken, AmountTaken
<1>5. Doubts(s) = {}
  BY <1>1 DEF Doubts
<1>6. \A u \in Updates(s) : u.type \in {"TrueHeading", "SpeedTW"} /\ u \in Means(s)
  BY <1>2, <1>3, <1>4
<1>7. ASSUME NEW m \in Means(s)
      PROVE  m.type \notin Marks /\ ([type |-> m.type, value |-> m.value] \in Updates(s) \/ Rejected(Said(s, m)))
  <2>1. CASE Given(s.angle) /\ m = [type |-> "TrueHeading", value |-> s.angle]
    BY <1>3, <1>4, <2>1 DEF Marks
  <2>2. CASE Given(s.speed) /\ m = [type |-> "SpeedTW", value |-> s.speed]
    <3>1. CASE Moving(s.speed)
      BY <1>3, <2>2, <3>1 DEF Marks
    <3>2. CASE ~Moving(s.speed)
      BY <1>4, <2>2, <3>2 DEF Marks, Rejected, Said
    <3> QED
      BY <3>1, <3>2
  <2> QED
    BY <1>2, <2>1, <2>2
<1>8. \A t \in Updated(s) : t \in {"TrueHeading", "SpeedTW"} /\ \E m \in Means(s) : m.type = t
  BY <1>6 DEF Updated
<1>9. WellFormed(Parse(s)) /\ \A m \in Means(s) : m.type # "Position"
  BY <1>2, <1>3
<1> QED
  BY <1>5, <1>7, <1>8, <1>9 DEF Understood, Marked, Marks

LEMMA ReadHDT == ASSUME NEW s \in SentencesOf("HDT") PROVE Understood(s) /\ Marked(s)
<1>1. s.type = "HDT" /\ s.angle \in Angles \union {Empty}
  BY DEF SentencesOf
<1> DEFINE heading == [type |-> "TrueHeading", value |-> s.angle]
<1>2. \A x : x \in Means(s) <=> Given(s.angle) /\ x = heading
  BY <1>1 DEF Means, Meaning, Given
<1>3. /\ WellFormed(Parse(s))
      /\ \A x : x \in Updates(s) <=> HalfCircle(s.angle) /\ x = heading
  <2>1. PICK c \in BOOLEAN : c <=> HalfCircle(s.angle)
    OBVIOUS
  <2>2. Parse(s) = Update("TrueHeading", s.angle, c)
    BY <1>1, <2>1 DEF Parse, HDT, Update
  <2> QED
    BY <2>1, <2>2, UpdateMade DEF Updates
<1>4. /\ HalfCircle(s.angle) => Given(s.angle)
      /\ Given(s.angle) /\ ~HalfCircle(s.angle) => s.angle >= 180
  BY <1>1, AngleTaken
<1>5. Doubts(s) = {}
  BY <1>1 DEF Doubts
<1>6. \A u \in Updates(s) : u.type = "TrueHeading" /\ u \in Means(s)
  BY <1>2, <1>3, <1>4
<1>7. ASSUME NEW m \in Means(s)
      PROVE  m.type \notin Marks /\ ([type |-> m.type, value |-> m.value] \in Updates(s) \/ Rejected(Said(s, m)))
  <2>1. Given(s.angle) /\ m = heading
    BY <1>2
  <2>2. CASE HalfCircle(s.angle)
    BY <1>3, <2>1, <2>2 DEF Marks
  <2>3. CASE ~HalfCircle(s.angle)
    <3>1. Source(s) = "HDT"
      BY <1>1 DEF Source
    <3> QED
      BY <1>4, <2>1, <2>3, <3>1 DEF Marks, Rejected, Said
  <2> QED
    BY <2>2, <2>3
<1>8. \A t \in Updated(s) : t = "TrueHeading" /\ \E m \in Means(s) : m.type = t
  BY <1>6 DEF Updated
<1>9. WellFormed(Parse(s)) /\ \A m \in Means(s) : m.type # "Position"
  BY <1>2, <1>3
<1> QED
  BY <1>5, <1>7, <1>8, <1>9 DEF Understood, Marked, Marks

LEMMA ReadTHS == ASSUME NEW s \in SentencesOf("THS") PROVE Understood(s) /\ Marked(s)
<1>1. s.type = "THS" /\ s.angle \in Angles \union {Empty} /\ s.mode \in {0, 1}
  BY DEF SentencesOf
<1> DEFINE heading == [type |-> "TrueHeading", value |-> s.angle]
           mode == [type |-> "GyroMode", value |-> s.mode]
<1>2. \A x : x \in Means(s) <=> Given(s.angle) /\ x = heading
  BY <1>1 DEF Means, Meaning, Given
<1>3. /\ WellFormed(Parse(s))
      /\ \A x : x \in Updates(s) <=> HalfCircle(s.angle) /\ (x = heading \/ x = mode)
  <2>1. PICK c \in BOOLEAN, v \in BOOLEAN : (c <=> HalfCircle(s.angle)) /\ (v <=> HalfCircle(s.angle))
    OBVIOUS
  <2> DEFINE q == Update("GyroMode", s.mode, c) \o Update("TrueHeading", s.angle, v)
  <2>2. Parse(s) = q
    BY <1>1, <2>1 DEF Parse, THS, Update
  <2>3. "GyroMode" # "TrueHeading"
    OBVIOUS
  <2>4. WellFormed(q)
    BY <2>3, TwoUpdates
  <2>5. \A x : x \in ToSet(q) <=> \/ c /\ x = [type |-> "GyroMode", value |-> s.mode]
                                  \/ v /\ x = [type |-> "TrueHeading", value |-> s.angle]
    BY <2>3, TwoUpdates
  <2> QED
    BY <2>1, <2>2, <2>4, <2>5 DEF Updates
<1>4. /\ HalfCircle(s.angle) => Given(s.angle)
      /\ Given(s.angle) /\ ~HalfCircle(s.angle) => s.angle >= 180
  BY <1>1, AngleTaken
<1>5. Doubts(s) = IF s.mode = 0 THEN {"TrueHeading"} ELSE {}
  BY <1>1 DEF Doubts
<1>6. \A u \in Updates(s) : u.type = "GyroMode" \/ (u.type = "TrueHeading" /\ u \in Means(s))
  BY <1>2, <1>3, <1>4
<1>7. ASSUME NEW m \in Means(s)
      PROVE  m.type \notin Marks /\ ([type |-> m.type, value |-> m.value] \in Updates(s) \/ Rejected(Said(s, m)))
  <2>1. Given(s.angle) /\ m = heading
    BY <1>2
  <2>2. CASE HalfCircle(s.angle)
    BY <1>3, <2>1, <2>2 DEF Marks
  <2>3. CASE ~HalfCircle(s.angle)
    <3>1. Source(s) = "THS"
      BY <1>1 DEF Source
    <3> QED
      BY <1>4, <2>1, <2>3, <3>1 DEF Marks, Rejected, Said
  <2> QED
    BY <2>2, <2>3
<1>8. \A t \in Updated(s) : t = "GyroMode" \/ (t = "TrueHeading" /\ \E m \in Means(s) : m.type = t)
  BY <1>6 DEF Updated
<1>9. ASSUME NEW t \in Updated(s)
      PROVE  /\ "GyroMode" \in Updated(s) /\ "TrueHeading" \in Updated(s)
             /\ s.mode = 0 => [type |-> "GyroMode", value |-> 0] \in Updates(s)
  <2>1. heading \in Updates(s) /\ mode \in Updates(s)
    BY <1>3 DEF Updated
  <2> QED
    BY <2>1, IsUpdated
<1>10. WellFormed(Parse(s)) /\ \A m \in Means(s) : m.type # "Position"
  BY <1>2, <1>3
<1> QED
  BY <1>1, <1>5, <1>7, <1>8, <1>9, <1>10 DEF Understood, Marked, Marks

\* The units of the talker and those of the code.
LEMMA WindMeant ==
    ASSUME NEW v \in Nat
    PROVE  /\ \A unit \in {"K", "N", "M"} : Wind(v, unit) = WindSpeed(v, unit)
           /\ Wind(v, "M") = v * 1000 /\ Wind(v, "N") = Knots(v)
<1>1. Wind(v, "K") = WindSpeed(v, "K")
  BY DEF Wind, WindSpeed, Hourly
<1>2. Wind(v, "N") = Knots(v) /\ WindSpeed(v, "N") = Knots(v)
  BY DEF Wind, WindSpeed, Hourly, Knots
<1>3. Wind(v, "M") = v * 1000 /\ WindSpeed(v, "M") = v * 1000
  BY DEF Wind, WindSpeed, Hourly
<1> QED
  BY <1>1, <1>2, <1>3

LEMMA ReadMWV == ASSUME NEW s \in SentencesOf("MWV") PROVE Understood(s) /\ Marked(s)
<1>1. /\ s.type = "MWV" /\ s.unit \in {"K", "N", "M"}
      /\ s.angle \in Angles \union {Empty} /\ s.speed \in Winds \union {Empty}
  BY DEF SentencesOf
<1> DEFINE taken == Circle(s.angle) /\ Given(s.speed)
<1>2. PICK dirType, speedType : /\ dirType = IF s.ref = "T" THEN "WindDirT" ELSE "WindDirR"
                                /\ speedType = IF s.ref = "T" THEN "WindSpeedT" ELSE "WindSpeedR"
  OBVIOUS
<1>3. PICK meant, speed : meant = Wind(s.speed, s.unit) /\ speed = WindSpeed(s.speed, s.unit)
  OBVIOUS
<1>4. dirType # speedType
  BY <1>2
<1>5. \A x : x \in Means(s) <=>
          \/ Given(s.angle) /\ x = [type |-> dirType, value |-> s.angle]
          \/ Given(s.speed) /\ x = [type |-> speedType, value |-> meant]
  <2>1. Means(s) = Meaning(dirType, s.angle, s.angle # Empty)
                     \union Meaning(speedType, meant, s.speed # Empty)
    BY <1>1, <1>2, <1>3 DEF Means
  <2> QED
    BY <2>1 DEF Meaning, Given
<1>6. /\ WellFormed(Parse(s))
      /\ \A x : x \in Updates(s) <=>
                /\ taken
                /\ \/ x = [type |-> dirType, value |-> s.angle]
                   \/ x = [type |-> speedType, value |-> speed]
  <2>1. PICK c \in BOOLEAN : c <=> taken
    OBVIOUS
  <2> DEFINE q == Update(dirType, s.angle, c) \o Update(speedType, speed, c)
  <2>2. Parse(s) = q
    <3>1. Parse(s) = MWV(s)
      BY <1>1 DEF Parse
    <3> QED
      BY <1>2, <1>3, <2>1, <3>1 DEF MWV, Update
  <2>3. WellFormed(q)
    BY <1>4, TwoUpdates
  <2>4. \A x : x \in ToSet(q) <=> \/ c /\ x = [type |-> dirType, value |-> s.angle]
                                  \/ c /\ x = [type |-> speedType, value |-> speed]
    BY <1>4, TwoUpdates
  <2> QED
    BY <2>1, <2>2, <2>3, <2>4 DEF Updates
<1>7. Given(s.angle) <=> Circle(s.angle)
  BY <1>1, AngleTaken
<1>8. Given(s.speed) => meant = speed
  <2>1. Given(s.speed) => s.speed \in Nat
    BY <1>1, TalkerAssumption DEF Given
  <2> QED
    BY <1>1, <1>3, <2>1, WindMeant
<1>9. ~taken => Rejected(Said(s, [type |-> dirType, value |-> s.angle]))
                  /\ Rejected(Said(s, [type |-> speedType, value |-> meant]))
  <2>1. ~taken => Source(s) = "MWV in part"
    BY <1>1, <1>7 DEF Source, Given
  <2> QED
    BY <2>1 DEF Rejected, Said
<1>10. dirType \in {"WindDirT", "WindDirR"} /\ speedType \in {"WindSpeedT", "WindSpeedR"}
  BY <1>2
<1>11. Doubts(s) = {}
  BY <1>1 DEF Doubts
<1>12. ASSUME NEW m \in Means(s)
       PROVE  /\ m.type \in {"WindDirT", "WindDirR", "WindSpeedT", "WindSpeedR"}
              /\ [type |-> m.type, value |-> m.value] \in Updates(s) \/ Rejected(Said(s, m))
  <2>1. CASE Given(s.angle) /\ m = [type |-> dirType, value |-> s.angle]
    BY <1>6, <1>9, <1>10, <2>1
  <2>2. CASE Given(s.speed) /\ m = [type |-> speedType, value |-> meant]
    BY <1>6, <1>8, <1>9, <1>10, <2>2
  <2> QED
    BY <1>5, <2>1, <2>2
<1>13. \A u \in Updates(s) : u \in Means(s) /\ u.type \in {"WindDirT", "WindDirR", "WindSpeedT", "WindSpeedR"}
  BY <1>5, <1>6, <1>7, <1>8, <1>10
<1>14. \A t \in Updated(s) : /\ t \in {"WindDirT", "WindDirR", "WindSpeedT", "WindSpeedR"}
                             /\ \E m \in Means(s) : m.type = t
  BY <1>13 DEF Updated
<1>15. WellFormed(Parse(s))
  BY <1>6
<1> HIDE DEF taken
<1> QED
  BY <1>11, <1>12, <1>14, <1>15 DEF Understood, Marked, Marks

LEMMA ReadMWD == ASSUME NEW s \in SentencesOf("MWD") PROVE Understood(s) /\ Marked(s)
<1>1. /\ s.type = "MWD" /\ s.unit \in {"N", "K", "M"}
      /\ s.angle \in Angles \union {Empty} /\ s.speed \in Winds \union {Empty}
  BY DEF SentencesOf
<1> DEFINE speed == IF s.unit = "M" THEN s.speed * 1000 ELSE Knots(s.speed)
           direction == [type |-> "WindDirT", value |-> s.angle]
           wind == [type |-> "WindSpeedT", value |-> speed]
<1>2. \A x : x \in Means(s) <=>
          \/ Given(s.angle) /\ x = direction
          \/ Given(s.speed) /\ x = wind
  <2> DEFINE meant == Wind(s.speed, IF s.unit = "M" THEN "M" ELSE "N")
  <2>1. Means(s) = Meaning("WindDirT", s.angle, s.angle # Empty)
                     \union Meaning("WindSpeedT", meant, s.speed # Empty)
    BY <1>1 DEF Means
  <2>2. \A x : x \in Meaning("WindDirT", s.angle, s.angle # Empty)
                  <=> Given(s.angle) /\ x = direction
    BY DEF Meaning, Given
  <2>3. Given(s.speed) => meant = speed
    <3>1. Given(s.speed) => s.speed \in Nat
      BY <1>1, TalkerAssumption DEF Given
    <3> QED
      BY <3>1, WindMeant
  <2> HIDE DEF meant, speed
  <2>4. \A x : x \in Meaning("WindSpeedT", meant, s.speed # Empty) <=> Given(s.speed) /\ x = wind
    BY <2>3 DEF Meaning, Given
  <2> HIDE DEF direction, wind
  <2> QED
    BY <2>1, <2>2, <2>4
<1>3. /\ WellFormed(Parse(s))
      /\ \A x : x \in Updates(s) <=>
                \/ Circle(s.angle) /\ x = [type |-> "WindDirR", value |-> s.angle]
                \/ Given(s.speed) /\ s.unit # "N" /\ x = wind
  <2> HIDE DEF speed
  <2>1. PICK c \in BOOLEAN, v \in BOOLEAN : (c <=> Circle(s.angle)) /\ (v <=> Given(s.speed) /\ s.unit # "N")
    OBVIOUS
  <2> DEFINE q == Update("WindDirR", s.angle, c) \o Update("WindSpeedT", speed, v)
  <2>2. Parse(s) = q
    BY <1>1, <2>1 DEF Parse, MWD, Update, speed
  <2>3. "WindDirR" # "WindSpeedT"
    OBVIOUS
  <2>4. WellFormed(q)
    BY <2>3, TwoUpdates
  <2>5. \A x : x \in ToSet(q) <=> \/ c /\ x = [type |-> "WindDirR", value |-> s.angle]
                                  \/ v /\ x = [type |-> "WindSpeedT", value |-> speed]
    BY <2>3, TwoUpdates
  <2> QED
    BY <2>1, <2>2, <2>4, <2>5 DEF Updates
<1> HIDE DEF speed
<1>4. Doubts(s) = {"WindDirR"}
  BY <1>1 DEF Doubts
<1>5. ASSUME NEW m \in Means(s)
      PROVE  m.type \notin Marks /\ ([type |-> m.type, value |-> m.value] \in Updates(s) \/ Rejected(Said(s, m)))
  <2>1. Source(s) \in {"MWD", "MWD in knots"} /\ (s.unit = "N" => Source(s) = "MWD in knots")
    BY <1>1 DEF Source
  <2>2. CASE m = direction
    BY <2>1, <2>2 DEF Marks, Rejected, Said
  <2>3. CASE Given(s.speed) /\ m = wind
    BY <1>3, <2>1, <2>3 DEF Marks, Rejected, Said
  <2> QED
    BY <1>2, <2>2, <2>3
<1>6. \A u \in Updates(s) : u.type = "WindDirR" \/ (u.type = "WindSpeedT" /\ u \in Means(s))
  BY <1>2, <1>3
<1>7. \A t \in Updated(s) : t = "WindDirR" \/ (t = "WindSpeedT" /\ \E m \in Means(s) : m.type = t)
  BY <1>6 DEF Updated
<1>8. WellFormed(Parse(s)) /\ \A m \in Means(s) : m.type # "Position"
  BY <1>2, <1>3
<1> QED
  BY <1>4, <1>5, <1>7, <1>8 DEF Understood, Marked, Marks

LEMMA ReadDBc == ASSUME NEW s \in SentencesOf("DBc") PROVE Understood(s) /\ Marked(s)
<1>1. s.type = "DBc" /\ s.of \in Depths /\ s.depth \in Nat
  BY TalkerAssumption DEF SentencesOf
<1> DEFINE depth == [type |-> s.of, value |-> Depth(s.depth, UnitOf(s))]
<1>2. \A x : x \in Means(s) <=> s.units # {} /\ x = depth
  <2> DEFINE meant == (s.depth * Length[UnitOf(s)]) \div 10
  <2>1. UnitOf(s) \in {"f", "M", "F"}
    BY DEF UnitOf
  <2>2. meant = Depth(s.depth, UnitOf(s))
    BY <1>1, <2>1 DEF Length, Depth
  <2>3. Means(s) = Meaning(s.of, meant, s.units # {})
    BY <1>1 DEF Means
  <2> HIDE DEF meant
  <2> QED
    BY <2>2, <2>3 DEF Meaning
<1>3. /\ WellFormed(Parse(s))
      /\ \A x : x \in Updates(s) <=> s.units # {} /\ UnitOf(s) # "F" /\ s.depth > 0 /\ x = depth
  <2>1. PICK c \in BOOLEAN : c <=> s.units # {} /\ UnitOf(s) # "F" /\ s.depth > 0
    OBVIOUS
  <2> DEFINE d == Depth(s.depth, UnitOf(s))
  <2>2. Parse(s) = Update(s.of, d, c)
    BY <1>1, <2>1 DEF Parse, DBc, Update
  <2> HIDE DEF d
  <2>3. WellFormed(Update(s.of, d, c)) /\ \A x : x \in ToSet(Update(s.of, d, c)) <=> c /\ x = [type |-> s.of, value |-> d]
    BY <2>1, UpdateMade
  <2> QED
    BY <2>1, <2>2, <2>3 DEF Updates, d
<1>4. Doubts(s) = {}
  BY <1>1 DEF Doubts
<1>5. s.depth = 0 => Depth(s.depth, UnitOf(s)) = 0
  BY DEF Depth, UnitOf
<1>6. ASSUME NEW m \in Means(s)
      PROVE  m.type \in Depths /\ ([type |-> m.type, value |-> m.value] \in Updates(s) \/ Rejected(Said(s, m)))
  <2>1. s.units # {} /\ m = depth
    BY <1>2
  <2>2. CASE UnitOf(s) = "F"
    <3>1. Source(s) = "DBc in fathoms"
      BY <1>1, <2>2 DEF Source
    <3> QED
      BY <1>1, <2>1, <3>1 DEF Rejected, Said
  <2>3. CASE s.depth = 0
    BY <1>1, <1>5, <2>1, <2>3 DEF Rejected, Said
  <2>4. CASE UnitOf(s) # "F" /\ s.depth > 0
    BY <1>1, <1>3, <2>1, <2>4
  <2> QED
    BY <1>1, <2>2, <2>3, <2>4
<1>7. \A u \in Updates(s) : u.type \in Depths /\ u \in Means(s)
  BY <1>1, <1>2, <1>3
<1>8. \A t \in Updated(s) : t \in Depths /\ \E m \in Means(s) : m.type = t
  BY <1>7 DEF Updated
<1> QED
  BY <1>3, <1>4, <1>6, <1>8 DEF Understood, Marked, Marks, Depths

LEMMA ReadAny ==
    ASSUME NEW type \in NmeaTypes, NEW s \in SentencesOf(type)
    PROVE  Understood(s) /\ Marked(s)
<1>1. CASE type \in {"RMC", "VBW"}
  <2>1. s.type = type
    BY <1>1 DEF SentencesOf
  <2>2. Parse(s) = << >> /\ Means(s) = {}
    BY <1>1, <2>1 DEF Parse, Means
  <2>3. Updates(s) = {} /\ WellFormed(Parse(s))
    BY <2>2 DEF Updates, ToSet, WellFormed
  <2> QED
    BY <2>2, <2>3 DEF Understood, Marked, Updated
<1> QED
  BY <1>1, ReadGLL, ReadGGA, ReadVTG, ReadVHW, ReadHDT, ReadTHS, ReadMWV, ReadMWD, ReadDBc
     DEF NmeaTypes

\* The pending updates have a type each; nobody means a mark, so that no mark can get in the
\* way of a value; and what is meant is rejected, about to be stored, or stored and not in
\* the way of an update to come.
Kept(meant) ==
    /\ \/ [type |-> meant.type, value |-> meant.value] \in held
       \/ meant.type = "WindDirR" /\ "WindDirR" \in dubious
    /\ meant.type \in ComingTypes => meant.type = "WindDirR" /\ "WindDirR" \in doubts

MeantInv ==
    /\ WellFormed(todo)
    /\ \A meant \in spoken :
          /\ meant.type \notin Marks
          /\ Rejected(meant) \/ [type |-> meant.type, value |-> meant.value] \in Coming \/ Kept(meant)

LEMMA InReplaced ==
    ASSUME NEW old, NEW new, NEW x
    PROVE  x \in Replaced(old, new) <=> x \in new \/ (x \in old /\ \A n \in new : n.type # x.type)
  BY DEF Replaced

\* The updates still to come once the first is made.
LEMMA NextUpdate ==
    ASSUME WellFormed(todo), UpdateData
    PROVE  /\ WellFormed(todo)'
           /\ Coming = {Head(todo)} \union Coming'
           /\ \A u \in Coming' : u.type # Head(todo).type
<1>1. todo \in Seq(Coming) /\ todo # << >> /\ todo' = Tail(todo)
  BY DEF UpdateData, WellFormed, Coming
<1>2. /\ Len(todo) \in Nat \ {0} /\ DOMAIN todo = 1..Len(todo) /\ DOMAIN todo' = 1..(Len(todo) - 1)
      /\ \A i \in DOMAIN todo' : todo'[i] = todo[i + 1] /\ i + 1 \in DOMAIN todo
      /\ Head(todo) = todo[1] /\ 1 \in DOMAIN todo
      /\ \A i \in DOMAIN todo : i = 1 \/ (i - 1 \in DOMAIN todo' /\ todo'[i - 1] = todo[i])
      /\ Len(todo') = Len(todo) - 1 /\ Len(todo') \in Nat
  BY <1>1
<1>3. ASSUME NEW x \in Coming PROVE x = Head(todo) \/ x \in Coming'
  <2>1. PICK i \in DOMAIN todo : x = todo[i]
    BY DEF Coming, ToSet
  <2>2. CASE i = 1
    BY <1>2, <2>1, <2>2
  <2>3. CASE i - 1 \in DOMAIN todo' /\ todo'[i - 1] = todo[i]
    BY <2>1, <2>3 DEF Coming, ToSet
  <2> QED
    BY <1>2, <2>2, <2>3
<1>4. ASSUME NEW x \in Coming' PROVE x \in Coming /\ x.type # Head(todo).type
  <2>1. PICK i \in DOMAIN todo' : x = todo'[i]
    BY DEF Coming, ToSet
  <2>2. x = todo[i + 1] /\ i + 1 \in DOMAIN todo /\ i + 1 # 1
    BY <1>2, <2>1
  <2>3. x \in Coming
    BY <2>2 DEF Coming, ToSet
  <2>4. x.type # Head(todo).type
    BY <1>2, <2>2 DEF WellFormed
  <2> QED
    BY <2>3, <2>4
<1>5. Head(todo) \in Coming
  BY <1>2 DEF Coming, ToSet
<1>6. todo' \in Seq(Coming')
  <2>1. todo' \in [1..Len(todo') -> Coming']
    <3>1. \A i \in DOMAIN todo' : todo'[i] \in Coming'
      BY DEF Coming, ToSet
    <3>2. todo' \in Seq(Coming) /\ DOMAIN todo' = 1..Len(todo')
      BY <1>1, <1>2
    <3> QED
      BY <3>1, <3>2
  <2> QED
    BY <1>2, <2>1
<1>7. \A i, j \in DOMAIN todo' : todo'[i].type = todo'[j].type => i = j
  BY <1>2 DEF WellFormed
<1> QED
  BY <1>3, <1>4, <1>5, <1>6, <1>7 DEF WellFormed, Coming

\* A sentence, and an update of it, keep what is meant.
LEMMA MeantHeld ==
    ASSUME MeantInv, NEW s, Understood(s), Sentence(s)
    PROVE  MeantInv'
<1> DEFINE new == {Said(s, m) : m \in Means(s)}
<1>1. /\ todo = << >> /\ todo' = Parse(s) /\ spoken' = Replaced(spoken, new)
      /\ held' = held /\ dubious' = dubious /\ doubts' = Doubts(s)
  BY DEF Sentence, Said
<1>2. Coming = {} /\ Coming' = Updates(s) /\ ComingTypes' = Updated(s)
  BY <1>1 DEF Coming, ComingTypes, Updates, Updated, ToSet
<1>3. ASSUME NEW meant \in spoken'
      PROVE  /\ meant.type \notin Marks
             /\ \/ Rejected(meant)
                \/ [type |-> meant.type, value |-> meant.value] \in Coming'
                \/ Kept(meant)'
  <2>1. meant \in new \/ (meant \in spoken /\ \A n \in new : n.type # meant.type)
    BY <1>1, InReplaced
  <2>2. CASE meant \in new
    <3>1. PICK m \in Means(s) : meant = Said(s, m)
      BY <2>2
    <3>2. meant.type = m.type /\ meant.value = m.value
      BY <3>1 DEF Said
    <3>3. m.type \notin Marks /\ ([type |-> m.type, value |-> m.value] \in Updates(s) \/ Rejected(Said(s, m)))
      BY DEF Understood
    <3> QED
      BY <1>2, <3>1, <3>2, <3>3
  <2>3. CASE meant \in spoken /\ \A n \in new : n.type # meant.type
    <3>1. meant.type \notin Marks /\ (Rejected(meant) \/ Kept(meant))
      BY <1>2, <2>3 DEF MeantInv
    <3>2. \A m \in Means(s) : m.type # meant.type
      <4>1. \A m \in Means(s) : Said(s, m) \in new /\ Said(s, m).type = m.type
        BY DEF Said
      <4> QED
        BY <2>3, <4>1
    <3>3. meant.type \in Updated(s) => meant.type = "WindDirR" /\ "WindDirR" \in Doubts(s)
      BY <3>1, <3>2 DEF Understood
    <3>4. Kept(meant) => Kept(meant)'
      BY <1>1, <1>2, <3>3 DEF Kept
    <3> QED
      BY <3>1, <3>4
  <2> QED
    BY <2>1, <2>2, <2>3
<1>4. WellFormed(todo)'
  BY <1>1 DEF Understood
<1> QED
  BY <1>3, <1>4 DEF MeantInv

LEMMA MeantStored ==
    ASSUME MeantInv, UpdateData
    PROVE  MeantInv'
<1> DEFINE h == Head(todo)
<1>1. /\ held' = Replaced(held, {h}) /\ spoken' = spoken /\ doubts' = doubts
      /\ dubious' = (dubious \ {h.type}) \union (doubts \intersect {h.type})
  BY DEF UpdateData
<1>2. WellFormed(todo)' /\ Coming = {h} \union Coming' /\ \A u \in Coming' : u.type # h.type
  BY NextUpdate DEF MeantInv
<1> HIDE DEF h
<1>3. h.type \in ComingTypes /\ ComingTypes' \subseteq ComingTypes /\ h.type \notin ComingTypes'
  BY <1>2 DEF ComingTypes
<1>4. ASSUME NEW meant \in spoken
      PROVE  /\ meant.type \notin Marks
             /\ Rejected(meant) \/ [type |-> meant.type, value |-> meant.value] \in Coming' \/ Kept(meant)'
  <2> DEFINE value == [type |-> meant.type, value |-> meant.value]
  <2>1. meant.type \notin Marks /\ (Rejected(meant) \/ value \in Coming \/ Kept(meant))
    BY DEF MeantInv
  <2>2. CASE value = h
    <3>1. value \in held' /\ meant.type = h.type
      BY <1>1, <2>2, InReplaced
    <3> QED
      BY <1>3, <2>1, <3>1 DEF Kept
  <2>3. CASE Kept(meant) /\ meant.type = h.type
    <3>1. meant.type = "WindDirR" /\ "WindDirR" \in dubious'
      BY <1>1, <1>3, <2>3 DEF Kept
    <3> QED
      BY <1>3, <2>1, <2>3, <3>1 DEF Kept
  <2>4. CASE Kept(meant) /\ meant.type # h.type
    <3>1. value \in held => value \in held'
      BY <1>1, <2>4, InReplaced
    <3>2. Kept(meant)'
      BY <1>1, <1>3, <2>4, <3>1 DEF Kept
    <3> QED
      BY <2>1, <3>2
  <2> QED
    BY <1>2, <2>1, <2>2, <2>3, <2>4
<1> QED
  BY <1>1, <1>2, <1>4 DEF MeantInv

Known == device \in Devices

\* A device sends sentences with a parser, or AIS messages.
LEMMA SensorSteps ==
    ASSUME Known, [AISMessage \/ NmeaSentence]_sensorVars
    PROVE  /\ Known'
           /\ \/ \E type \in NmeaTypes : \E s \in SentencesOf(type) : Sentence(s)
              \/ UpdateData
              \/ UNCHANGED nmeaVars
           /\ \/ \E type \in Types : \E msg \in Messages : Report(type, msg)
              \/ UNCHANGED targetVars
<1>1. CASE AISMessage
  BY <1>1 DEF AISMessage, Message, Known
<1>2. CASE NmeaSentence
  <2>1. device \ {"VDM"} \subseteq NmeaTypes
    BY DevicesAssumption DEF Known
  <2> QED
    BY <1>2, <2>1 DEF NmeaSentence, Known
<1>3. CASE UNCHANGED sensorVars
  BY <1>3 DEF sensorVars, Known
<1> QED
  BY <1>1, <1>2, <1>3

\* Whatever sentences a talker sends, in any order and with any values, the storage has what
\* it last meant by each type or is just to have it, or one of the named parsers has rejected
\* or spoilt it.
THEOREM MeantIsHeld == SensorSpec => []HeldIsSpoken
<1>1. SensorInit => Known /\ MeantInv
  BY DEF SensorInit, Known, NmeaInit, MeantInv, WellFormed, ToSet
<1>2. /\ Known /\ MeantInv
      /\ [AISMessage \/ NmeaSentence]_sensorVars
      => Known' /\ MeantInv'
  <2> SUFFICES ASSUME Known, MeantInv, [AISMessage \/ NmeaSentence]_sensorVars
               PROVE  Known' /\ MeantInv'
    OBVIOUS
  <2>1. CASE UNCHANGED nmeaVars
    BY <2>1, SensorSteps DEF nmeaVars, MeantInv, Kept, Coming, ComingTypes
  <2> QED
    BY <2>1, SensorSteps, ReadAny, MeantHeld, MeantStored
<1>3. MeantInv => HeldIsSpoken
  BY DEF MeantInv, HeldIsSpoken, Kept
<1> QED
  BY <1>1, <1>2, <1>3, PTL DEF SensorSpec

\* Once the updates to come are made, a doubtful position or heading has its mark, or the
\* last position that was meant lies at the meridian of 180 degrees.
InTheEnd(type, mark) ==
    (IF type \in ComingTypes THEN type \in doubts ELSE type \in dubious) =>
        \/ [type |-> mark, value |-> 0] \in Coming
        \/ [type |-> mark, value |-> 0] \in held /\ mark \notin ComingTypes
        \/ type = "Position" /\ \E meant \in spoken : AtMeridian(meant)

DoubtInv ==
    /\ WellFormed(todo)
    /\ InTheEnd("Position", "GPSQual")
    /\ InTheEnd("TrueHeading", "GyroMode")

LEMMA DoubtMarked ==
    ASSUME DoubtInv, NEW s, Understood(s), Marked(s), Sentence(s)
    PROVE  DoubtInv'
<1> DEFINE new == {Said(s, m) : m \in Means(s)}
<1>1. /\ todo = << >> /\ todo' = Parse(s) /\ spoken' = Replaced(spoken, new)
      /\ held' = held /\ dubious' = dubious /\ doubts' = Doubts(s)
  BY DEF Sentence, Said
<1>2. Coming = {} /\ ComingTypes = {} /\ Coming' = Updates(s) /\ ComingTypes' = Updated(s)
  BY <1>1 DEF Coming, ComingTypes, Updates, Updated, ToSet
<1>3. \A m \in Means(s) : Said(s, m) \in new /\ Said(s, m).type = m.type /\ Said(s, m).value = m.value
  BY DEF Said
<1>4. \A m \in Means(s) : AtMeridian(m) => \E meant \in spoken' : AtMeridian(meant)
  <2>1. \A n \in new : n \in spoken'
    BY <1>1, InReplaced
  <2> QED
    BY <1>3, <2>1 DEF AtMeridian
<1>5. ASSUME NEW meant \in spoken, AtMeridian(meant), "Position" \notin Updated(s)
      PROVE  \E other \in spoken' : AtMeridian(other)
  <2>1. CASE \E m \in Means(s) : m.type = "Position"
    BY <1>4, <1>5, <2>1 DEF Marked
  <2>2. CASE \A m \in Means(s) : m.type # "Position"
    <3>1. \A n \in new : n.type # meant.type
      <4>1. \A n \in new : \E m \in Means(s) : n = Said(s, m)
        OBVIOUS
      <4> QED
        BY <1>3, <1>5, <2>2, <4>1 DEF AtMeridian
    <3> QED
      BY <1>1, <1>5, <3>1, InReplaced
  <2> QED
    BY <2>1, <2>2
<1> HIDE DEF new
<1>6. InTheEnd("Position", "GPSQual")'
  <2>1. CASE "Position" \in Updated(s)
    BY <1>1, <1>2, <2>1 DEF InTheEnd, Marked
  <2>2. CASE "Position" \notin Updated(s)
    <3>1. "Position" \in dubious => \/ [type |-> "GPSQual", value |-> 0] \in held
                                    \/ \E meant \in spoken : AtMeridian(meant)
      BY <1>2 DEF DoubtInv, InTheEnd
    <3>2. "GPSQual" \in Updated(s) => \/ [type |-> "GPSQual", value |-> 0] \in Updates(s)
                                      \/ \E m \in Means(s) : AtMeridian(m)
      BY <2>2 DEF Marked
    <3> QED
      BY <1>1, <1>2, <1>4, <1>5, <2>2, <3>1, <3>2 DEF InTheEnd
  <2> QED
    BY <2>1, <2>2
<1>7. InTheEnd("TrueHeading", "GyroMode")'
  <2>1. CASE "TrueHeading" \in Updated(s)
    BY <1>1, <1>2, <2>1 DEF InTheEnd, Marked
  <2>2. CASE "TrueHeading" \notin Updated(s)
    <3>1. "TrueHeading" \in dubious => [type |-> "GyroMode", value |-> 0] \in held
      BY <1>2 DEF DoubtInv, InTheEnd
    <3>2. "GyroMode" \in Updated(s) => [type |-> "GyroMode", value |-> 0] \in Updates(s)
      BY <2>2 DEF Marked
    <3> QED
      BY <1>1, <1>2, <2>2, <3>1, <3>2 DEF InTheEnd
  <2> QED
    BY <2>1, <2>2
<1>8. WellFormed(todo)'
  BY <1>1 DEF Understood
<1> QED
  BY <1>6, <1>7, <1>8 DEF DoubtInv

LEMMA DoubtStored ==
    ASSUME DoubtInv, UpdateData
    PROVE  DoubtInv'
<1> DEFINE h == Head(todo)
<1>1. /\ held' = Replaced(held, {h}) /\ spoken' = spoken /\ doubts' = doubts
      /\ dubious' = (dubious \ {h.type}) \union (doubts \intersect {h.type})
  BY DEF UpdateData
<1>2. WellFormed(todo)' /\ Coming = {h} \union Coming' /\ \A u \in Coming' : u.type # h.type
  BY NextUpdate DEF DoubtInv
<1> HIDE DEF h
<1>3. ComingTypes = {h.type} \union ComingTypes' /\ h.type \notin ComingTypes'
  BY <1>2 DEF ComingTypes
<1>4. ASSUME NEW type, NEW mark, InTheEnd(type, mark)
      PROVE  InTheEnd(type, mark)'
  <2> DEFINE zero == [type |-> mark, value |-> 0]
  <2>1. (IF type \in ComingTypes' THEN type \in doubts' ELSE type \in dubious')
           => (IF type \in ComingTypes THEN type \in doubts ELSE type \in dubious)
    BY <1>1, <1>3
  <2>2. zero \in Coming => zero \in Coming' \/ (zero \in held' /\ mark \notin ComingTypes')
    <3>1. CASE zero = h
      BY <1>1, <1>3, <3>1, InReplaced
    <3>2. CASE zero # h
      BY <1>2, <3>2
    <3> QED
      BY <3>1, <3>2
  <2>3. zero \in held /\ mark \notin ComingTypes => zero \in held' /\ mark \notin ComingTypes'
    <3>1. zero.type = mark
      OBVIOUS
    <3> QED
      BY <1>1, <1>3, <3>1, InReplaced
  <2> QED
    BY <1>1, <1>4, <2>1, <2>2, <2>3 DEF InTheEnd
<1> QED
  BY <1>2, <1>4 DEF DoubtInv

\* Whatever comes in between, a held position without a fix has the quality beside it that
\* says so, and a held heading that is not valid the mode, but for what the sentence in hand
\* has still to store and for a fix at 180 degrees, which is rejected and its quality not.
THEOREM DoubtIsTold == SensorSpec => []DoubtTold
<1>1. SensorInit => Known /\ DoubtInv
  BY DEF SensorInit, Known, NmeaInit, DoubtInv, InTheEnd, Coming, ComingTypes, WellFormed, ToSet
<1>2. /\ Known /\ DoubtInv
      /\ [AISMessage \/ NmeaSentence]_sensorVars
      => Known' /\ DoubtInv'
  <2> SUFFICES ASSUME Known, DoubtInv, [AISMessage \/ NmeaSentence]_sensorVars
               PROVE  Known' /\ DoubtInv'
    OBVIOUS
  <2>1. CASE UNCHANGED nmeaVars
    BY <2>1, SensorSteps DEF nmeaVars, DoubtInv, InTheEnd, Coming, ComingTypes
  <2> QED
    BY <2>1, SensorSteps, ReadAny, DoubtMarked, DoubtStored
<1>3. DoubtInv => DoubtTold
  <2> SUFFICES ASSUME DoubtInv
               PROVE  DoubtTold
    OBVIOUS
  <2>1. \A u \in Coming : u.type \in ComingTypes
    BY DEF ComingTypes
  <2> QED
    BY <2>1 DEF DoubtInv, DoubtTold, InTheEnd
<1> QED
  BY <1>1, <1>2, <1>3, PTL DEF SensorSpec

-----------------------------------------------------------------------------
(* The bits of a field *)

\* Byte k of a number, from the lowest.
ByteOf(v, k) == (v \div 256^k) % 256

LEMMA Powers ==
    /\ 256^0 = 1 /\ 256^1 = 256 /\ 256^2 = 65536 /\ 256^3 = 16777216
    /\ 2^0 = 1 /\ 2^16 = 65536 /\ 2^26 = 67108864 /\ 2^27 = 134217728 /\ 2^28 = 268435456
  BY SMT

LEMMA BytesTogether ==
    ASSUME NEW v \in 0..2^28 - 1
    PROVE  ((ByteOf(v, 3) * 256 + ByteOf(v, 2)) * 256 + ByteOf(v, 1)) * 256 + ByteOf(v, 0) = v
<1> DEFINE p == v \div 256
           q == p \div 256
           r == q \div 256
<1>1. v \in Nat /\ v < 268435456
  BY Powers, SMT
<1>2. /\ p \in Nat /\ v = 256 * p + (v % 256) /\ v % 256 \in 0..255
      /\ q \in Nat /\ p = 256 * q + (p % 256) /\ p % 256 \in 0..255
      /\ r \in Nat /\ q = 256 * r + (q % 256) /\ q % 256 \in 0..255
  BY <1>1, SMT
<1>3. r < 256
  BY <1>1, <1>2, SMT
<1>4. v \div 65536 = q
  BY <1>1, <1>2, SMT
<1>5. v \div 16777216 = r
  BY <1>1, <1>2, SMT
<1>6. v \div 1 = v /\ r % 256 = r
  BY <1>1, <1>2, <1>3, SMT
<1>7. /\ ByteOf(v, 0) = v % 256 /\ ByteOf(v, 1) = p % 256
      /\ ByteOf(v, 2) = q % 256 /\ ByteOf(v, 3) = r
  BY <1>4, <1>5, <1>6, Powers, SMT DEF ByteOf
<1>8. ((r * 256 + (q % 256)) * 256 + (p % 256)) * 256 + (v % 256) = v
  <2> HIDE DEF p, q, r
  <2>1. r * 256 + (q % 256) = q
    BY <1>2, SMT
  <2>2. q * 256 + (p % 256) = p
    BY <1>2, SMT
  <2>3. p * 256 + (v % 256) = v
    BY <1>1, <1>2, SMT
  <2> QED
    BY <2>1, <2>2, <2>3, SMT
<1> HIDE DEF p, q, r
<1> QED
  BY <1>7, <1>8, SMT

\* The bytes of a field whose end is on the border of a byte, before they are turned.
LEMMA Turned ==
    ASSUME NEW n, NEW v \in Nat, NEW w, w = v * 2^(32 - (StartBit(n) + n))
    PROVE  /\ GetByte(n, v) = ByteOf(w, 3)
           /\ GetShort(n, v) = ByteOf(w, 3) * 256 + ByteOf(w, 2)
           /\ GetInt(n, v) = ((ByteOf(w, 3) * 256 + ByteOf(w, 2)) * 256 + ByteOf(w, 1)) * 256
                                + ByteOf(w, 0)
<1>1. GetData(n, v) = [b \in 0..3 |-> ByteOf(w, 3 - b)]
  BY SMT DEF GetData, ByteOf
<1>2. 3 - 0 = 3 /\ 3 - 1 = 2 /\ 3 - 2 = 1 /\ 3 - 3 = 0 /\ {0, 1, 2, 3} \subseteq 0..3
  BY SMT
<1>3. /\ GetData(n, v)[0] = ByteOf(w, 3) /\ GetData(n, v)[1] = ByteOf(w, 2)
      /\ GetData(n, v)[2] = ByteOf(w, 1) /\ GetData(n, v)[3] = ByteOf(w, 0)
  BY <1>1, <1>2, SMT
<1> QED
  BY <1>3, SMT DEF GetByte, GetShort, GetInt

LEMMA Shifts ==
    /\ 2^(32 - (StartBit(8) + 8)) = 2^16
    /\ \A n \in {9, 10} : 2^(32 - (StartBit(n) + n)) = 2^16
    /\ \A n \in {27, 28} : 2^(32 - (StartBit(n) + n)) = 2^0
<1>1. /\ 32 - (StartBit(8) + 8) = 16 /\ 32 - (StartBit(9) + 9) = 16
      /\ 32 - (StartBit(10) + 10) = 16
      /\ 32 - (StartBit(27) + 27) = 0 /\ 32 - (StartBit(28) + 28) = 0
  BY SMT DEF StartBit
<1> QED
  BY <1>1, Zenon

\* A field that ends with the word is read as it is.
LEMMA WordRead ==
    ASSUME NEW n \in {27, 28}, NEW v \in 0..2^28 - 1
    PROVE  GetInt(n, v) = v
<1>1. v \in Nat /\ v * 2^0 = v
  BY Powers, SMT
<1>2. v = v * 2^(32 - (StartBit(n) + n))
  BY <1>1, Shifts, Zenon
<1>3. GetInt(n, v) = ((ByteOf(v, 3) * 256 + ByteOf(v, 2)) * 256 + ByteOf(v, 1)) * 256
                        + ByteOf(v, 0)
  BY <1>1, <1>2, Turned, SMT
<1>4. ((ByteOf(v, 3) * 256 + ByteOf(v, 2)) * 256 + ByteOf(v, 1)) * 256 + ByteOf(v, 0) = v
  BY BytesTogether, Zenon
<1> QED
  BY <1>3, <1>4, Zenon

LEMMA Longitude ==
    ASSUME NEW v \in 0..2^28 - 1
    PROVE  Read(Coord("lon", 28), v) = Meant("lon", v)
<1>1. v \in Nat /\ v < 268435456
  BY Powers, SMT
<1>3. GetInt(28, v) = v
  BY WordRead, Zenon
<1>4. (v \div 2^27) % 2 = 1 <=> v >= 2^27
  BY <1>1, Powers, SMT
<1>5. Read(Coord("lon", 28), v) = Signed(28, v)
  BY <1>3, SMT DEF Read, Coord
<1> QED
  BY <1>4, <1>5, SMT DEF Signed, Meant

LEMMA Latitude ==
    ASSUME NEW v \in 0..2^27 - 1
    PROVE  Read(Coord("lat", 27), v) = Meant("lat", v)
<1>1. v \in Nat /\ v < 134217728
  BY Powers, SMT
<1>2. v \in 0..2^28 - 1
  BY Powers, SMT
<1>3. GetInt(27, v) = v
  BY <1>2, WordRead, Zenon
<1>4. (v \div 2^26) % 2 = 1 <=> v >= 2^26
  BY <1>1, Powers, SMT
<1>5. Read(Coord("lat", 27), v) = Signed(27, v)
  BY <1>3, SMT DEF Read, Coord
<1> QED
  BY <1>4, <1>5, SMT DEF Signed, Meant

LEMMA Shorts ==
    ASSUME NEW n \in {9, 10}, NEW v \in 0..1023
    PROVE  GetShort(n, v) = v
<1> DEFINE w == v * 2^16
<1>1. w = v * 2^(32 - (StartBit(n) + n))
  BY Shifts, Zenon
<1>2. ByteOf(w, 3) = v \div 256 /\ ByteOf(w, 2) = v % 256
  <2>1. w \div 16777216 = v \div 256 /\ w \div 65536 = v
    BY Powers, SMT
  <2>2. (v \div 256) % 256 = v \div 256
    BY SMT
  <2> QED
    BY <2>1, <2>2, Powers, SMT DEF ByteOf
<1>3. (v \div 256) * 256 + (v % 256) = v
  BY SMT
<1> HIDE DEF w
<1> QED
  BY <1>1, <1>2, <1>3, Turned, SMT

\* A whole byte starts behind the byte that is kept.
LEMMA WholeByte ==
    ASSUME NEW v \in 0..255
    PROVE  GetByte(8, v) = 0
<1> DEFINE w == v * 2^16
<1>1. w = v * 2^(32 - (StartBit(8) + 8))
  BY Shifts, Zenon
<1>2. (w \div 16777216) % 256 = 0
  BY Powers, SMT
<1>3. ByteOf(w, 3) = 0
  BY <1>2, Powers, SMT DEF ByteOf
<1> HIDE DEF w
<1> QED
  BY <1>1, <1>3, Turned, SMT

-----------------------------------------------------------------------------
(* The fields of a message *)

Label == {"navStatus", "rateOfTurn", "sog", "accuracy", "lon", "lat", "raim", "commState", "cog",
          "hdg", "timestamp", "regional", "spare", "year", "month", "day", "hour", "min", "sec",
          "psType", "reserved", "regApps", "name", "shipCargoType", "dimensions", "dte",
          "aToNType", "offPos", "aisVersion", "imoNumber", "callSign", "eta", "maxDraft", "dest",
          "messageID", "repeatInd", "mmsi"}

Field == [name : Label, bits : Nat, get : {"byte", "short", "int", "signed", "string"}]

\* t[i] is the sum of the bits of the first i fields.
Totals(fields, t) ==
    t[0] = 0 /\ \A i \in 1..Len(fields) : t[i] = t[i - 1] + fields[i].bits

LEMMA TotalsExist ==
    ASSUME NEW q \in Seq(Field)
    PROVE  \E t \in [0..Len(q) -> Nat] : Totals(q, t)
<1> DEFINE Part(n, t) == t[0] = 0 /\ \A i \in 1..n : t[i] = t[i - 1] + q[i].bits
           S == {n \in Nat : n <= Len(q) => \E t \in [0..n -> Nat] : Part(n, t)}
<1>1. 0 \in S
  <2>1. Part(0, [i \in 0..0 |-> 0])
    OBVIOUS
  <2>2. [i \in 0..0 |-> 0] \in [0..0 -> Nat]
    OBVIOUS
  <2> QED
    BY <2>1, <2>2
<1>2. ASSUME NEW n \in S PROVE n + 1 \in S
  <2> SUFFICES ASSUME n + 1 <= Len(q)
               PROVE  \E t \in [0..n + 1 -> Nat] : Part(n + 1, t)
    <3>1. n + 1 \in Nat
      OBVIOUS
    <3> HIDE DEF Part
    <3> QED
      BY <3>1
  <2>1. n \in Nat /\ Len(q) \in Nat
    OBVIOUS
  <2>2. PICK t \in [0..n -> Nat] : Part(n, t)
    BY <2>1
  <2> DEFINE u == [i \in 0..n + 1 |-> IF i <= n THEN t[i] ELSE t[n] + q[n + 1].bits]
  <2>3. q[n + 1].bits \in Nat
    <3>1. q[n + 1] \in Field
      BY <2>1
    <3> QED
      BY <3>1 DEF Field
  <2>4. u \in [0..n + 1 -> Nat]
    BY <2>1, <2>2, <2>3
  <2>5. ASSUME NEW i \in 1..n + 1 PROVE u[i] = u[i - 1] + q[i].bits
    <3>1. CASE i <= n
      BY <2>1, <2>2, <3>1
    <3>2. CASE i = n + 1
      BY <2>1, <2>2, <3>2
    <3> QED
      BY <2>1, <3>1, <3>2
  <2>6. u[0] = 0
    BY <2>1, <2>2
  <2> HIDE DEF u
  <2> QED
    BY <2>4, <2>5, <2>6
<1>3. S = Nat
  <2>1. S \in SUBSET Nat
    OBVIOUS
  <2> HIDE DEF S
  <2> QED
    BY <1>1, <1>2, <2>1, Induction
<1>4. Len(q) \in Nat
  OBVIOUS
<1>5. Len(q) \in S
  BY <1>3, <1>4
<1>6. PICK t \in [0..Len(q) -> Nat] : Part(Len(q), t)
  BY <1>4, <1>5
<1> QED
  BY <1>6 DEF Totals

LEMMA TotalsAgree ==
    ASSUME NEW q \in Seq(Field), NEW t, Totals(q, t), NEW u, Totals(q, u)
    PROVE  t[Len(q)] = u[Len(q)]
<1> DEFINE S == {n \in Nat : n <= Len(q) => t[n] = u[n]}
<1>1. 0 \in S
  BY DEF Totals
<1>2. ASSUME NEW n \in S PROVE n + 1 \in S
  BY DEF Totals
<1>3. S = Nat
  <2>1. S \in SUBSET Nat
    OBVIOUS
  <2> HIDE DEF S
  <2> QED
    BY <1>1, <1>2, <2>1, Induction
<1>4. Len(q) \in S
  <2>1. Len(q) \in Nat
    OBVIOUS
  <2> HIDE DEF S
  <2> QED BY <1>3, <2>1
<1> QED
  BY <1>4

LEMMA BitsAreTotal ==
    ASSUME NEW q \in Seq(Field), NEW t \in [0..Len(q) -> Nat], Totals(q, t)
    PROVE  BitsOf(q) = t[Len(q)]
<1> DEFINE Sums(f) == f = [i \in 0..Len(q) |-> IF i = 0 THEN 0 ELSE f[i - 1] + q[i].bits]
           c == CHOOSE f : Sums(f)
<1>1. Sums(t)
  <2>1. Len(q) \in Nat
    OBVIOUS
  <2>2. ASSUME NEW i \in 0..Len(q)
        PROVE  t[i] = IF i = 0 THEN 0 ELSE t[i - 1] + q[i].bits
    BY <2>1 DEF Totals
  <2> QED
    BY <2>2
<1>2. Sums(c)
  <2> HIDE DEF Sums
  <2> QED
    BY <1>1, Zenon
<1>3. Totals(q, c)
  <2> HIDE DEF c
  <2> QED
    BY <1>2 DEF Totals
<1>4. BitsOf(q) = c[Len(q)]
  BY DEF BitsOf
<1> QED
  <2> HIDE DEF c
  <2> QED
  BY <1>3, <1>4, TotalsAgree

LEMMA BitsTogether ==
    ASSUME NEW a \in Seq(Field), NEW b \in Seq(Field)
    PROVE  BitsOf(a \o b) = BitsOf(a) + BitsOf(b)
<1>1. PICK t \in [0..Len(a) -> Nat] : Totals(a, t)
  BY TotalsExist
<1>2. PICK u \in [0..Len(b) -> Nat] : Totals(b, u)
  BY TotalsExist
<1>3. /\ Len(a) \in Nat /\ Len(b) \in Nat
      /\ a \o b \in Seq(Field) /\ Len(a \o b) = Len(a) + Len(b)
  OBVIOUS
<1> DEFINE v == [i \in 0..Len(a \o b) |->
                    IF i <= Len(a) THEN t[i] ELSE t[Len(a)] + u[i - Len(a)]]
<1>4. v \in [0..Len(a \o b) -> Nat]
  <2>1. ASSUME NEW i \in 0..Len(a \o b) PROVE v[i] \in Nat
    <3>1. CASE i <= Len(a)
      BY <1>1, <1>3, <3>1
    <3>2. CASE i > Len(a)
      <4>1. t[Len(a)] \in Nat
        BY <1>3
      <4>2. i - Len(a) \in 0..Len(b)
        BY <1>3, <3>2
      <4>3. u[i - Len(a)] \in Nat
        BY <4>2
      <4> QED
        BY <1>3, <3>2, <4>1, <4>3
    <3> QED
      BY <1>3, <3>1, <3>2
  <2> QED
    BY <2>1
<1>5. v[0] = 0
  BY <1>1, <1>3 DEF Totals
<1>6. ASSUME NEW i \in 1..Len(a \o b) PROVE v[i] = v[i - 1] + (a \o b)[i].bits
  <2>1. CASE i <= Len(a)
    <3>1. (a \o b)[i] = a[i] /\ i \in 1..Len(a)
      BY <1>3, <2>1
    <3> QED
      BY <1>1, <1>3, <2>1, <3>1 DEF Totals
  <2>2. CASE i > Len(a)
    <3> DEFINE j == i - Len(a)
    <3>1. (a \o b)[i] = b[j] /\ j \in 1..Len(b)
      BY <1>3, <2>2
    <3>2. u[j] = u[j - 1] + b[j].bits
      BY <1>2, <3>1 DEF Totals
    <3>3. b[j].bits \in Nat
      <4>1. b[j] \in Field
        BY <3>1
      <4> QED
        BY <4>1 DEF Field
    <3>4. v[i] = t[Len(a)] + u[j]
      BY <1>3, <2>2
    <3>5. v[i - 1] = t[Len(a)] + u[j - 1]
      <4>1. CASE j = 1
        BY <1>2, <1>3, <2>2, <4>1 DEF Totals
      <4>2. CASE j # 1
        BY <1>3, <2>2, <4>2
      <4> QED
        BY <4>1, <4>2
    <3> QED
      <4>1. Len(a) \in 0..Len(a) /\ j - 1 \in 0..Len(b)
        BY <1>3, <3>1
      <4>2. t[Len(a)] \in Nat /\ u[j - 1] \in Nat
        BY <4>1
      <4>3. v[i] = t[Len(a)] + (u[j - 1] + b[j].bits)
        BY <3>2, <3>4
      <4>4. v[i] = v[i - 1] + b[j].bits
        <5> HIDE DEF v, j
        <5> QED
          BY <3>3, <3>5, <4>2, <4>3
      <4> QED
        BY <3>1, <4>4
  <2> QED
    BY <1>3, <2>1, <2>2
<1>7. BitsOf(a \o b) = v[Len(a \o b)]
  <2> HIDE DEF v
  <2>1. Totals(a \o b, v)
    BY <1>5, <1>6 DEF Totals
  <2> QED
    BY <1>3, <1>4, <2>1, BitsAreTotal
<1>8. BitsOf(a) = t[Len(a)] /\ BitsOf(b) = u[Len(b)]
  BY <1>1, <1>2, BitsAreTotal
<1>9. v[Len(a \o b)] = t[Len(a)] + u[Len(b)]
  <2>1. CASE Len(b) = 0
    BY <1>2, <1>3, <2>1 DEF Totals
  <2>2. CASE Len(b) # 0
    BY <1>3, <2>2
  <2> QED
    BY <2>1, <2>2
<1> QED
  BY <1>7, <1>8, <1>9

\* The fields that are kept have one size and one getter in all messages.
OneWay(f) ==
    /\ f.name = "lon" => f = Coord("lon", 28)
    /\ f.name = "lat" => f = Coord("lat", 27)
    /\ f.name = "sog" => f = Short("sog", 10)
    /\ f.name = "hdg" => f = Short("hdg", 9)
    /\ f.name = "shipCargoType" => f = Octet("shipCargoType", 8)

\* A part of a message of n bits with such fields.
Laid(fields, n) ==
    /\ fields \in Seq(Field)
    /\ \A i \in 1..Len(fields) : OneWay(fields[i])
    /\ BitsOf(fields) = n

LEMMA LaidAlone ==
    ASSUME NEW q \in Seq(Field), \A i \in 1..Len(q) : OneWay(q[i]),
           NEW n, \A t : Totals(q, t) => t[Len(q)] = n
    PROVE  Laid(q, n)
  BY TotalsExist, BitsAreTotal DEF Laid

LEMMA LaidTogether ==
    ASSUME NEW a, NEW b, NEW m, NEW n, Laid(a, m), Laid(b, n)
    PROVE  Laid(a \o b, m + n)
<1>1. a \in Seq(Field) /\ b \in Seq(Field)
  BY DEF Laid
<1>2. a \o b \in Seq(Field) /\ Len(a \o b) = Len(a) + Len(b)
  BY <1>1
<1>3. ASSUME NEW i \in 1..Len(a \o b) PROVE OneWay((a \o b)[i])
  <2>1. CASE i <= Len(a)
    <3>1. (a \o b)[i] = a[i] /\ i \in 1..Len(a)
      BY <1>1, <1>2, <2>1
    <3> QED
      BY <3>1 DEF Laid
  <2>2. CASE i > Len(a)
    <3>1. (a \o b)[i] = b[i - Len(a)] /\ i - Len(a) \in 1..Len(b)
      BY <1>1, <1>2, <2>2
    <3> QED
      BY <3>1 DEF Laid
  <2> QED
    BY <1>1, <1>2, <2>1, <2>2
<1> QED
  BY <1>1, <1>2, <1>3, BitsTogether DEF Laid

LEMMA HeaderLaid == Laid(Header, 38)
<1>1. Header \in Seq(Field) /\ Len(Header) = 3 /\ \A i \in 1..3 : OneWay(Header[i])
  BY DEF Header, Octet, Word, Field, Label, OneWay
<1>2. ASSUME NEW t, Totals(Header, t) PROVE t[3] = 38
  BY <1>1, <1>2 DEF Header, Octet, Word, Totals
<1>3. \A t : Totals(Header, t) => t[Len(Header)] = 38
  BY <1>1, <1>2, Zenon
<1> QED
  BY <1>1, <1>3, LaidAlone, Zenon

LEMMA PositionLaid == Laid(Position, 56)
<1>1. Position \in Seq(Field) /\ Len(Position) = 3 /\ \A i \in 1..3 : OneWay(Position[i])
  BY DEF Position, Octet, Coord, Field, Label, OneWay
<1>2. ASSUME NEW t, Totals(Position, t) PROVE t[3] = 56
  BY <1>1, <1>2 DEF Position, Octet, Coord, Totals
<1>3. \A t : Totals(Position, t) => t[Len(Position)] = 56
  BY <1>1, <1>2, Zenon
<1>4. Laid(Position, 56)
  BY <1>1, <1>3, LaidAlone, Zenon
<1> QED
  BY <1>4

LEMMA TrailerLaid == Laid(Trailer, 20)
<1>1. Trailer \in Seq(Field) /\ Len(Trailer) = 2 /\ \A i \in 1..2 : OneWay(Trailer[i])
  BY DEF Trailer, Octet, Word, Field, Label, OneWay
<1>2. ASSUME NEW t, Totals(Trailer, t) PROVE t[2] = 20
  BY <1>1, <1>2 DEF Trailer, Octet, Word, Totals
<1>3. \A t : Totals(Trailer, t) => t[Len(Trailer)] = 20
  BY <1>1, <1>2, Zenon
<1>4. Laid(Trailer, 20)
  BY <1>1, <1>3, LaidAlone, Zenon
<1> QED
  BY <1>4

LEMMA BaseReportLaid == Laid(BaseReport, 130)
<1> DEFINE front == <<Octet("navStatus", 4), Octet("rateOfTurn", 8), Short("sog", 10)>>
           back  == <<Short("cog", 12), Short("hdg", 9), Octet("timestamp", 6),
                      Octet("regional", 4), Octet("spare", 1)>>
<1>1. Laid(front, 22)
  <2>1. front \in Seq(Field) /\ Len(front) = 3 /\ \A i \in 1..3 : OneWay(front[i])
    BY DEF Octet, Short, Field, Label, OneWay
  <2>2. ASSUME NEW t, Totals(front, t) PROVE t[3] = 22
    BY <2>1, <2>2 DEF Octet, Short, Totals
  <2>3. \A t : Totals(front, t) => t[Len(front)] = 22
    BY <2>1, <2>2, Zenon
  <2>4. Laid(front, 22)
    BY <2>1, <2>3, LaidAlone, Zenon
  <2> QED
    BY <2>4
<1>2. Laid(back, 32)
  <2>1. back \in Seq(Field) /\ Len(back) = 5 /\ \A i \in 1..5 : OneWay(back[i])
    BY DEF Octet, Short, Field, Label, OneWay
  <2>2. ASSUME NEW t, Totals(back, t) PROVE t[5] = 32
    BY <2>1, <2>2 DEF Octet, Short, Totals
  <2>3. \A t : Totals(back, t) => t[Len(back)] = 32
    BY <2>1, <2>2, Zenon
  <2>4. Laid(back, 32)
    BY <2>1, <2>3, LaidAlone, Zenon
  <2> QED
    BY <2>4
<1>3. BaseReport = front \o Position \o back \o Trailer
  BY DEF BaseReport
<1> HIDE DEF front, back
<1>4. Laid(front \o Position, 22 + 56)
  BY <1>1, PositionLaid, LaidTogether, Zenon
<1>5. Laid(front \o Position \o back, 22 + 56 + 32)
  BY <1>2, <1>4, LaidTogether, Zenon
<1>6. Laid(front \o Position \o back \o Trailer, 22 + 56 + 32 + 20)
  BY <1>5, TrailerLaid, LaidTogether, Zenon
<1> QED
  BY <1>3, <1>6

LEMMA BaseStationReportLaid == Laid(BaseStationReport, 130)
<1> DEFINE front == <<Short("year", 14), Octet("month", 4), Octet("day", 5), Octet("hour", 5),
                      Octet("min", 6), Octet("sec", 6)>>
           back  == <<Octet("psType", 4), Short("spare", 10)>>
<1>1. Laid(front, 40)
  <2>1. front \in Seq(Field) /\ Len(front) = 6 /\ \A i \in 1..6 : OneWay(front[i])
    BY DEF Octet, Short, Field, Label, OneWay
  <2>2. ASSUME NEW t, Totals(front, t) PROVE t[6] = 40
    BY <2>1, <2>2 DEF Octet, Short, Totals
  <2>3. \A t : Totals(front, t) => t[Len(front)] = 40
    BY <2>1, <2>2, Zenon
  <2>4. Laid(front, 40)
    BY <2>1, <2>3, LaidAlone, Zenon
  <2> QED
    BY <2>4
<1>2. Laid(back, 14)
  <2>1. back \in Seq(Field) /\ Len(back) = 2 /\ \A i \in 1..2 : OneWay(back[i])
    BY DEF Octet, Short, Field, Label, OneWay
  <2>2. ASSUME NEW t, Totals(back, t) PROVE t[2] = 14
    BY <2>1, <2>2 DEF Octet, Short, Totals
  <2>3. \A t : Totals(back, t) => t[Len(back)] = 14
    BY <2>1, <2>2, Zenon
  <2>4. Laid(back, 14)
    BY <2>1, <2>3, LaidAlone, Zenon
  <2> QED
    BY <2>4
<1>3. BaseStationReport = front \o Position \o back \o Trailer
  BY DEF BaseStationReport
<1> HIDE DEF front, back
<1>4. Laid(front \o Position, 40 + 56)
  BY <1>1, PositionLaid, LaidTogether, Zenon
<1>5. Laid(front \o Position \o back, 40 + 56 + 14)
  BY <1>2, <1>4, LaidTogether, Zenon
<1>6. Laid(front \o Position \o back \o Trailer, 40 + 56 + 14 + 20)
  BY <1>5, TrailerLaid, LaidTogether, Zenon
<1> QED
  BY <1>3, <1>6

LEMMA StandardClassBLaid == Laid(StandardClassB, 129)
<1> DEFINE front == <<Octet("reserved", 8), Short("sog", 10)>>
           back  == <<Short("cog", 12), Short("hdg", 9), Octet("timestamp", 6),
                      Octet("regional", 4), Octet("spare", 4)>>
<1>1. Laid(front, 18)
  <2>1. front \in Seq(Field) /\ Len(front) = 2 /\ \A i \in 1..2 : OneWay(front[i])
    BY DEF Octet, Short, Field, Label, OneWay
  <2>2. ASSUME NEW t, Totals(front, t) PROVE t[2] = 18
    BY <2>1, <2>2 DEF Octet, Short, Totals
  <2>3. \A t : Totals(front, t) => t[Len(front)] = 18
    BY <2>1, <2>2, Zenon
  <2>4. Laid(front, 18)
    BY <2>1, <2>3, LaidAlone, Zenon
  <2> QED
    BY <2>4
<1>2. Laid(back, 35)
  <2>1. back \in Seq(Field) /\ Len(back) = 5 /\ \A i \in 1..5 : OneWay(back[i])
    BY DEF Octet, Short, Field, Label, OneWay
  <2>2. ASSUME NEW t, Totals(back, t) PROVE t[5] = 35
    BY <2>1, <2>2 DEF Octet, Short, Totals
  <2>3. \A t : Totals(back, t) => t[Len(back)] = 35
    BY <2>1, <2>2, Zenon
  <2>4. Laid(back, 35)
    BY <2>1, <2>3, LaidAlone, Zenon
  <2> QED
    BY <2>4
<1>3. StandardClassB = front \o Position \o back \o Trailer
  BY DEF StandardClassB
<1> HIDE DEF front, back
<1>4. Laid(front \o Position, 18 + 56)
  BY <1>1, PositionLaid, LaidTogether, Zenon
<1>5. Laid(front \o Position \o back, 18 + 56 + 35)
  BY <1>2, <1>4, LaidTogether, Zenon
<1>6. Laid(front \o Position \o back \o Trailer, 18 + 56 + 35 + 20)
  BY <1>5, TrailerLaid, LaidTogether, Zenon
<1> QED
  BY <1>3, <1>6

LEMMA ExtendedClassBLaid == Laid(ExtendedClassB, 269)
<1> DEFINE front == <<Octet("regApps", 8), Short("sog", 10)>>
           back  == <<Short("cog", 12), Short("hdg", 9), Octet("timestamp", 6),
                      Octet("regional", 4), String("name", 20), Octet("shipCargoType", 8),
                      Word("dimensions", 30), Octet("psType", 4), Octet("raim", 1),
                      Octet("dte", 1)>>
<1>1. Laid(front, 18)
  <2>1. front \in Seq(Field) /\ Len(front) = 2 /\ \A i \in 1..2 : OneWay(front[i])
    BY DEF Octet, Short, Field, Label, OneWay
  <2>2. ASSUME NEW t, Totals(front, t) PROVE t[2] = 18
    BY <2>1, <2>2 DEF Octet, Short, Totals
  <2>3. \A t : Totals(front, t) => t[Len(front)] = 18
    BY <2>1, <2>2, Zenon
  <2>4. Laid(front, 18)
    BY <2>1, <2>3, LaidAlone, Zenon
  <2> QED
    BY <2>4
<1>2. Laid(back, 195)
  <2> DEFINE width == 195
  <2>1. back \in Seq(Field) /\ Len(back) = 10 /\ \A i \in 1..10 : OneWay(back[i])
    BY DEF Octet, Short, Word, String, Field, Label, OneWay
  <2>2. ASSUME NEW t, Totals(back, t) PROVE t[10] = width
    BY <2>1, <2>2 DEF Octet, Short, Word, String, Totals
  <2> HIDE DEF width
  <2>3. \A t : Totals(back, t) => t[Len(back)] = width
    BY <2>1, <2>2, Zenon
  <2>4. Laid(back, width)
    BY <2>1, <2>3, LaidAlone, Zenon
  <2> QED
    BY <2>4 DEF width
<1> DEFINE width == 195
<1>3. ExtendedClassB = front \o Position \o back
  BY DEF ExtendedClassB
<1> HIDE DEF front, back, width
<1>4. Laid(back, width)
  BY <1>2 DEF width
<1>5. Laid(front \o Position, 18 + 56)
  BY <1>1, PositionLaid, LaidTogether, Zenon
<1>6. Laid(front \o Position \o back, 18 + 56 + width)
  BY <1>4, <1>5, LaidTogether, Zenon
<1> QED
  BY <1>3, <1>6 DEF width

LEMMA AidToNavigationLaid == Laid(AidToNavigation, 234)
<1> DEFINE front == <<Octet("aToNType", 5), String("name", 20)>>
           back  == <<Word("dimensions", 30), Octet("psType", 4), Octet("timestamp", 6),
                      Octet("offPos", 1), Octet("regApps", 8), Octet("raim", 1), Octet("spare", 3)>>
<1>1. Laid(front, 125)
  <2>1. front \in Seq(Field) /\ Len(front) = 2 /\ \A i \in 1..2 : OneWay(front[i])
    BY DEF Octet, String, Field, Label, OneWay
  <2>2. ASSUME NEW t, Totals(front, t) PROVE t[2] = 125
    BY <2>1, <2>2 DEF Octet, String, Totals
  <2>3. \A t : Totals(front, t) => t[Len(front)] = 125
    BY <2>1, <2>2, Zenon
  <2>4. Laid(front, 125)
    BY <2>1, <2>3, LaidAlone, Zenon
  <2> QED
    BY <2>4
<1>2. Laid(back, 53)
  <2>1. back \in Seq(Field) /\ Len(back) = 7 /\ \A i \in 1..7 : OneWay(back[i])
    BY DEF Octet, Word, Field, Label, OneWay
  <2>2. ASSUME NEW t, Totals(back, t) PROVE t[7] = 53
    BY <2>1, <2>2 DEF Octet, Word, Totals
  <2>3. \A t : Totals(back, t) => t[Len(back)] = 53
    BY <2>1, <2>2, Zenon
  <2>4. Laid(back, 53)
    BY <2>1, <2>3, LaidAlone, Zenon
  <2> QED
    BY <2>4
<1>3. AidToNavigation = front \o Position \o back
  BY DEF AidToNavigation
<1> HIDE DEF front, back
<1>4. Laid(front \o Position, 125 + 56)
  BY <1>1, PositionLaid, LaidTogether, Zenon
<1>5. Laid(front \o Position \o back, 125 + 56 + 53)
  BY <1>2, <1>4, LaidTogether, Zenon
<1> QED
  BY <1>3, <1>5

LEMMA StaticVoyageLaid == Laid(StaticVoyage, 386)
<1> DEFINE width == 386
<1>1. /\ StaticVoyage \in Seq(Field) /\ Len(StaticVoyage) = 12
      /\ \A i \in 1..12 : OneWay(StaticVoyage[i])
  BY DEF StaticVoyage, Octet, Word, String, Field, Label, OneWay
<1>2. ASSUME NEW t, Totals(StaticVoyage, t) PROVE t[12] = width
  BY <1>1, <1>2 DEF StaticVoyage, Octet, Word, String, Totals
<1> HIDE DEF width
<1>3. \A t : Totals(StaticVoyage, t) => t[Len(StaticVoyage)] = width
  BY <1>1, <1>2, Zenon
<1>4. Laid(StaticVoyage, width)
  BY <1>1, <1>3, LaidAlone, Zenon
<1> QED
  BY <1>4 DEF width

\* The bits a parser reads of the message behind the header.
ReadOf(type) == CASE type \in 1..4 -> 130
                  [] type = 5  -> 386
                  [] type = 18 -> 129
                  [] type = 19 -> 269
                  [] type = 21 -> 234

LEMMA FieldsLaid == ASSUME NEW type \in Types PROVE Laid(Fields(type), ReadOf(type))
<1>1. type \in 1..3 \/ type = 4 \/ type = 5 \/ type = 18 \/ type = 19 \/ type = 21
  BY TypesAssumption
<1> QED
  BY <1>1, BaseReportLaid, BaseStationReportLaid, StandardClassBLaid, ExtendedClassBLaid,
     AidToNavigationLaid, StaticVoyageLaid DEF Fields, ReadOf

LEMMA LeftOf ==
    ASSUME NEW type \in Types
    PROVE  Left[type] = CASE type \in 1..4 -> 0 [] type = 5 -> 2 [] type = 18 -> 1
                          [] type = 19 -> 5 [] type = 21 -> 4
<1>1. BitsOf(Header) = 38 /\ BitsOf(Fields(type)) = ReadOf(type)
  BY HeaderLaid, FieldsLaid DEF Laid
<1>2. Left[type] = Sent(type) - 38 - ReadOf(type)
  BY <1>1 DEF Left
<1>3. type \in 1..4 \/ type = 5 \/ type = 18 \/ type = 19 \/ type = 21
  BY TypesAssumption
<1> QED
  BY <1>2, <1>3 DEF Sent, ReadOf

LEMMA RawValues ==
    ASSUME NEW msg \in Messages
    PROVE  /\ msg["lon"] \in 0..2^28 - 1
           /\ msg["lat"] \in 0..2^27 - 1
           /\ msg["sog"] \in 0..1023
           /\ msg["hdg"] \in 0..1023
           /\ msg["shipCargoType"] \in 0..255
<1>1. /\ msg["lon"] \in Lons /\ msg["lat"] \in Lats /\ msg["sog"] \in Sogs
      /\ msg["hdg"] \in Hdgs /\ msg["shipCargoType"] \in Cargoes
  BY DEF Messages
<1>2. msg["lon"] \in 0..2^28 - 1
  <2>1. Lons \subseteq 0..2^28 - 1
    BY RawAssumption, Zenon
  <2> QED
    BY <1>1, <2>1
<1>3. msg["lat"] \in 0..2^27 - 1
  <2>1. Lats \subseteq 0..2^27 - 1
    BY RawAssumption, Zenon
  <2> QED
    BY <1>1, <2>1
<1>4. msg["sog"] \in 0..1023
  <2>1. Sogs \subseteq 0..1023
    BY RawAssumption, Zenon
  <2> QED
    BY <1>1, <2>1
<1>5. msg["hdg"] \in 0..1023
  <2>1. Hdgs \subseteq 0..511
    BY RawAssumption, Zenon
  <2>2. msg["hdg"] \in 0..511
    BY <1>1, <2>1, Zenon
  <2> QED
    BY <2>2
<1>6. msg["shipCargoType"] \in 0..255
  <2>1. Cargoes \subseteq 0..255
    BY RawAssumption, Zenon
  <2> QED
    BY <1>1, <2>1
<1> QED
  BY <1>2, <1>3, <1>4, <1>5, <1>6

\* What a parser has of a field is what was meant, but for a whole byte.
LEMMA GotIt ==
    ASSUME NEW type \in Types, NEW msg \in Messages, NEW n \in Names, Carries(type, n)
    PROVE  /\ n \in {"lon", "lat", "sog", "hdg"} => Got(type, msg, n) = Meant(n, msg[n])
           /\ n = "shipCargoType" => Got(type, msg, n) = 0
<1> DEFINE fields == Fields(type)
           f == CHOOSE g \in ToSet(fields) : g.name = n
<1>1. /\ Parsers[type] = Reads(fields)
      /\ n \in {g.name : g \in ToSet(fields)}
  BY DEF Carries, Parsers, Reads
<1>2. f \in ToSet(fields) /\ f.name = n
  BY <1>1
<1>3. OneWay(f)
  <2>1. Laid(fields, ReadOf(type))
    BY FieldsLaid
  <2> QED
    <3>1. fields \in Seq(Field) /\ \A i \in 1..Len(fields) : OneWay(fields[i])
      BY <2>1 DEF Laid
    <3> HIDE DEF fields, f
    <3>2. PICK i \in DOMAIN fields : f = fields[i]
      BY <1>2 DEF ToSet
    <3> QED
      BY <2>1, <3>1, <3>2
<1>4. msg[n] \in Raw[n]
  BY DEF Messages, Raw, Names
<1>5. Got(type, msg, n) = Read(f, msg[n])
  BY <1>1, <1>4 DEF Got, Reads
<1> HIDE DEF f
<1>6. CASE n = "lon"
  <2>1. f = Coord("lon", 28)
    BY <1>2, <1>3, <1>6 DEF OneWay
  <2>0. msg[n] \in 0..2^28 - 1
    BY <1>6, RawValues
  <2> QED
    BY <1>5, <1>6, <2>1, <2>0, Longitude
<1>7. CASE n = "lat"
  <2>1. f = Coord("lat", 27)
    BY <1>2, <1>3, <1>7 DEF OneWay
  <2>0. msg[n] \in 0..2^27 - 1
    BY <1>7, RawValues
  <2> QED
    BY <1>5, <1>7, <2>1, <2>0, Latitude
<1>8. CASE n = "sog"
  <2>1. f = Short("sog", 10)
    BY <1>2, <1>3, <1>8 DEF OneWay
  <2>0. msg[n] \in 0..1023
    BY <1>8, RawValues
  <2>2. Read(f, msg[n]) = GetShort(10, msg[n])
    BY <2>1 DEF Read, Short
  <2> QED
    BY <1>5, <1>8, <2>1, <2>2, <2>0, Shorts DEF Meant
<1>9. CASE n = "hdg"
  <2>1. f = Short("hdg", 9)
    BY <1>2, <1>3, <1>9 DEF OneWay
  <2>0. msg[n] \in 0..1023
    BY <1>9, RawValues
  <2>2. Read(f, msg[n]) = GetShort(9, msg[n])
    BY <2>1 DEF Read, Short
  <2> QED
    BY <1>5, <1>9, <2>1, <2>2, <2>0, Shorts DEF Meant
<1>10. CASE n = "shipCargoType"
  <2>1. f = Octet("shipCargoType", 8)
    BY <1>2, <1>3, <1>10 DEF OneWay
  <2>0. msg[n] \in 0..255
    BY <1>10, RawValues
  <2>2. Read(f, msg[n]) = GetByte(8, msg[n])
    BY <2>1 DEF Read, Octet
  <2> QED
    BY <1>5, <1>10, <2>1, <2>2, <2>0, WholeByte
<1> QED
  BY <1>6, <1>7, <1>8, <1>9, <1>10

-----------------------------------------------------------------------------
(* The target *)

\* A field's flag is set for a value, dropped for none, and left alone by a message without
\* the field.
LEMMA Flagged ==
    ASSUME NEW type \in Types, NEW msg \in Messages, NEW n \in Names, Report(type, msg)
    PROVE  IF Carries(type, n) THEN FlagOf[n] \in flags' <=> Got(type, msg, n) # NotAvailable[n]
           ELSE FlagOf[n] \in flags' <=> FlagOf[n] \in flags
<1>1. /\ \A m \in Names : FlagOf[m] = FlagOf[n] => m = n
      /\ FlagOf[n] \notin {"SOGOutOfScale", "RateOfTurnOutOfScale", "HDGOutOfScale",
                           "BaseStation", "ClassB", "AtoN"}
  BY DEF FlagOf, Names
<1>2. FlagOf[n] \in Sets(type, msg) <=> n \in Available(type, msg)
  BY <1>1 DEF Sets, Available
<1>3. FlagOf[n] \in Decides(type, msg) <=> Carries(type, n)
  BY <1>1, <1>2 DEF Decides, Available
<1> QED
  BY <1>2, <1>3 DEF Report, Available

LEMMA BaseStationStays ==
    ASSUME NEW type \in Types, NEW msg \in Messages, Report(type, msg), "BaseStation" \notin flags'
    PROVE  "BaseStation" \notin flags /\ type # 4
<1>1. "BaseStation" \in Sets(type, msg) <=> type = 4
  BY DEF Sets, FlagOf, Available, Names
<1>2. "BaseStation" \in Decides(type, msg) => "BaseStation" \in Sets(type, msg)
  BY DEF Decides, FlagOf, Names
<1> QED
  BY <1>1, <1>2 DEF Report

LEMMA TruthKept ==
    ASSUME NEW type \in Types, NEW msg \in Messages, Report(type, msg),
           NEW n \in {"lon", "lat", "sog", "hdg"}, Truthful(n), type = 4 => n # "sog"
    PROVE  Truthful(n)'
<1>1. n \in Names
  BY DEF Names
<1>2. /\ said'[n] = IF Carries(type, n) THEN msg[n] ELSE said[n]
      /\ stored'[n] = IF n \in Available(type, msg) THEN Got(type, msg, n) ELSE stored[n]
  BY <1>1 DEF Report, Value
<1>3. CASE Carries(type, n)
  <2>1. Got(type, msg, n) = Meant(n, msg[n])
    BY <1>1, <1>3, GotIt
  <2>2. msg[n] # NotSaid /\ (Meant(n, msg[n]) = NotAvailable[n] <=> msg[n] = NotAvailable[n])
    <3>1. CASE n = "lon"
      <4>1. msg[n] \in 0..2^28 - 1
        BY <3>1, RawValues
      <4> QED
        BY <3>1, <4>1, Powers, SMT DEF Meant, NotAvailable, NotSaid
    <3>2. CASE n = "lat"
      <4>1. msg[n] \in 0..2^27 - 1
        BY <3>2, RawValues
      <4> QED
        BY <3>2, <4>1, Powers, SMT DEF Meant, NotAvailable, NotSaid
    <3>3. CASE n \in {"sog", "hdg"}
      <4>1. msg[n] \in 0..1023
        BY <3>3, RawValues
      <4> QED
        BY <3>3, <4>1 DEF Meant, NotSaid
    <3> QED
      BY <3>1, <3>2, <3>3
  <2>3. FlagOf[n] \in flags' <=> Got(type, msg, n) # NotAvailable[n]
    BY <1>1, <1>3, Flagged
  <2>4. n \in Available(type, msg) <=> Got(type, msg, n) # NotAvailable[n]
    BY <1>1, <1>3 DEF Available
  <2> QED
    BY <1>2, <1>3, <2>1, <2>2, <2>3, <2>4 DEF Truthful
<1>4. CASE ~Carries(type, n)
  <2>1. FlagOf[n] \in flags' <=> FlagOf[n] \in flags
    BY <1>1, <1>4, Flagged
  <2>2. stored'[n] = stored[n] /\ said'[n] = said[n]
    BY <1>2, <1>4 DEF Available
  <2> QED
    BY <2>1, <2>2 DEF Truthful
<1> QED
  BY <1>3, <1>4

LEMMA TruthUnchanged ==
    UNCHANGED targetVars => /\ ReportTruthful => ReportTruthful'
                            /\ CargoUnknown => CargoUnknown'
  BY DEF targetVars, ReportTruthful, CargoUnknown, Truthful

\* What a target shows of a ship's position, speed and heading is what the ship last said,
\* and is flagged exactly when there is something to show, for every raw value of the
\* fields and every order of the types of messages.
THEOREM ReportsTrue == SensorSpec => []ReportTruthful
<1>1. SensorInit => Known /\ ReportTruthful
  BY DEF SensorInit, Known, TargetInit, ReportTruthful, Truthful, FlagOf, Names
<1>2. /\ Known /\ ReportTruthful
      /\ [AISMessage \/ NmeaSentence]_sensorVars
      => Known' /\ ReportTruthful'
  <2>1. ASSUME ReportTruthful, NEW type \in Types, NEW msg \in Messages, Report(type, msg)
        PROVE  ReportTruthful'
    <3>1. Truthful("lon")' /\ Truthful("lat")'
      BY <2>1, TruthKept DEF ReportTruthful
    <3>2. ASSUME "BaseStation" \notin flags' PROVE Truthful("sog")' /\ Truthful("hdg")'
      BY <2>1, <3>2, BaseStationStays, TruthKept DEF ReportTruthful
    <3> QED
      BY <3>1, <3>2 DEF ReportTruthful
  <2> QED
    BY <2>1, SensorSteps, TruthUnchanged
<1> QED
  BY <1>1, <1>2, PTL DEF SensorSpec

\* A field of whole bytes begins behind the byte that is kept: no ship's type is ever known,
\* whatever it says.
THEOREM CargoNeverKnown == SensorSpec => []CargoUnknown
<1>1. SensorInit => Known /\ CargoUnknown
  BY DEF SensorInit, Known, TargetInit, CargoUnknown
<1>2. /\ Known /\ CargoUnknown
      /\ [AISMessage \/ NmeaSentence]_sensorVars
      => Known' /\ CargoUnknown'
  <2>1. ASSUME CargoUnknown, NEW type \in Types, NEW msg \in Messages, Report(type, msg)
        PROVE  CargoUnknown'
    <3>1. "shipCargoType" \in Names /\ FlagOf["shipCargoType"] = "ShipCargoType"
          /\ NotAvailable["shipCargoType"] = 0
      BY DEF Names, FlagOf, NotAvailable
    <3> QED
      BY <2>1, <3>1, Flagged, GotIt DEF CargoUnknown
  <2> QED
    BY <2>1, SensorSteps, TruthUnchanged
<1> QED
  BY <1>1, <1>2, PTL DEF SensorSpec

\* The parser of a report of position of class A or of a base station reads the message to
\* its last bit, every other parser stops short of it and none reads past the end, which the
\* storage would take for a bit it has.
THEOREM ReadOut == SensorSpec => []PositionReportReadOut
<1> DEFINE AsLaid == last = 0 \/ (last \in Types /\ unread = Left[last])
<1>1. SensorInit => Known /\ AsLaid
  BY DEF SensorInit, Known, TargetInit
<1>2. Known /\ AsLaid /\ [AISMessage \/ NmeaSentence]_sensorVars => Known' /\ AsLaid'
  <2>1. ASSUME NEW type \in Types, NEW msg \in Messages, Report(type, msg)
        PROVE  AsLaid'
    BY <2>1 DEF Report
  <2>2. AsLaid /\ UNCHANGED targetVars => AsLaid'
    BY DEF targetVars
  <2> QED
    BY <2>1, <2>2, SensorSteps
<1>3. AsLaid => PositionReportReadOut
  <2> SUFFICES ASSUME last # 0, last \in Types, unread = Left[last]
               PROVE  unread >= 0 /\ (unread = 0 <=> last \in 1..4)
    BY DEF PositionReportReadOut
  <2>1. last \in 1..4 \/ last = 5 \/ last = 18 \/ last = 19 \/ last = 21
    BY TypesAssumption
  <2> QED
    BY <2>1, LeftOf
<1> QED
  BY <1>1, <1>2, <1>3, PTL DEF SensorSpec

=============================================================================
