-------------------------- MODULE AISGroupsProofs --------------------------
(***************************************************************************)
(* Proofs about AISGroups, for any talkers, message types and capacity:    *)
(* types, a bit storage that was read out, and, behind one talker that     *)
(* loses few sentences, that what is decoded is a message of that talker,  *)
(* that nothing but the rest of a broken message is ignored, and that a    *)
(* sentence taken for the next of a group is its next.                     *)
(***************************************************************************)
EXTENDS AISGroups, SequenceTheorems, TLAPS

USE ConstantsAssumption

-----------------------------------------------------------------------------
(* The operators *)

\* What follows a sentence is a sentence.
LEMMA FollowingType ==
    ASSUME TypeOK, NEW s \in Talker, NEW x \in Following(s)
    PROVE  x \in Sentence
<1>1. sent[s] \in Sentence
  BY DEF TypeOK
<1>2. CASE ~Last(sent[s])
  <2>1. x = [sent[s] EXCEPT !.part = @ + 1]
    BY <1>2 DEF Following
  <2> QED
    BY <1>1, <2>1, SMT DEF Sentence
<1>3. CASE Last(sent[s])
  <2>1. PICK k \in IF sent[s].of.id < MaxMessages THEN Kind ELSE {} :
           x = [of |-> [talker |-> s, id |-> sent[s].of.id + 1, kind |-> k], part |-> 1]
    BY <1>3 DEF Following
  <2>2. k \in Kind /\ sent[s].of.id + 1 \in 0..MaxMessages
    BY <1>1, <2>1, SMT DEF Sentence, Message
  <2> QED
    BY <2>1, <2>2, SMT DEF Sentence, Message
<1> QED
  BY <1>2, <1>3

\* The cells of a sentence are cells.
LEMMA CellsType ==
    ASSUME NEW x \in Sentence
    PROVE  CellsOf(x) \in Seq(Cell)
<1>1. CASE x.part = 1
  <2>1. CellsOf(x) = [i \in 1..3 |-> [of |-> x.of, at |-> i]]
    BY <1>1 DEF CellsOf
  <2>2. \A i \in 1..3 : [of |-> x.of, at |-> i] \in Cell
    BY SMT DEF Cell, Sentence
  <2> QED
    BY <2>1, <2>2, SMT
<1>2. CASE x.part # 1
  <2>1. CellsOf(x) = <<[of |-> x.of, at |-> x.part + 2]>>
    BY <1>2 DEF CellsOf
  <2>2. [of |-> x.of, at |-> x.part + 2] \in Cell
    BY SMT DEF Cell, Sentence
  <2> QED
    BY <2>1, <2>2
<1> QED
  BY <1>1, <1>2

\* push_back keeps what is there, stays within the array, and adds nothing to a full one.
LEMMA PushedWithin ==
    ASSUME NEW c \in Seq(Cell), NEW d \in Seq(Cell), Len(c) <= Capacity
    PROVE  /\ Pushed(c, d) \in Seq(Cell)
           /\ Len(c) <= Len(Pushed(c, d))
           /\ Len(Pushed(c, d)) <= Capacity
           /\ Len(c) = Capacity => Pushed(c, d) = c
<1>1. c \o d \in Seq(Cell) /\ Len(c \o d) = Len(c) + Len(d)
  OBVIOUS
<1>2. CASE Len(c) + Len(d) <= Capacity
  <2>1. Pushed(c, d) = c \o d
    BY <1>2 DEF Pushed
  <2>2. Len(c) = Capacity => d = <<>>
    BY <1>2
  <2> QED
    BY <1>1, <1>2, <2>1, <2>2
<1>3. CASE ~(Len(c) + Len(d) <= Capacity)
  <2>1. Pushed(c, d) = SubSeq(c \o d, 1, Capacity)
    BY <1>3 DEF Pushed
  <2>2. Capacity <= Len(c \o d)
    BY <1>1, <1>3
  <2>3. Pushed(c, d) \in Seq(Cell) /\ Len(Pushed(c, d)) = Capacity
    BY <1>1, <2>1, <2>2
  <2>4. ASSUME Len(c) = Capacity
        PROVE  Pushed(c, d) = c
    <3>1. \A i \in 1..Capacity : Pushed(c, d)[i] = c[i]
      BY <1>1, <2>1, <2>2, <2>4
    <3> QED
      BY <2>3, <2>4, <3>1, SeqEqual
  <2> QED
    BY <2>3, <2>4
<1> QED
  BY <1>2, <1>3

\* pop_front moves the front forwards, as far as the end.
LEMMA PoppedWithin ==
    ASSUME TypeOK, NEW n \in Nat
    PROVE  /\ Popped(n) \in Nat
           /\ frontPtr <= Popped(n)
           /\ Popped(n) <= Len(cells)
BY DEF TypeOK, Popped

\* How many cells a header read as some kind makes read.
LEMMA ReadAsType ==
    ASSUME TypeOK, NEW kind \in ReadAs
    PROVE  kind.reads \in Nat
<1>1. \A k \in Kind \union {NoKind} : k.reads \in Nat
  BY DEF NoKind
<1>2. kind \in Kind \union {NoKind}
  <2>1. CASE Unread = <<>>
    BY <2>1 DEF ReadAs
  <2>2. CASE Unread # <<>>
    <3>1. Unread \in Seq(Cell)
      BY DEF Unread, TypeOK
    <3>2. Unread[1] \in Cell
      BY <2>2, <3>1
    <3> QED
      BY <2>2, <3>2 DEF ReadAs, Cell, Message
  <2> QED
    BY <2>1, <2>2
<1> QED
  BY <1>1, <1>2

-----------------------------------------------------------------------------
(* Types *)

\* Every step keeps the types.
THEOREM TypeInvariant == TypeOK /\ [Next]_vars => TypeOK'
<1> SUFFICES ASSUME TypeOK, [Next]_vars
             PROVE  TypeOK'
  OBVIOUS
<1>1. ASSUME NEW s \in Talker, NEW x \in Following(s), Parse(s, x)
      PROVE  TypeOK'
  <2>1. x \in Sentence /\ x.part \in Nat
    BY FollowingType DEF Sentence
  <2>2. sent' \in [Talker -> Sentence] /\ lost' \in [Talker -> BOOLEAN]
    <3>1. Sends(s, x, FALSE)
      BY <1>1 DEF Parse
    <3>2. sent' \in [Talker -> Sentence]
      BY <2>1, <3>1 DEF Sends, TypeOK
    <3>3. lost' \in [Talker -> BOOLEAN]
      BY <3>1, Zenon DEF Sends, TypeOK
    <3> QED
      BY <3>2, <3>3
  <2>3. SeqNumber(x.of) \in 0..NumSeq - 1
    <3>1. x.of.id \in Nat /\ NumSeq \in Nat /\ NumSeq > 0
      BY <2>1 DEF Sentence, Message
    <3> QED
      BY <3>1, SMT DEF SeqNumber
  <2>4. CASE Single(s, x) \/ Start(s, x)
    <3>1. groupCompleted' \in BOOLEAN /\ lastProcessed' \in Nat
            /\ curSeqNumber' \in 0..NumSeq - 1
      <4>1. CASE Single(s, x)
        BY <4>1 DEF Single, TypeOK
      <4>2. CASE Start(s, x)
        BY <2>3, <4>2 DEF Start, TypeOK
      <4> QED
        BY <2>4, <4>1, <4>2
    <3>2. thread' \in [Talker -> [at : {"idle", "clear", "add", "test"}, sentence : Sentence]]
      <4>1. PICK at \in {"clear", "add"} : Goes(s, at, x)
        BY <2>4 DEF Single, Start, Clear
      <4> QED
        BY <2>1, <4>1 DEF Goes, TypeOK
    <3> QED
      BY <2>2, <2>4, <3>1, <3>2 DEF Single, Start, TypeOK
  <2>5. CASE Continue(s, x)
    <3>1. thread' \in [Talker -> [at : {"idle", "clear", "add", "test"}, sentence : Sentence]]
      BY <2>1, <2>5 DEF Continue, Goes, TypeOK
    <3>2. groupCompleted' \in BOOLEAN
      BY <2>5, Zenon DEF Continue, Last
    <3> QED
      BY <2>1, <2>2, <2>5, <3>1, <3>2 DEF Continue, TypeOK
  <2>6. CASE IgnoreUnstarted(s, x) \/ IgnoreOther(s, x)
    BY <2>2, <2>6 DEF IgnoreUnstarted, IgnoreOther, groupVars, TypeOK
  <2> QED
    BY <1>1, <2>4, <2>5, <2>6 DEF Parse
<1>2. ASSUME NEW s \in Talker, NEW x \in Following(s), Lose(s, x)
      PROVE  TypeOK'
  <2>1. x \in Sentence
    BY FollowingType
  <2>2. sent' \in [Talker -> Sentence]
    BY <1>2, <2>1 DEF Lose, Sends, TypeOK
  <2>3. lost' \in [Talker -> BOOLEAN]
    BY <1>2, Zenon DEF Lose, Sends, TypeOK
  <2> QED
    BY <1>2, <2>2, <2>3 DEF Lose, groupVars, TypeOK
<1>3. ASSUME NEW s \in Talker, Add(s)
      PROVE  TypeOK'
  <2>1. thread[s].sentence \in Sentence
    BY DEF TypeOK
  <2>2. /\ cells' \in Seq(Cell)
        /\ Len(cells) <= Len(cells')
        /\ Len(cells') <= Capacity
    BY <1>3, <2>1, CellsType, PushedWithin DEF Add, TypeOK
  <2>3. thread' \in [Talker -> [at : {"idle", "clear", "add", "test"}, sentence : Sentence]]
    BY <1>3, <2>1 DEF Add, Goes, TypeOK
  <2> QED
    BY <1>3, <2>2, <2>3 DEF Add, groupVars, TypeOK
<1>4. ASSUME NEW s \in Talker, Wait(s) \/ Decode(s)
      PROVE  TypeOK'
  <2>1. Nothing(s) \in Sentence
    BY SMT DEF Nothing, Sentence, Message
  <2>2. thread' \in [Talker -> [at : {"idle", "clear", "add", "test"}, sentence : Sentence]]
    BY <1>4, <2>1 DEF Wait, Decode, Goes, TypeOK
  <2>3. CASE Wait(s)
    BY <2>2, <2>3 DEF Wait, groupVars, TypeOK
  <2>4. CASE Decode(s)
    <3>1. PICK n \in Nat : frontPtr' = Popped(n)
      BY <2>4, ReadAsType DEF Decode
    <3>2. frontPtr' \in Nat /\ frontPtr' <= Len(cells)
      BY <3>1, PoppedWithin
    <3> QED
      BY <2>2, <2>4, <3>2 DEF Decode, groupVars, TypeOK
  <2> QED
    BY <1>4, <2>3, <2>4
<1>5. ASSUME NEW s \in Talker, Reset(s)
      PROVE  TypeOK'
  <2>1. thread' \in [Talker -> [at : {"idle", "clear", "add", "test"}, sentence : Sentence]]
    BY <1>5 DEF Reset, Goes, TypeOK
  <2>2. cells' = <<>> /\ frontPtr' = 0
    BY <1>5 DEF Reset
  <2> QED
    BY <1>5, <2>1, <2>2 DEF Reset, groupVars, TypeOK
<1>6. CASE UNCHANGED vars
  BY <1>6 DEF vars, TypeOK
<1> QED
  BY <1>1, <1>2, <1>3, <1>4, <1>5, <1>6 DEF Next

LEMMA TypeInit == Init => TypeOK
<1> SUFFICES ASSUME Init
             PROVE  TypeOK
  OBVIOUS
<1>1. \A s \in Talker : Nothing(s) \in Sentence
  BY SMT DEF Nothing, Sentence, Message
<1> QED
  BY <1>1 DEF Init, TypeOK

\* The parser's group and the bit storage keep their types for every choice of the
\* constants: the front never passes the end, nor the end the array.
THEOREM TypeCorrect == Spec => []TypeOK
BY TypeInit, TypeInvariant, PTL DEF Spec

-----------------------------------------------------------------------------
(* The exhausted storage *)

\* A step of any thread leaves an exhausted storage exhausted.
LEMMA DeafStep ==
    ASSUME TypeOK, [Next]_vars, Deaf
    PROVE  Deaf' /\ cells' = cells /\ Unread = <<>>
<1>1. cells \in Seq(Cell) /\ Len(cells) = Capacity /\ frontPtr = Capacity
  BY DEF TypeOK, Deaf
<1>2. Unread = <<>>
  BY <1>1 DEF Unread
<1> DEFINE Quiet == UNCHANGED <<cells, frontPtr>> /\ \A r \in Talker : thread'[r].at # "clear"
<1>3. ASSUME NEW s \in Talker, NEW at \in {"idle", "add", "test"}, NEW x, Goes(s, at, x)
      PROVE  \A r \in Talker : thread'[r].at # "clear"
  BY <1>3 DEF Goes, Deaf, TypeOK
<1>4. ASSUME NEW s \in Talker, NEW x \in Following(s), Parse(s, x)
      PROVE  Quiet
  <2>1. UNCHANGED <<cells, frontPtr>>
    BY <1>4 DEF Parse, Single, Start, IgnoreUnstarted, Continue, IgnoreOther
  <2>2. CASE Single(s, x) \/ Start(s, x)
    <3>1. Goes(s, "add", x)
      BY <1>1, <2>2 DEF Single, Start, Clear
    <3> QED
      BY <1>3, <2>1, <3>1
  <2>3. CASE Continue(s, x)
    BY <1>3, <2>1, <2>3 DEF Continue
  <2>4. CASE IgnoreUnstarted(s, x) \/ IgnoreOther(s, x)
    BY <2>1, <2>4 DEF IgnoreUnstarted, IgnoreOther, Deaf
  <2> QED
    BY <1>4, <2>2, <2>3, <2>4 DEF Parse
<1>5. ASSUME NEW s \in Talker, Add(s)
      PROVE  Quiet
  <2>1. thread[s].sentence \in Sentence
    BY DEF TypeOK
  <2>2. UNCHANGED <<cells, frontPtr>>
    BY <1>1, <1>5, <2>1, CellsType, PushedWithin DEF Add
  <2> QED
    BY <1>3, <1>5, <2>2 DEF Add
<1>6. ASSUME NEW s \in Talker, Decode(s)
      PROVE  Quiet
  <2>1. PICK n \in Nat : frontPtr' = Popped(n)
    BY <1>6, ReadAsType DEF Decode
  <2>2. Popped(n) = Capacity
    BY <1>1 DEF Popped
  <2>3. UNCHANGED <<cells, frontPtr>>
    BY <1>1, <1>6, <2>1, <2>2 DEF Decode
  <2> QED
    BY <1>3, <1>6, <2>3 DEF Decode
<1>7. ASSUME NEW s \in Talker, NEW x \in Following(s), Lose(s, x)
      PROVE  Quiet
  BY <1>7 DEF Lose, Deaf
<1>8. ASSUME NEW s \in Talker, Wait(s)
      PROVE  Quiet
  BY <1>3, <1>8 DEF Wait
<1>9. ASSUME NEW s \in Talker, Reset(s)
      PROVE  FALSE
  BY <1>9 DEF Reset, Deaf
<1>10. ASSUME UNCHANGED vars
       PROVE  Quiet
  BY <1>10 DEF vars, Deaf
<1>11. Quiet
  BY <1>4, <1>5, <1>6, <1>7, <1>8, <1>9, <1>10 DEF Next, vars, Deaf
<1> QED
  BY <1>1, <1>2, <1>11 DEF Deaf

\* Once the array was read to its end no talker's AIS message is decoded again, for any
\* number of talkers and any capacity.
THEOREM Deafness == Spec => DeafForGood
<1>1. TypeOK /\ [Next]_vars
        => [Deaf => Deaf' /\ cells' = cells /\ Unread = <<>>]_vars
  BY DeafStep
<1> QED
  BY <1>1, TypeCorrect, PTL DEF Spec, DeafForGood

-----------------------------------------------------------------------------
(* One talker *)

\* What the sentences 1 to n of message m carry.
Carried(m, n) == [i \in 1..n + 2 |-> [of |-> m, at |-> i]]

\* The last sentence sent is one of its message.
SentInv(s) ==
    /\ sent[s].part <= sent[s].of.kind.parts
    /\ IF sent[s].part = 0 THEN sent[s].of.kind.parts = 0 ELSE sent[s].of.id >= 1

\* A thread in parse is about the last sentence sent, and what is unread in the storage are
\* the sentences of its message as far as they are added.
BusyInv(s) ==
    LET x == sent[s]
    IN  thread[s].at # "idle" =>
          /\ thread[s].sentence = x
          /\ x.part >= 1
          /\ groupCompleted = Last(x)
          /\ ~Last(x) => lastProcessed = x.part /\ curSeqNumber = SeqNumber(x.of)
          /\ thread[s].at = "clear" => x.part = 1
          /\ Len(cells) < Capacity /\ thread[s].at = "add" =>
               Unread = IF x.part = 1 THEN <<>> ELSE Carried(x.of, x.part - 1)
          /\ Len(cells) < Capacity /\ thread[s].at = "test" => Unread = Carried(x.of, x.part)

\* Between two sentences an open group holds the beginning of one message, of the last one if
\* nothing of that was lost.
OpenInv(s) ==
    thread[s].at = "idle" /\ ~groupCompleted /\ Len(cells) < Capacity =>
        \E m \in Message :
            /\ Unread = Carried(m, lastProcessed)
            /\ lastProcessed >= 1
            /\ curSeqNumber = SeqNumber(m)
            /\ m.id >= 1 /\ m.id <= sent[s].of.id
            /\ m.id = sent[s].of.id \/ ~lost[s] => m = sent[s].of

\* A message that lost nothing so far is the one the group is about.
KeptInv(s) ==
    ~lost[s] =>
        IF Last(sent[s]) THEN groupCompleted
        ELSE /\ ~groupCompleted
             /\ lastProcessed = sent[s].part
             /\ curSeqNumber = SeqNumber(sent[s].of)

GroupInv == \A s \in Talker : SentInv(s) /\ BusyInv(s) /\ OpenInv(s) /\ KeptInv(s)

HIDE ConstantsAssumption

\* Two numbers that are less than n apart do not leave one remainder.
LEMMA ModuloApart ==
    ASSUME NEW n \in Nat \ {0}, NEW a \in Nat, NEW b \in Nat, a % n = b % n, b <= a, a < b + n
    PROVE  a = b
<1> DEFINE p == a \div n
           q == b \div n
<1>1. a = (n * p) + (a % n) /\ b = (n * q) + (b % n) /\ p \in Int /\ q \in Int
  OBVIOUS
<1> HIDE DEF p, q
<1>2. a - b = (n * p) - (n * q)
  BY <1>1
<1>3. CASE p > q
  <2>1. p = q + 1 + (p - q - 1) /\ p - q - 1 \in Nat
    BY <1>1, <1>3
  <2>2. n * p = n * q + n + n * (p - q - 1)
    BY <1>1
  <2>3. n * (p - q - 1) >= 0
    BY <2>1
  <2>4. n * q \in Int /\ n * p \in Int /\ n * (p - q - 1) \in Int
    BY <1>1
  <2> QED
    BY <1>2, <2>2, <2>3, <2>4
<1>4. CASE p <= q
  <2>1. n * p <= n * q
    BY <1>1, <1>4
  <2>2. n * p \in Int /\ n * q \in Int
    BY <1>1
  <2> QED
    BY <1>2, <2>1, <2>2
<1> QED
  BY <1>1, <1>3, <1>4

LEMMA CarriedSeq ==
    ASSUME NEW m \in Message, NEW n \in Nat
    PROVE  /\ Carried(m, n) \in Seq(Cell)
           /\ Len(Carried(m, n)) = n + 2
           /\ \A i \in 1..n + 2 : Carried(m, n)[i] = [of |-> m, at |-> i]
<1>1. n + 2 \in Nat /\ \A i \in 1..n + 2 : [of |-> m, at |-> i] \in Cell
  BY DEF Cell
<1>2. Carried(m, n) \in [1..n + 2 -> Cell]
  BY <1>1 DEF Carried
<1>3. Carried(m, n) \in Seq(Cell)
  BY <1>1, <1>2, SeqDef
<1>4. DOMAIN Carried(m, n) = 1..n + 2
  BY DEF Carried
<1>5. Len(Carried(m, n)) = n + 2
  BY <1>1, <1>3, <1>4, LenProperties
<1> QED
  BY <1>3, <1>5 DEF Carried

LEMMA CarriedHead ==
    ASSUME NEW m \in Message, NEW n \in Nat, Unread = Carried(m, n)
    PROVE  Unread # <<>> /\ Unread[1].of = m
<1>1. Len(Unread) = n + 2 /\ 1 \in 1..n + 2
  BY CarriedSeq
<1>2. Unread[1] = [of |-> m, at |-> 1]
  BY <1>1, CarriedSeq
<1> QED
  BY <1>1, <1>2

LEMMA TailOfConcat ==
    ASSUME NEW S, NEW c \in Seq(S), NEW d \in Seq(S), NEW f \in 0..Len(c)
    PROVE  SubSeq(c \o d, f + 1, Len(c) + Len(d)) = SubSeq(c, f + 1, Len(c)) \o d
<1> DEFINE n == Len(c)
           k == Len(d)
           u == SubSeq(c, f + 1, n)
           a == SubSeq(c \o d, f + 1, n + k)
<1>1. n \in Nat /\ k \in Nat /\ f \in Nat /\ f <= n
  OBVIOUS
<1>2. /\ c \o d \in Seq(S) /\ Len(c \o d) = n + k
      /\ \A i \in 1..n + k : (c \o d)[i] = IF i <= n THEN c[i] ELSE d[i - n]
  BY ConcatProperties
<1>3. /\ u \in Seq(S) /\ Len(u) = n - f
      /\ \A i \in 1..n - f : u[i] = c[f + i]
  OBVIOUS
<1>4. /\ a \in Seq(S) /\ Len(a) = n + k - f
      /\ \A i \in 1..n + k - f : a[i] = (c \o d)[f + i]
  <2> DEFINE e == c \o d
  <2>1. e \in Seq(S) /\ Len(e) = n + k
    BY <1>2
  <2>2. /\ \A i \in f + 1..n + k : e[i] \in S
        /\ f + 1 \in Int /\ n + k \in Int /\ (n + k) - (f + 1) + 1 = n + k - f
    BY <1>1, <2>1
  <2> HIDE DEF e, n, k
  <2>3. /\ SubSeq(e, f + 1, n + k) \in Seq(S)
        /\ Len(SubSeq(e, f + 1, n + k)) = IF f + 1 <= n + k THEN n + k - f ELSE 0
        /\ \A i \in 1..n + k - f : SubSeq(e, f + 1, n + k)[i] = e[f + 1 + i - 1]
    BY <2>2, SubSeqProperties
  <2>4. Len(SubSeq(e, f + 1, n + k)) = n + k - f
    BY <1>1, <2>3
  <2>5. \A i \in 1..n + k - f : f + 1 + i - 1 = f + i
    BY <1>1
  <2> QED
    BY <2>3, <2>4, <2>5 DEF e
<1>5. /\ u \o d \in Seq(S) /\ Len(u \o d) = n + k - f
      /\ \A i \in 1..n + k - f : (u \o d)[i] = IF i <= n - f THEN u[i] ELSE d[i - (n - f)]
  <2>1. (n - f) + k = n + k - f
    BY <1>1
  <2>2. Len(u) + Len(d) = n + k - f
    BY <1>3, <2>1
  <2> HIDE DEF u
  <2>3. /\ u \o d \in Seq(S) /\ Len(u \o d) = Len(u) + Len(d)
        /\ \A i \in 1..Len(u) + Len(d) : (u \o d)[i] = IF i <= Len(u) THEN u[i] ELSE d[i - Len(u)]
    BY <1>3, ConcatProperties
  <2> HIDE DEF n, k
  <2> QED
    BY <1>3, <2>2, <2>3
<1>6. ASSUME NEW i \in 1..n + k - f PROVE a[i] = (u \o d)[i]
  <2> HIDE DEF n, k, u, a
  <2>1. i \in Nat /\ f + i \in 1..n + k
    BY <1>1
  <2>2. CASE i <= n - f
    <3>1. i \in 1..n - f /\ f + i <= n
      BY <1>1, <2>1, <2>2
    <3> QED
      BY <1>2, <1>3, <1>4, <1>5, <2>1, <2>2, <3>1
  <2>3. CASE ~(i <= n - f)
    <3>1. ~(f + i <= n) /\ (f + i) - n = i - (n - f)
      BY <1>1, <2>1, <2>3
    <3>2. a[i] = d[(f + i) - n]
      BY <1>2, <1>4, <2>1, <3>1
    <3>3. (u \o d)[i] = d[i - (n - f)]
      BY <1>5, <2>3
    <3> QED
      BY <3>1, <3>2, <3>3
  <2> QED
    BY <2>2, <2>3
<1> HIDE DEF u, a
<1>7. a = u \o d
  BY <1>4, <1>5, <1>6, SeqEqual
<1> QED
  BY <1>7 DEF u, a

\* A sentence that fits is added to what is unread.
LEMMA AddedUnread ==
    ASSUME TypeOK, NEW d \in Seq(Cell), Len(Pushed(cells, d)) < Capacity
    PROVE  /\ Len(cells) < Capacity
           /\ SubSeq(Pushed(cells, d), frontPtr + 1, Len(Pushed(cells, d))) = Unread \o d
<1>1. /\ cells \in Seq(Cell) /\ frontPtr \in Nat /\ frontPtr <= Len(cells) /\ Capacity \in Nat
      /\ Len(cells) \in Nat /\ frontPtr \in 0..Len(cells)
  BY ConstantsAssumption DEF TypeOK
<1>2. cells \o d \in Seq(Cell) /\ Len(cells \o d) = Len(cells) + Len(d)
  BY <1>1
<1>3. Len(cells) + Len(d) <= Capacity
  <2>1. SUFFICES ASSUME ~(Len(cells) + Len(d) <= Capacity) PROVE FALSE
    OBVIOUS
  <2>2. Pushed(cells, d) = SubSeq(cells \o d, 1, Capacity)
    BY <2>1 DEF Pushed
  <2>3. Len(SubSeq(cells \o d, 1, Capacity)) = Capacity
    BY <1>1, <1>2, <2>1
  <2> QED
    BY <1>1, <2>2, <2>3
<1>4. Pushed(cells, d) = cells \o d
  BY <1>3 DEF Pushed
<1>5. SubSeq(cells \o d, frontPtr + 1, Len(cells) + Len(d)) = Unread \o d
  BY <1>1, TailOfConcat DEF Unread
<1>6. Len(cells) + Len(d) < Capacity /\ Len(d) \in Nat
  BY <1>2, <1>4
<1>7. Len(cells) < Capacity
  BY <1>1, <1>6
<1>8. SubSeq(Pushed(cells, d), frontPtr + 1, Len(Pushed(cells, d)))
        = SubSeq(cells \o d, frontPtr + 1, Len(cells) + Len(d))
  BY <1>2, <1>4
<1> QED
  BY <1>5, <1>7, <1>8

\* The cells of a sentence continue those of the ones before.
LEMMA CarriedOn ==
    ASSUME NEW x \in Sentence, x.part >= 1
    PROVE  Carried(x.of, x.part) =
             (IF x.part = 1 THEN <<>> ELSE Carried(x.of, x.part - 1)) \o CellsOf(x)
<1>1. x.part \in Nat /\ x.of \in Message
  BY DEF Sentence
<1>2. CASE x.part = 1
  <2>1. CellsOf(x) = Carried(x.of, 1)
    BY <1>2 DEF CellsOf, Carried
  <2>2. CellsOf(x) \in Seq(Cell)
    BY CellsType
  <2>3. <<>> \o CellsOf(x) = CellsOf(x)
    BY <2>2
  <2> QED
    BY <1>2, <2>1, <2>3
<1>3. CASE x.part # 1
  <2> DEFINE a == Carried(x.of, x.part)
             c == Carried(x.of, x.part - 1)
             d == [of |-> x.of, at |-> x.part + 2]
  <2>1. d \in Cell /\ CellsOf(x) = <<d>>
    BY <1>1, <1>3 DEF Cell, CellsOf
  <2>2. /\ c \in Seq(Cell) /\ Len(c) = x.part + 1
        /\ \A i \in 1..x.part + 1 : c[i] = [of |-> x.of, at |-> i]
    <3> DEFINE n == x.part - 1
    <3>1. n \in Nat /\ x.part + 1 = n + 2
      BY <1>1, <1>3
    <3>2. c = Carried(x.of, n)
      OBVIOUS
    <3> HIDE DEF n, c
    <3> QED
      BY <1>1, <3>1, <3>2, CarriedSeq
  <2>3. /\ a \in Seq(Cell) /\ Len(a) = x.part + 2
        /\ \A i \in 1..x.part + 2 : a[i] = [of |-> x.of, at |-> i]
    BY <1>1, CarriedSeq
  <2> HIDE DEF a, c, d
  <2>4. /\ <<d>> \in Seq(Cell) /\ Len(<<d>>) = 1 /\ <<d>>[1] = d
    BY <2>1
  <2>7. /\ c \o <<d>> \in Seq(Cell) /\ Len(c \o <<d>>) = x.part + 2
        /\ \A i \in 1..x.part + 2 : (c \o <<d>>)[i] = IF i <= x.part + 1 THEN c[i] ELSE <<d>>[i - (x.part + 1)]
    BY <1>1, <2>2, <2>4, ConcatProperties
  <2>5. \A i \in 1..Len(a) : a[i] = (c \o <<d>>)[i]
    <3>1. SUFFICES ASSUME NEW i \in 1..x.part + 2 PROVE a[i] = (c \o <<d>>)[i]
      BY <2>3
    <3>2. CASE i <= x.part + 1
      <4>1. i \in 1..x.part + 1
        BY <1>1, <3>2
      <4>2. c[i] = [of |-> x.of, at |-> i] /\ (c \o <<d>>)[i] = c[i]
        BY <2>2, <2>7, <3>2, <4>1
      <4> QED
        BY <2>3, <4>2
    <3>3. CASE i = x.part + 2
      <4>1. ~(i <= x.part + 1) /\ i - (x.part + 1) = 1
        BY <1>1, <3>3
      <4>2. (c \o <<d>>)[i] = d
        BY <2>4, <2>7, <4>1
      <4> QED
        BY <2>3, <3>3, <4>2 DEF d
    <3>4. i <= x.part + 1 \/ i = x.part + 2
      BY <1>1
    <3> QED
      BY <3>2, <3>3, <3>4
  <2>6. a = c \o <<d>>
    BY <2>3, <2>5, <2>7, SeqEqual
  <2> QED
    BY <1>3, <2>1, <2>6 DEF a, c
<1> QED
  BY <1>2, <1>3

LEMMA FollowingSent ==
    ASSUME TypeOK, NEW s \in Talker, SentInv(s), NEW x \in Following(s)
    PROVE  /\ x \in Sentence /\ x.part \in Nat /\ x.of.id \in Nat
           /\ x.part >= 1 /\ x.part <= x.of.kind.parts /\ x.of.id >= 1
           /\ IF x.part = 1 THEN x.of.id > sent[s].of.id
              ELSE x.of = sent[s].of /\ x.part - 1 = sent[s].part /\ ~Last(sent[s])
<1>1. /\ sent[s] \in Sentence /\ sent[s].part \in Nat /\ sent[s].of \in Message
      /\ sent[s].of.id \in Nat /\ sent[s].of.kind.parts \in Nat
  <2>1. sent[s] \in Sentence
    BY DEF TypeOK
  <2>2. sent[s].of \in Message /\ sent[s].part \in Nat
    BY <2>1 DEF Sentence
  <2>3. sent[s].of.id \in 0..MaxMessages /\ sent[s].of.kind \in Kind \union {NoKind}
    BY <2>2 DEF Message
  <2> QED
    BY <2>1, <2>2, <2>3, ConstantsAssumption DEF NoKind
<1>2. x \in Sentence /\ x.part \in Nat /\ x.of.id \in Nat
  <2>1. x \in Sentence
    BY FollowingType
  <2>2. x.of \in Message /\ x.part \in Nat
    BY <2>1 DEF Sentence
  <2> QED
    BY <2>1, <2>2, ConstantsAssumption DEF Message
<1>3. CASE ~Last(sent[s])
  <2>1. x = [sent[s] EXCEPT !.part = sent[s].part + 1]
    BY <1>3 DEF Following
  <2>2. x.of = sent[s].of /\ x.part = sent[s].part + 1
    BY <1>1, <2>1 DEF Sentence
  <2>3. sent[s].part # 0 /\ sent[s].part < sent[s].of.kind.parts
    BY <1>1, <1>3 DEF SentInv, Last
  <2> QED
    BY <1>1, <1>2, <1>3, <2>2, <2>3 DEF SentInv
<1>4. CASE Last(sent[s])
  <2>1. PICK k \in Kind : x = [of |-> [talker |-> s, id |-> sent[s].of.id + 1, kind |-> k], part |-> 1]
    BY <1>4 DEF Following
  <2>2. x.part = 1 /\ x.of.id = sent[s].of.id + 1 /\ x.of.kind = k
    BY <2>1
  <2>3. k.parts \in Nat /\ k.parts >= 1
    BY ConstantsAssumption
  <2> QED
    BY <1>1, <1>2, <2>2, <2>3
<1> QED
  BY <1>3, <1>4

\* What sending x makes of the histories.
LEMMA SendsEffect ==
    ASSUME TypeOK, NEW s \in Talker, NEW x, NEW isLost \in BOOLEAN, Sends(s, x, isLost)
    PROVE  sent'[s] = x /\ lost'[s] = (isLost \/ (x.part > 1 /\ lost[s]))
BY DEF TypeOK, Sends

LEMMA GoesEffect ==
    ASSUME TypeOK, NEW s \in Talker, NEW at, NEW x, Goes(s, at, x)
    PROVE  thread'[s] = [at |-> at, sentence |-> x] /\ thread'[s].at = at /\ thread'[s].sentence = x
BY DEF TypeOK, Goes

\* A first sentence begins with an empty storage or one to be cleared.
LEMMA FirstParsed ==
    ASSUME TypeOK, NEW s \in Talker, SentInv(s), NEW x \in Following(s), Parse(s, x),
           Single(s, x) \/ Start(s, x)
    PROVE  SentInv(s)' /\ BusyInv(s)' /\ OpenInv(s)' /\ KeptInv(s)'
<1>1. /\ x.part \in Nat /\ x.part >= 1 /\ x.part <= x.of.kind.parts /\ x.of.id >= 1
      /\ x.of.kind.parts = 1 => x.part = 1
  BY FollowingSent
<1>2. sent'[s] = x
  BY SendsEffect DEF Parse
<1>3. /\ x.part = 1 /\ groupCompleted' = Last(x) /\ lastProcessed' = 1
      /\ ~Last(x) => curSeqNumber' = SeqNumber(x.of)
      /\ UNCHANGED <<cells, frontPtr>> /\ Clear(s, x)
  <2>1. CASE Single(s, x)
    <3>1. Last(x) = TRUE /\ x.part = 1
      BY <1>1, <2>1 DEF Single, Last
    <3> QED
      BY <2>1, <3>1 DEF Single
  <2>2. CASE Start(s, x)
    <3>1. Last(x) = FALSE
      BY <1>1, <2>2 DEF Start, Last
    <3> QED
      BY <2>2, <3>1 DEF Start
  <2> QED
    BY <2>1, <2>2
<1>4. /\ thread'[s].sentence = x
      /\ thread'[s].at = IF frontPtr < Len(cells) THEN "clear" ELSE "add"
  BY <1>3, GoesEffect DEF Clear
<1>5. ASSUME thread'[s].at = "add" PROVE Unread' = <<>>
  <2>1. ~(frontPtr < Len(cells)) /\ frontPtr \in Nat /\ Len(cells) \in Nat
    BY <1>4, <1>5 DEF TypeOK
  <2>2. Unread = <<>>
    BY <2>1, SubSeqEmpty DEF Unread
  <2> QED
    BY <1>3, <2>2 DEF Unread
<1>6. SentInv(s)'
  BY <1>1, <1>2, <1>3 DEF SentInv
<1>7. BusyInv(s)'
  BY <1>2, <1>3, <1>4, <1>5 DEF BusyInv
<1>8. OpenInv(s)'
  BY <1>4 DEF OpenInv
<1>9. KeptInv(s)'
  BY <1>2, <1>3 DEF KeptInv
<1> QED
  BY <1>6, <1>7, <1>8, <1>9

\* The group that waits for sentence x is that of its message, if few were lost.
LEMMA SameMessage ==
    ASSUME TypeOK, NEW s \in Talker, SentInv(s), OpenInv(s), FewLost,
           NEW x \in Following(s), x.part # 1, SameGroup(x),
           thread[s].at = "idle", ~groupCompleted, Len(cells) < Capacity
    PROVE  Unread = Carried(x.of, x.part - 1)
<1>1. /\ x.part \in Nat /\ x.of.id \in Nat /\ x.of = sent[s].of
  BY FollowingSent
<1>2. PICK m \in Message :
        /\ Unread = Carried(m, lastProcessed) /\ lastProcessed >= 1
        /\ curSeqNumber = SeqNumber(m) /\ m.id <= sent[s].of.id
        /\ m.id = sent[s].of.id => m = sent[s].of
  BY DEF OpenInv
<1>3. lastProcessed \in Nat /\ m.id \in Nat /\ NumSeq \in Nat \ {0}
  BY ConstantsAssumption DEF TypeOK, Message
<1>4. Unread # <<>> /\ Unread[1].of = m
  BY <1>2, <1>3, CarriedHead
<1>5. x.of.id < m.id + NumSeq
  BY <1>1, <1>4 DEF FewLost
<1>6. x.of.id % NumSeq = m.id % NumSeq
  BY <1>2 DEF SameGroup, SeqNumber
<1>7. x.of.id = m.id
  BY <1>1, <1>2, <1>3, <1>5, <1>6, ModuloApart
<1> QED
  BY <1>1, <1>2, <1>7 DEF SameGroup

\* A sentence that is ignored is of a message that lost one.
LEMMA IgnoredLost ==
    ASSUME TypeOK, NEW s \in Talker, SentInv(s), KeptInv(s), NEW x \in Following(s),
           IgnoreUnstarted(s, x) \/ IgnoreOther(s, x)
    PROVE  lost[s] /\ x.part > 1
<1>1. /\ x.part \in Nat /\ x.part >= 1 /\ x.part # 1 /\ x.of = sent[s].of
      /\ x.part - 1 = sent[s].part /\ ~Last(sent[s])
  BY FollowingSent DEF IgnoreUnstarted, IgnoreOther
<1> QED
  BY <1>1 DEF KeptInv, IgnoreUnstarted, IgnoreOther, SameGroup

\* What is sent and not parsed leaves the group as it was.
LEMMA Passed ==
    ASSUME TypeOK, NEW s \in Talker, SentInv(s), OpenInv(s), NEW x \in Following(s),
           thread[s].at = "idle", sent'[s] = x, lost'[s],
           UNCHANGED <<groupVars, cells, frontPtr, thread>>
    PROVE  SentInv(s)' /\ BusyInv(s)' /\ OpenInv(s)' /\ KeptInv(s)'
<1>1. /\ x.part \in Nat /\ x.part >= 1 /\ x.part <= x.of.kind.parts /\ x.of.id >= 1
      /\ x.of.id \in Nat
      /\ x.of.id > sent[s].of.id \/ x.of = sent[s].of
  BY FollowingSent
<1>2. sent[s].of.id \in Nat
  BY ConstantsAssumption DEF TypeOK, Sentence, Message
<1>3. SentInv(s)' /\ BusyInv(s)' /\ KeptInv(s)'
  BY <1>1 DEF SentInv, BusyInv, KeptInv
<1>4. OpenInv(s)'
  <2>1. SUFFICES ASSUME ~groupCompleted, Len(cells) < Capacity
                 PROVE  \E m \in Message :
                          /\ Unread' = Carried(m, lastProcessed')
                          /\ lastProcessed' >= 1
                          /\ curSeqNumber' = SeqNumber(m)
                          /\ m.id >= 1 /\ m.id <= sent'[s].of.id
                          /\ m.id = sent'[s].of.id \/ ~lost'[s] => m = sent'[s].of
    BY DEF OpenInv, groupVars
  <2>2. PICK m \in Message :
          /\ Unread = Carried(m, lastProcessed) /\ lastProcessed >= 1
          /\ curSeqNumber = SeqNumber(m) /\ m.id >= 1 /\ m.id <= sent[s].of.id
          /\ m.id = sent[s].of.id => m = sent[s].of
    BY <2>1 DEF OpenInv
  <2>3. m.id \in Nat
    BY ConstantsAssumption DEF Message
  <2>4. m.id <= x.of.id /\ (m.id = x.of.id => m = x.of)
    BY <1>1, <1>2, <2>2, <2>3
  <2>5. UNCHANGED <<Unread, lastProcessed, curSeqNumber>>
    BY DEF Unread, groupVars
  <2> QED
    BY <2>2, <2>4, <2>5
<1> QED
  BY <1>3, <1>4

LEMMA Continued ==
    ASSUME TypeOK, NEW s \in Talker, SentInv(s), OpenInv(s), FewLost, NEW x \in Following(s),
           Parse(s, x), Continue(s, x)
    PROVE  SentInv(s)' /\ BusyInv(s)' /\ OpenInv(s)' /\ KeptInv(s)'
<1>1. /\ x.part \in Nat /\ x.part >= 1 /\ x.part <= x.of.kind.parts /\ x.of.id >= 1
  BY FollowingSent
<1>2. sent'[s] = x /\ thread[s].at = "idle"
  BY SendsEffect DEF Parse
<1>3. /\ x.part # 1 /\ ~groupCompleted /\ SameGroup(x) /\ lastProcessed' = x.part
      /\ groupCompleted' = Last(x) /\ UNCHANGED <<curSeqNumber, cells, frontPtr>>
      /\ thread'[s].at = "add" /\ thread'[s].sentence = x
  BY GoesEffect DEF Continue
<1>4. Len(cells) < Capacity => Unread = Carried(x.of, x.part - 1)
  BY <1>2, <1>3, SameMessage
<1>5. Len(cells') < Capacity => Unread' = Carried(x.of, x.part - 1)
  BY <1>3, <1>4 DEF Unread
<1>6. curSeqNumber' = SeqNumber(x.of)
  BY <1>3 DEF SameGroup
<1>7. SentInv(s)'
  BY <1>1, <1>2 DEF SentInv
<1>8. BusyInv(s)'
  BY <1>1, <1>2, <1>3, <1>5, <1>6 DEF BusyInv
<1>9. OpenInv(s)' /\ KeptInv(s)'
  BY <1>2, <1>3, <1>6 DEF OpenInv, KeptInv
<1> QED
  BY <1>7, <1>8, <1>9

LEMMA ThreadSteps ==
    ASSUME TypeOK, NEW s \in Talker, SentInv(s), BusyInv(s), OpenInv(s), KeptInv(s),
           Reset(s) \/ Add(s) \/ Wait(s) \/ Decode(s)
    PROVE  SentInv(s)' /\ BusyInv(s)' /\ OpenInv(s)' /\ KeptInv(s)'
<1> DEFINE x == sent[s]
<1>1. /\ x \in Sentence /\ x.part \in Nat /\ x.of \in Message /\ x.part >= 1 /\ x.of.id >= 1
      /\ x.of.id \in Nat /\ thread[s].sentence = x /\ thread[s].at # "idle"
  <2>1. thread[s].at # "idle"
    BY DEF Reset, Add, Wait, Decode
  <2>2. x \in Sentence /\ x.part >= 1 /\ thread[s].sentence = x
    BY <2>1 DEF TypeOK, BusyInv
  <2>3. x.part \in Nat /\ x.of \in Message
    BY <2>2 DEF Sentence
  <2>4. x.of.id >= 1 /\ x.of.id \in Nat
    BY <2>2, <2>3, ConstantsAssumption DEF SentInv, Message
  <2> QED
    BY <2>1, <2>2, <2>3, <2>4
<1>2. UNCHANGED <<groupVars, sent, lost>>
  BY DEF Reset, Add, Wait, Decode
<1>3. SentInv(s)' /\ KeptInv(s)'
  BY <1>2 DEF SentInv, KeptInv, groupVars
<1>4. /\ groupCompleted = Last(x)
      /\ ~Last(x) => lastProcessed = x.part /\ curSeqNumber = SeqNumber(x.of)
  BY <1>1 DEF BusyInv
<1>5. CASE Reset(s)
  <2>1. /\ thread'[s].at = "add" /\ thread'[s].sentence = x /\ x.part = 1
        /\ cells' = <<>> /\ frontPtr' = 0
    BY <1>1, <1>5, GoesEffect DEF Reset, BusyInv
  <2>2. Unread' = <<>>
    BY <2>1 DEF Unread
  <2> QED
    BY <1>1, <1>2, <1>3, <1>4, <2>1, <2>2 DEF BusyInv, OpenInv, groupVars
<1>6. CASE Add(s)
  <2>1. /\ thread'[s].at = "test" /\ thread'[s].sentence = x /\ thread[s].at = "add"
        /\ cells' = Pushed(cells, CellsOf(x)) /\ frontPtr' = frontPtr
    BY <1>1, <1>6, GoesEffect DEF Add
  <2>2. ASSUME Len(cells') < Capacity PROVE Unread' = Carried(x.of, x.part)
    <3>1. CellsOf(x) \in Seq(Cell)
      BY <1>1, CellsType
    <3>2. Len(cells) < Capacity /\ Unread' = Unread \o CellsOf(x)
      BY <2>1, <2>2, <3>1, AddedUnread DEF Unread
    <3>3. Unread = IF x.part = 1 THEN <<>> ELSE Carried(x.of, x.part - 1)
      BY <2>1, <3>2 DEF BusyInv
    <3> QED
      BY <1>1, <3>2, <3>3, CarriedOn
  <2> QED
    BY <1>1, <1>2, <1>3, <1>4, <2>1, <2>2 DEF BusyInv, OpenInv, groupVars
<1>7. CASE Wait(s)
  <2>1. /\ thread'[s].at = "idle" /\ thread[s].at = "test" /\ ~groupCompleted
        /\ UNCHANGED <<cells, frontPtr>>
    BY <1>7, GoesEffect DEF Wait
  <2>2. Len(cells) < Capacity => Unread = Carried(x.of, lastProcessed)
    BY <1>4, <2>1 DEF BusyInv
  <2>3. lastProcessed' >= 1 /\ curSeqNumber' = SeqNumber(x.of)
          /\ lastProcessed' = lastProcessed /\ Unread' = Unread
    BY <1>1, <1>2, <1>4, <2>1 DEF groupVars, Unread
  <2>4. OpenInv(s)'
    BY <1>1, <1>2, <2>1, <2>2, <2>3 DEF OpenInv
  <2> QED
    BY <1>3, <2>1, <2>4 DEF BusyInv
<1>8. CASE Decode(s)
  <2>1. thread'[s].at = "idle" /\ groupCompleted'
    <3>1. groupCompleted /\ groupCompleted' = groupCompleted
      BY <1>2, <1>8 DEF Decode, groupVars
    <3>2. Goes(s, "idle", Nothing(s))
      BY <1>8 DEF Decode
    <3>3. thread'[s].at = "idle"
      BY <3>2, GoesEffect
    <3> QED
      BY <3>1, <3>3
  <2> QED
    BY <1>3, <2>1 DEF BusyInv, OpenInv
<1> QED
  BY <1>5, <1>6, <1>7, <1>8

LEMMA GroupInit == Init => GroupInv
<1> SUFFICES ASSUME Init, NEW s \in Talker
             PROVE  SentInv(s) /\ BusyInv(s) /\ OpenInv(s) /\ KeptInv(s)
  BY DEF GroupInv
<1>1. /\ sent[s].part = 0 /\ sent[s].of.kind.parts = 0 /\ groupCompleted
      /\ thread[s].at = "idle"
  BY DEF Init, Nothing, NoKind
<1> QED
  BY <1>1 DEF SentInv, BusyInv, OpenInv, KeptInv, Last

LEMMA GroupStep ==
    OneTalker => (TypeOK /\ GroupInv /\ FewLost /\ [Next]_vars => GroupInv')
<1> SUFFICES ASSUME NEW s \in Talker, Talker = {s}, TypeOK, GroupInv, FewLost, [Next]_vars
             PROVE  SentInv(s)' /\ BusyInv(s)' /\ OpenInv(s)' /\ KeptInv(s)'
  BY DEF OneTalker, GroupInv
<1>1. SentInv(s) /\ BusyInv(s) /\ OpenInv(s) /\ KeptInv(s)
  BY DEF GroupInv
<1>2. ASSUME NEW x \in Following(s), Parse(s, x)
      PROVE  SentInv(s)' /\ BusyInv(s)' /\ OpenInv(s)' /\ KeptInv(s)'
  <2>1. CASE IgnoreUnstarted(s, x) \/ IgnoreOther(s, x)
    <3>1. lost[s] /\ x.part > 1
      BY <1>1, <2>1, IgnoredLost
    <3>2. sent'[s] = x /\ lost'[s]
      BY <1>2, <3>1, SendsEffect DEF Parse
    <3>3. thread[s].at = "idle" /\ UNCHANGED <<groupVars, cells, frontPtr, thread>>
      BY <1>2, <2>1 DEF Parse, IgnoreUnstarted, IgnoreOther
    <3> QED
      BY <1>1, <3>2, <3>3, Passed
  <2> QED
    BY <1>1, <1>2, <2>1, FirstParsed, Continued DEF Parse
<1>3. ASSUME NEW x \in Following(s), Lose(s, x)
      PROVE  SentInv(s)' /\ BusyInv(s)' /\ OpenInv(s)' /\ KeptInv(s)'
  <2>1. sent'[s] = x /\ lost'[s]
    BY <1>3, SendsEffect DEF Lose
  <2>2. thread[s].at = "idle" /\ UNCHANGED <<groupVars, cells, frontPtr, thread>>
    BY <1>3 DEF Lose
  <2> QED
    BY <1>1, <2>1, <2>2, Passed
<1>4. CASE Reset(s) \/ Add(s) \/ Wait(s) \/ Decode(s)
  BY <1>1, <1>4, ThreadSteps
<1>5. CASE UNCHANGED vars
  BY <1>1, <1>5 DEF vars, SentInv, BusyInv, OpenInv, KeptInv, Unread
<1> QED
  BY <1>2, <1>3, <1>4, <1>5 DEF Next

\* Every message one talker's group is decoded from is one whole message of it, for any kinds
\* of messages, any capacity and any losses but those of NumSeq messages in a row.
THEOREM MessagesWhole == OneTalker => (Spec /\ []FewLost => DecodedWhole)
<1> SUFFICES ASSUME OneTalker PROVE Spec /\ []FewLost => DecodedWhole
  OBVIOUS
<1>1. TypeOK /\ GroupInv /\ [Next]_vars
        => [\A s \in Talker :
              Decode(s) /\ Len(cells) < Capacity => Unread # <<>> /\ Whole(Unread)]_vars
  <2> SUFFICES ASSUME TypeOK, GroupInv, NEW s \in Talker, Decode(s), Len(cells) < Capacity
               PROVE  Unread # <<>> /\ Whole(Unread)
    OBVIOUS
  <2> DEFINE x == sent[s]
  <2>1. x.of \in Message /\ x.part \in Nat
    BY DEF TypeOK, Sentence
  <2>2. Unread = Carried(x.of, x.part) /\ x.part = x.of.kind.parts
    BY DEF Decode, GroupInv, BusyInv, Last
  <2>3. Unread # <<>> /\ Unread[1].of = x.of
    BY <2>1, <2>2, CarriedHead
  <2> QED
    BY <2>2, <2>3 DEF Whole, Carried
<1>2. TypeOK /\ GroupInv /\ FewLost /\ [Next]_vars => TypeOK' /\ GroupInv'
  BY GroupStep, TypeInvariant
<1> QED
  BY <1>1, <1>2, TypeInit, GroupInit, PTL DEF Spec, DecodedWhole

\* The storage has room left.
NotFull == Len(cells) < Capacity

\* It takes a second talker, or many lost messages, to mix two messages in one group: what a
\* single talker's sentence is added to are the sentences of its own message.
THEOREM AloneContinues == OneTalker => (Spec /\ []FewLost /\ []NotFull => ContinuesItsGroup)
<1> SUFFICES ASSUME OneTalker PROVE Spec /\ []FewLost /\ []NotFull => ContinuesItsGroup
  OBVIOUS
<1>1. TypeOK /\ GroupInv /\ FewLost /\ NotFull
        => [\A s \in Talker :
              \A x \in Following(s) :
                Parse(s, x) /\ x.part > 1 /\ thread' # thread
                  => \A i \in 1..Len(Unread) : Unread[i].of = x.of]_vars
  <2> SUFFICES ASSUME TypeOK, GroupInv, FewLost, NotFull, NEW s \in Talker,
                      NEW x \in Following(s), Parse(s, x), x.part > 1, thread' # thread
               PROVE  \A i \in 1..Len(Unread) : Unread[i].of = x.of
    OBVIOUS
  <2>1. SentInv(s) /\ OpenInv(s)
    BY DEF GroupInv
  <2>2. /\ x \in Sentence /\ x.part \in Nat /\ x.part <= x.of.kind.parts /\ x.part # 1
    BY <2>1, FollowingSent
  <2>3. Continue(s, x)
    BY <2>2 DEF Parse, Single, Start, IgnoreUnstarted, IgnoreOther
  <2>4. Unread = Carried(x.of, x.part - 1)
    BY <2>1, <2>2, <2>3, SameMessage DEF Parse, Continue, NotFull
  <2>5. x.of \in Message /\ x.part - 1 \in Nat
    BY <2>2 DEF Sentence
  <2> DEFINE n == x.part - 1
  <2> HIDE DEF n
  <2>6. /\ Len(Unread) = n + 2
        /\ \A i \in 1..n + 2 : Unread[i] = [of |-> x.of, at |-> i]
    BY <2>4, <2>5, CarriedSeq DEF n
  <2> QED
    BY <2>6
<1>2. TypeOK /\ GroupInv /\ FewLost /\ [Next]_vars => TypeOK' /\ GroupInv'
  BY GroupStep, TypeInvariant
<1> QED
  BY <1>1, <1>2, TypeInit, GroupInit, PTL DEF Spec, ContinuesItsGroup

\* Without losses, or with no more messages than there are sequence numbers, no group is left
\* open for too long.
LossInv == ~Lossy => \A s \in Talker : ~lost[s]

LEMMA LossStep == TypeOK /\ LossInv /\ [Next]_vars => LossInv'
<1> SUFFICES ASSUME TypeOK, LossInv, [Next]_vars, ~Lossy, NEW r \in Talker PROVE ~lost'[r]
  BY DEF LossInv
<1>1. ~lost[r]
  BY DEF LossInv
<1>2. ASSUME NEW s \in Talker, NEW x \in Following(s), Parse(s, x) PROVE ~lost'[r]
  <2>1. lost' = [lost EXCEPT ![s] = FALSE \/ (x.part > 1 /\ @)]
    BY <1>2 DEF Parse, Sends
  <2> QED
    BY <1>1, <2>1 DEF TypeOK
<1>3. ASSUME NEW s \in Talker, NEW x \in Following(s), Lose(s, x) PROVE FALSE
  BY <1>3 DEF Lose
<1>4. ASSUME NEW s \in Talker, Reset(s) \/ Add(s) \/ Wait(s) \/ Decode(s) PROVE lost' = lost
  BY <1>4 DEF Reset, Add, Wait, Decode
<1>5. UNCHANGED vars => lost' = lost
  BY DEF vars
<1> QED
  BY <1>1, <1>2, <1>3, <1>4, <1>5 DEF Next

THEOREM FewAreLost ==
    OneTalker /\ (~Lossy \/ MaxMessages <= NumSeq) => (Spec => []FewLost)
<1> SUFFICES ASSUME OneTalker, ~Lossy \/ MaxMessages <= NumSeq PROVE Spec => []FewLost
  OBVIOUS
<1>1. TypeOK /\ GroupInv /\ LossInv => FewLost
  <2> SUFFICES ASSUME TypeOK, GroupInv, LossInv, ~groupCompleted, Len(cells) < Capacity,
                      NEW s \in Talker, thread[s].at = "idle"
               PROVE  sent[s].of.id < Unread[1].of.id + NumSeq
    BY DEF FewLost
  <2>1. PICK m \in Message :
          /\ Unread = Carried(m, lastProcessed) /\ m.id >= 1
          /\ ~lost[s] => m = sent[s].of
    BY DEF GroupInv, OpenInv
  <2>2. Unread[1].of = m
    BY <2>1, CarriedHead DEF TypeOK
  <2>3. /\ sent[s].of.id \in 0..MaxMessages /\ m.id \in 0..MaxMessages
        /\ MaxMessages \in Nat /\ NumSeq \in Nat \ {0}
    BY ConstantsAssumption DEF TypeOK, Sentence, Message
  <2>4. CASE ~Lossy
    BY <2>1, <2>2, <2>3, <2>4 DEF LossInv
  <2>5. CASE MaxMessages <= NumSeq
    BY <2>1, <2>2, <2>3, <2>5
  <2> QED
    BY <2>4, <2>5
<1>2. TypeOK /\ GroupInv /\ LossInv /\ FewLost /\ [Next]_vars => TypeOK' /\ GroupInv' /\ LossInv'
  BY GroupStep, TypeInvariant, LossStep
<1>3. Init => LossInv
  BY DEF Init, LossInv
<1> QED
  BY <1>1, <1>2, <1>3, TypeInit, GroupInit, PTL DEF Spec

\* The history of losses does not depend on the storage.
KeptTalkers == \A s \in Talker : SentInv(s) /\ KeptInv(s)

LEMMA KeptTalkersStep == OneTalker => (TypeOK /\ KeptTalkers /\ [Next]_vars => KeptTalkers')
<1> SUFFICES ASSUME NEW s \in Talker, Talker = {s}, TypeOK, KeptTalkers, [Next]_vars
             PROVE  SentInv(s)' /\ KeptInv(s)'
  BY DEF OneTalker, KeptTalkers
<1>1. SentInv(s) /\ KeptInv(s)
  BY DEF KeptTalkers
<1>2. ASSUME NEW x \in Following(s), sent'[s] = x
      PROVE  /\ SentInv(s)' /\ x.part \in Nat /\ x.part >= 1
             /\ x.part # 1 => x.of = sent[s].of /\ x.part > 1
  BY <1>1, <1>2, FollowingSent DEF SentInv
<1>3. ASSUME NEW x \in Following(s), Parse(s, x) PROVE SentInv(s)' /\ KeptInv(s)'
  <2>1. sent'[s] = x /\ SentInv(s)'
    BY <1>2, <1>3, SendsEffect DEF Parse
  <2>2. CASE IgnoreUnstarted(s, x) \/ IgnoreOther(s, x)
    <3>1. lost'[s]
      BY <1>1, <1>3, <2>2, IgnoredLost, SendsEffect DEF Parse
    <3> QED
      BY <2>1, <3>1 DEF KeptInv
  <2>3. CASE Single(s, x) \/ Start(s, x)
    BY <1>1, <1>3, <2>3, FirstParsed
  <2>4. CASE Continue(s, x)
    <3>1. /\ lastProcessed' = x.part /\ groupCompleted' = Last(x)
          /\ curSeqNumber' = SeqNumber(x.of)
      BY <2>4 DEF Continue, SameGroup
    <3> QED
      BY <2>1, <3>1 DEF KeptInv
  <2> QED
    BY <1>3, <2>2, <2>3, <2>4 DEF Parse
<1>4. ASSUME NEW x \in Following(s), Lose(s, x) PROVE SentInv(s)' /\ KeptInv(s)'
  <2>1. sent'[s] = x /\ lost'[s]
    BY <1>4, SendsEffect DEF Lose
  <2> QED
    BY <1>2, <2>1 DEF KeptInv
<1>5. CASE Reset(s) \/ Add(s) \/ Wait(s) \/ Decode(s) \/ UNCHANGED vars
  <2>1. UNCHANGED <<groupCompleted, lastProcessed, curSeqNumber, sent, lost>>
    BY <1>5 DEF Reset, Add, Wait, Decode, groupVars, vars
  <2> QED
    BY <1>1, <2>1 DEF SentInv, KeptInv
<1> QED
  BY <1>3, <1>4, <1>5 DEF Next

\* The parser ignores no sentence of a single talker's message that has lost none, for any
\* kinds of messages and whatever was lost before.
THEOREM IgnoredMissing == OneTalker => (Spec => IgnoredOnlyIfMissing)
<1> SUFFICES ASSUME OneTalker PROVE Spec => IgnoredOnlyIfMissing
  OBVIOUS
<1>1. TypeOK /\ KeptTalkers
        => [\A s \in Talker : \A x \in Following(s) :
              Parse(s, x) /\ thread' = thread => lost[s]]_vars
  <2> SUFFICES ASSUME TypeOK, KeptTalkers, NEW s \in Talker, NEW x \in Following(s),
                      Parse(s, x), thread' = thread
               PROVE  lost[s]
    OBVIOUS
  <2>1. thread[s].at = "idle"
    BY DEF Parse
  <2>2. ASSUME NEW at \in {"add", "clear"}, Goes(s, at, x) PROVE FALSE
    BY <2>1, <2>2, GoesEffect
  <2>3. ~Single(s, x) /\ ~Start(s, x) /\ ~Continue(s, x)
    BY <2>2 DEF Single, Start, Continue, Clear
  <2> QED
    BY <2>3, IgnoredLost DEF Parse, KeptTalkers
<1>2. Init => KeptTalkers
  BY GroupInit DEF GroupInv, KeptTalkers
<1> QED
  BY <1>1, <1>2, TypeInit, TypeInvariant, KeptTalkersStep, PTL DEF Spec, IgnoredOnlyIfMissing

=============================================================================
