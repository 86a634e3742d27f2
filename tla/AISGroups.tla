----------------------------- MODULE AISGroups -----------------------------
(***************************************************************************)
(* VDM::parse: how the sentences that carry one AIS message are put        *)
(* together. There is one NmeaParsers object, so the processor threads of  *)
(* all sensors share its VDM parser: the state of the group and the bit    *)
(* storage, without a mutex.                                               *)
(*                                                                         *)
(* A thread's pass through parse is cut in four: what it decides, the      *)
(* reset of a storage found not empty, what it adds, what it decodes. The  *)
(* threads can also race inside one of these; that is left out.            *)
(*                                                                         *)
(* The storage holds cells. A message is its type, its MMSI and a cell of  *)
(* body in each sentence.                                                  *)
(***************************************************************************)
EXTENDS Naturals, Sequences

CONSTANTS
    Talker,       \* sensors that deliver AIS sentences
    Kind,         \* message types: how many sentences, how many body cells are read
    NumSeq,       \* sequential message identifiers a talker uses in turn (10)
    Capacity,     \* sizeof (data) of the BitContainer (0xFFFF bits)
    Lossy,        \* TRUE: sentences may be lost before they are parsed
    MaxMessages   \* bound: messages per talker

ASSUME ConstantsAssumption ==
    /\ Kind \subseteq [parts : Nat \ {0}, reads : Nat]
    /\ NumSeq \in Nat \ {0}
    /\ Capacity \in Nat
    /\ Lossy \in BOOLEAN
    /\ MaxMessages \in Nat

VARIABLES
    groupCompleted, lastProcessed, curSeqNumber,   \* as in VDM
    cells,      \* data [0 .. backPtr) of the container
    frontPtr,
    thread,     \* where each sensor's thread is in parse, and with which sentence
    sent,       \* the last sentence each talker has sent
    lost        \* whether a sentence of that message was lost (history)

groupVars == <<groupCompleted, lastProcessed, curSeqNumber>>
vars == <<groupCompleted, lastProcessed, curSeqNumber, cells, frontPtr, thread, sent, lost>>

NoKind   == [parts |-> 0, reads |-> 0]
Message  == [talker : Talker, id : 0..MaxMessages, kind : Kind \union {NoKind}]
Sentence == [of : Message, part : Nat]
Cell     == [of : Message, at : Nat]

TypeOK ==
    /\ groupCompleted \in BOOLEAN
    /\ lastProcessed \in Nat
    /\ curSeqNumber \in 0..NumSeq - 1
    /\ cells \in Seq(Cell)
    /\ frontPtr \in Nat
    /\ frontPtr <= Len(cells) /\ Len(cells) <= Capacity
    /\ thread \in [Talker -> [at : {"idle", "clear", "add", "test"}, sentence : Sentence]]
    /\ sent \in [Talker -> Sentence]
    /\ lost \in [Talker -> BOOLEAN]

Nothing(s) == [of |-> [talker |-> s, id |-> 0, kind |-> NoKind], part |-> 0]

Init ==
    /\ groupCompleted = TRUE
    /\ lastProcessed = 0
    /\ curSeqNumber = 0
    /\ cells = <<>>
    /\ frontPtr = 0
    /\ thread = [s \in Talker |-> [at |-> "idle", sentence |-> Nothing(s)]]
    /\ sent = [s \in Talker |-> Nothing(s)]
    /\ lost = [s \in Talker |-> FALSE]

-----------------------------------------------------------------------------
(* What the talkers send *)

Last(x) == x.part = x.of.kind.parts

\* The sentence after the last one, of the same message or the first of the next.
Following(s) ==
    IF ~Last(sent[s])
      THEN {[sent[s] EXCEPT !.part = @ + 1]}
      ELSE {[of |-> [talker |-> s, id |-> sent[s].of.id + 1, kind |-> k], part |-> 1] :
              k \in IF sent[s].of.id < MaxMessages THEN Kind ELSE {}}

SeqNumber(m) == m.id % NumSeq

\* A sentence is sent: its message has lost one if it had, or if this one is.
Sends(s, x, isLost) ==
    /\ sent' = [sent EXCEPT ![s] = x]
    /\ lost' = [lost EXCEPT ![s] = isLost \/ (x.part > 1 /\ @)]

-----------------------------------------------------------------------------
(* SixBitStorage and BitContainer *)

Unread == SubSeq(cells, frontPtr + 1, Len(cells))

\* The cells a sentence carries: the header is in the first.
CellsOf(x) ==
    IF x.part = 1 THEN [i \in 1..3 |-> [of |-> x.of, at |-> i]]
                  ELSE <<[of |-> x.of, at |-> x.part + 2]>>

\* Mutant: push_back has no bound.
PushedAll(c, d) == c \o d

\* push_back drops what does not fit.
Pushed(c, d) == IF Len(c) + Len(d) <= Capacity THEN c \o d
                                               ELSE SubSeq(c \o d, 1, Capacity)

\* pop_front stops at the end.
Popped(n) == IF frontPtr + n <= Len(cells) THEN frontPtr + n ELSE Len(cells)

\* The kinds the header read as: that of the type cell; anything if the front is in the
\* middle of a message; none if there is nothing to read.
ReadAs ==
    IF Unread = <<>> THEN {NoKind}
    ELSE IF Unread[1].at = 1 THEN {Unread[1].of.kind}
    ELSE Kind \union {NoKind}

-----------------------------------------------------------------------------
(* VDM::parse *)

Goes(s, at, x) == thread' = [thread EXCEPT ![s] = [at |-> at, sentence |-> x]]

\* clear resets the pointers of a container that is not empty. An empty one may be one
\* that was read to its end: it keeps its pointers.
Clear(s, x) == Goes(s, IF frontPtr < Len(cells) THEN "clear" ELSE "add", x)

\* Lines 76-80.
Single(s, x) ==
    /\ x.of.kind.parts = 1
    /\ groupCompleted' = TRUE
    /\ lastProcessed' = 1
    /\ UNCHANGED curSeqNumber
    /\ UNCHANGED <<cells, frontPtr>>
    /\ Clear(s, x)

\* Mutants: a start that leaves the storage, or the group completed.
StartUncleared(s, x) ==
    /\ x.of.kind.parts > 1 /\ x.part = 1
    /\ groupCompleted' = FALSE
    /\ lastProcessed' = 1
    /\ curSeqNumber' = SeqNumber(x.of)
    /\ UNCHANGED <<cells, frontPtr>>
    /\ Goes(s, "add", x)

StartCompleted(s, x) ==
    /\ x.of.kind.parts > 1 /\ x.part = 1
    /\ groupCompleted' = TRUE
    /\ lastProcessed' = 1
    /\ curSeqNumber' = SeqNumber(x.of)
    /\ UNCHANGED <<cells, frontPtr>>
    /\ Clear(s, x)

\* Lines 43-51: a first sentence starts its group, whatever was going on.
Start(s, x) ==
    /\ x.of.kind.parts > 1 /\ x.part = 1
    /\ groupCompleted' = FALSE
    /\ lastProcessed' = 1
    /\ curSeqNumber' = SeqNumber(x.of)
    /\ UNCHANGED <<cells, frontPtr>>
    /\ Clear(s, x)

\* Lines 53-57.
IgnoreUnstarted(s, x) ==
    /\ x.of.kind.parts > 1 /\ x.part # 1
    /\ groupCompleted
    /\ UNCHANGED <<groupVars, cells, frontPtr, thread>>

\* Line 62.
SameGroup(x) == SeqNumber(x.of) = curSeqNumber /\ lastProcessed = x.part - 1

\* Lines 64-65.
Continue(s, x) ==
    /\ x.of.kind.parts > 1 /\ x.part # 1
    /\ ~groupCompleted
    /\ SameGroup(x)
    /\ lastProcessed' = x.part
    /\ groupCompleted' = Last(x)
    /\ UNCHANGED <<curSeqNumber, cells, frontPtr>>
    /\ Goes(s, "add", x)

\* Lines 67-71.
IgnoreOther(s, x) ==
    /\ x.of.kind.parts > 1 /\ x.part # 1
    /\ ~groupCompleted
    /\ ~SameGroup(x)
    /\ UNCHANGED <<groupVars, cells, frontPtr, thread>>

\* The thread of s parses x as far as line 81.
Parse(s, x) ==
    /\ thread[s].at = "idle"
    /\ \/ Single(s, x)
       \/ Start(s, x)
       \/ IgnoreUnstarted(s, x)
       \/ Continue(s, x)
       \/ IgnoreOther(s, x)
    /\ Sends(s, x, FALSE)

Lose(s, x) ==
    /\ Lossy
    /\ thread[s].at = "idle"
    /\ Sends(s, x, TRUE)
    /\ UNCHANGED <<groupVars, cells, frontPtr, thread>>

\* BitContainer::clear.
Reset(s) ==
    /\ thread[s].at = "clear"
    /\ cells' = <<>>
    /\ frontPtr' = 0
    /\ Goes(s, "add", thread[s].sentence)
    /\ UNCHANGED <<groupVars, sent, lost>>

\* Line 83.
Add(s) ==
    /\ thread[s].at = "add"
    /\ cells' = Pushed(cells, CellsOf(thread[s].sentence))
    /\ Goes(s, "test", thread[s].sentence)
    /\ UNCHANGED <<groupVars, frontPtr, sent, lost>>

\* Lines 85-86, the group is not complete.
Wait(s) ==
    /\ thread[s].at = "test"
    /\ ~groupCompleted
    /\ Goes(s, "idle", Nothing(s))
    /\ UNCHANGED <<groupVars, cells, frontPtr, sent, lost>>

\* parseData reads the header, then the body if the table has a place for the target:
\* if not, restoreState undoes what was read of it.
Decode(s) ==
    /\ thread[s].at = "test"
    /\ groupCompleted
    /\ \E kind \in ReadAs : \E placed \in BOOLEAN :
          frontPtr' = Popped(2 + IF placed THEN kind.reads ELSE 0)
    /\ Goes(s, "idle", Nothing(s))
    /\ UNCHANGED <<groupVars, cells, sent, lost>>

Next ==
    \E s \in Talker :
        \/ \E x \in Following(s) : Parse(s, x) \/ Lose(s, x)
        \/ Reset(s)
        \/ Add(s)
        \/ Wait(s)
        \/ Decode(s)

Spec == Init /\ [][Next]_vars

-----------------------------------------------------------------------------
(* Properties *)

\* What the two properties below rest on: one talker, and no group left open until its
\* sequence number is used again.
OneTalker == \E s \in Talker : Talker = {s}

FewLost ==
    ~groupCompleted /\ Unread # <<>> /\ Len(cells) < Capacity =>
        \A s \in Talker :
            thread[s].at = "idle" => sent[s].of.id < Unread[1].of.id + NumSeq

\* With one talker that loses fewer messages in a row than there are sequence numbers,
\* what is decoded is one whole message, however its sentences were lost among others,
\* until the storage is full.
Whole(c) ==
    LET m == c[1].of
    IN  c = [i \in 1..m.kind.parts + 2 |-> [of |-> m, at |-> i]]

DecodedWhole ==
    [][\A s \in Talker :
        Decode(s) /\ Len(cells) < Capacity => Unread # <<>> /\ Whole(Unread)]_vars

\* VDM.cpp:55, "A part of group is missing, ignore this sentence": the parser ignores a
\* sentence only if a sentence of its message was lost.
IgnoredOnlyIfMissing ==
    [][\A s \in Talker :
        \A x \in Following(s) :
            Parse(s, x) /\ thread' = thread => lost[s]]_vars

\* VDM.cpp:61, "The same group, next sentences?": what is added to a group in the storage
\* is of the same message.
ContinuesItsGroup ==
    [][\A s \in Talker :
        \A x \in Following(s) :
            Parse(s, x) /\ x.part > 1 /\ thread' # thread
              => \A i \in 1..Len(Unread) : Unread[i].of = x.of]_vars

\* A storage that was read to the end of its array, with no thread left that found it not
\* empty before, is never cleared again, and nothing is added to it or read from it: no
\* AIS message is decoded any more, from any talker.
Deaf == frontPtr = Capacity /\ \A s \in Talker : thread[s].at # "clear"

DeafForGood == [][Deaf => Deaf' /\ cells' = cells /\ Unread = <<>>]_vars

=============================================================================
