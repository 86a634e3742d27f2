--------------------------- MODULE SentenceQueue ---------------------------
(***************************************************************************)
(* How the bytes of one sensor become NMEA sentences: the reader thread    *)
(* pushes what the port gave it to a BinaryQueue, the processor thread     *)
(* pulls a line at a time and gives it to NMEA::Sentence, whose checksum   *)
(* decides whether the line is a sentence.                                 *)
(*                                                                         *)
(* A byte is a record: the sentence it belongs to, its place there, and    *)
(* its kind: "start" for $ and !, "end" for CR and LF, "text" for the      *)
(* rest. NUL bytes, which no talker sends, are left out.                   *)
(***************************************************************************)
EXTENDS Naturals, SequencesExt, FiniteSetsExt

CONSTANTS
    Sentences,  \* the sentences the talker sends, without line ends
    Wire,       \* all the bytes it sends
    BufSize     \* sizeof (sentenceBuffer)

Byte == [of : 1..Len(Sentences), at : Nat, kind : {"start", "text", "end"}]

IsEnd(b)   == b.kind = "end"
IsStart(b) == b.kind = "start"

\* A talker sends a sentence once, in the order of their numbers; each begins with the one
\* start it has.
ASSUME WireAssumption ==
    /\ BufSize \in Nat \ {0}
    /\ Wire \in Seq(Byte)
    /\ Sentences \in Seq(Seq(Byte))
    /\ \A n \in 1..Len(Sentences) :
         /\ Len(Sentences[n]) > 1
         /\ IsStart(Sentences[n][1])
         /\ Sentences[n][1].of = n
    /\ \A i, j \in 1..Len(Wire) :
         i < j /\ IsStart(Wire[i]) /\ IsStart(Wire[j]) => Wire[i].of < Wire[j].of

\* Two things the code trusts the talker for, which the talker need not keep. From any byte
\* on, the rest of its line with the run of its ends is not longer than the buffer.
LinesFit ==
    \A i, j \in 1..Len(Wire) :
        /\ i <= j
        /\ ~IsEnd(Wire[i])
        /\ \A k \in i + 1..j : ~IsStart(Wire[k])
        /\ \A k \in i..j - 1 : IsEnd(Wire[k]) => IsEnd(Wire[k + 1])
        => j - i < BufSize

\* Sentence n is on the wire from its byte w on.
Begins(n, w) ==
    /\ w + Len(Sentences[n]) - 1 <= Len(Wire)
    /\ \A i \in 1..Len(Sentences[n]) : Wire[w + i - 1] = Sentences[n][i]

\* It sends every sentence in one piece, and a sentence fits the buffer and has neither a
\* start nor an end but at its own.
SentencesWhole ==
    \A n \in 1..Len(Sentences) :
        /\ Len(Sentences[n]) <= BufSize
        /\ \A i \in 1..Len(Sentences[n]) :
              Sentences[n][i].of = n /\ (i > 1 => Sentences[n][i].kind = "text")
        /\ \E w \in 1..Len(Wire) : Begins(n, w)

VARIABLES
    pushed,     \* how many bytes of Wire the reader has pushed
    queue,      \* container
    size,       \* queueSize, read before the mutex is taken
    proc,       \* the processor: "rest" (outer loop), "loop" (inner loop), "pull"
    line,       \* sentenceBuffer: what the last pull put there
    accepted,   \* the sentences parsed, in order (history)
    split       \* sentences whose bytes came in more than one push (history)

vars == <<pushed, queue, size, proc, line, accepted, split>>

TypeOK ==
    /\ pushed \in 0..Len(Wire)
    /\ queue \in Seq(Byte)
    /\ size \in 0..Len(queue)
    /\ proc \in {"rest", "loop", "pull"}
    /\ line \in Seq(Byte)
    /\ accepted \in Seq(1..Len(Sentences))
    /\ split \subseteq 1..Len(Sentences)

Init ==
    /\ pushed = 0
    /\ queue = <<>>
    /\ size = 0
    /\ proc = "rest"
    /\ line = <<>>
    /\ accepted = <<>>
    /\ split = {}

-----------------------------------------------------------------------------
(* BinaryQueue::pull for a line *)

\* How many line ends lead the first n bytes of q: they are skipped.
Leading(q, n) == Max({i \in 0..n : \A j \in 1..i : IsEnd(q[j])})

\* Where a line that begins after the leading ends can stop: at a line end or before
\* another start, among the n bytes seen and the BufSize that fit.
Stops(q, n) ==
    {p \in (Leading(q, n) + 2)..n :
        p - Leading(q, n) <= BufSize /\ (IsEnd(q[p]) \/ IsStart(q[p]))}

\* The last of the line ends that follow each other from position p on.
LastEnd(q, p) == Max({k \in p..Len(q) : \A j \in p..k : IsEnd(q[j])})

\* How many bytes the scan passes: to the end of a line, to the next start, or as far
\* as it can see when the line is not finished.
Count(q, n) ==
    IF Stops(q, n) = {}
      THEN Min({n, Leading(q, n) + BufSize})
      ELSE LET p == Min(Stops(q, n))
           IN  IF IsStart(q[p]) THEN p - 1 ELSE LastEnd(q, p)

\* Mutants of the two: a copy from the first byte of the queue; an erase of no more
\* than the skipped ends, of one byte too many.
LineFromFirst(q, n)  == SubSeq(q, 1, Count(q, n))
RestKeepsLine(q, n)  == SubSeq(q, Leading(q, n) + 1, Len(q))
RestWithout(q, n)    == SubSeq(q, Count(q, n) + 1, Len(q))
RestWithoutTwo(q, n) == SubSeq(q, Count(q, n) + 2, Len(q))

\* What is copied to the buffer, and what erase leaves: all but count - 1 bytes.
Line(q, n) == SubSeq(q, Leading(q, n) + 1, Count(q, n))
Rest(q, n) == IF Count(q, n) = 0 THEN q ELSE SubSeq(q, Count(q, n), Len(q))

\* Sentence::parse takes the line if it begins with a sentence whose checksum fits.
Parsed(l) == {n \in 1..Len(Sentences) : IsPrefix(Sentences[n], l)}

-----------------------------------------------------------------------------

\* The reader thread: the port had k more bytes.
ReaderPush(k) ==
    /\ pushed + k <= Len(Wire)
    /\ queue' = queue \o SubSeq(Wire, pushed + 1, pushed + k)
    /\ pushed' = pushed + k
    /\ split' = IF pushed + k < Len(Wire) /\ Wire[pushed + k].of = Wire[pushed + k + 1].of
                  THEN split \union {Wire[pushed + k].of} ELSE split
    /\ UNCHANGED <<size, proc, line, accepted>>

\* extractData calls pull, which reads the size of the queue before it locks it.
ProcessorSize ==
    /\ proc \in {"rest", "loop"}
    /\ size' = Len(queue)
    /\ proc' = "pull"
    /\ UNCHANGED <<pushed, queue, line, accepted, split>>

\* The pull, under the mutex, and the parse. An empty queue ends the inner loop of
\* processorProc; so may, by the byte it finds before the buffer, a line of one byte.
ProcessorPull ==
    /\ proc = "pull"
    /\ \/ /\ queue = <<>> \/ Count(queue, size) = 0
          /\ proc' = "rest"
          /\ UNCHANGED <<queue, line, accepted>>
       \/ /\ queue # <<>> /\ Count(queue, size) > 0
          /\ queue' = Rest(queue, size)
          /\ line' = Line(queue, size)
          /\ proc' \in IF Count(queue, size) = 1 THEN {"loop", "rest"} ELSE {"loop"}
          /\ \/ Parsed(line') = {} /\ UNCHANGED accepted
             \/ \E n \in Parsed(line') : accepted' = Append(accepted, n)
    /\ size' = 0
    /\ UNCHANGED <<pushed, split>>

Next ==
    \/ \E k \in 1..Len(Wire) : ReaderPush(k)
    \/ ProcessorSize
    \/ ProcessorPull

Spec == Init /\ [][Next]_vars

-----------------------------------------------------------------------------
(* Properties *)

\* No sentence is parsed twice and none overtakes another, though a pull leaves the
\* last byte it returned in the queue.
AcceptedInOrder ==
    \A i, j \in 1..Len(accepted) : i < j => accepted[i] < accepted[j]

\* A line fits the buffer it is copied to, with its run of line ends.
LineFits == Len(line) <= BufSize

\* Every sentence that came in one push is parsed in the pull that takes its first
\* byte, whatever was split or refused before it.
Taken(n) == \A b \in ToSet(queue) \union ToSet(SubSeq(Wire, pushed + 1, Len(Wire))) :
                b.of = n => ~IsStart(b)

UnsplitParsed ==
    \A n \in 1..Len(Sentences) : Taken(n) => n \in split \union ToSet(accepted)

\* The other way to end a line, before the $ or ! of the next, blocks the sensor: the
\* byte that stays in the queue ends the next pull before that same start, with nothing
\* to erase, and so on for good, whatever the talker sends.
Blocked == Len(queue) > 1 /\ ~IsEnd(queue[1]) /\ IsStart(queue[2])

UnendedLineBlocks ==
    [][Blocked => Blocked' /\ accepted' = accepted]_vars

=============================================================================
