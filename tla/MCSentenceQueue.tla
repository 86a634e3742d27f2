--------------------------- MODULE MCSentenceQueue ---------------------------
(* Four sentences of a start and two more bytes, as lines ended by CR LF; the *)
(* third line is not ended.                                                   *)
EXTENDS SentenceQueue

Start(n)   == [of |-> n, at |-> 1, kind |-> "start"]
Text(n, i) == [of |-> n, at |-> i, kind |-> "text"]
End(n, i)  == [of |-> n, at |-> i, kind |-> "end"]

Sentence(n) == <<Start(n), Text(n, 2), Text(n, 3)>>
CrLf(n)     == <<End(n, 4), End(n, 5)>>

FourSentences == <<Sentence(1), Sentence(2), Sentence(3), Sentence(4)>>
OneUnended    == Sentence(1) \o CrLf(1) \o Sentence(2) \o CrLf(2) \o Sentence(3)
                    \o Sentence(4) \o CrLf(4)

\* This talker keeps what LineFits and UnsplitParsed are proved from.
ASSUME TalkerKept == LinesFit /\ SentencesWhole
=============================================================================
