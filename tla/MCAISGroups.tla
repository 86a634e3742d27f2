---------------------------- MODULE MCAISGroups ----------------------------
EXTENDS AISGroups

Type(parts, reads) == [parts |-> parts, reads |-> reads]

\* Position reports are read to the last bit; class B reports, static reports and types
\* without a parser leave some.
Types == {Type(1, 1), Type(1, 0), Type(2, 1)}

\* With one that needs three sentences.
LongTypes == {Type(1, 1), Type(2, 1), Type(3, 3)}

\* The behaviours in which no two threads are in the parser at once: the talkers' sentences
\* alternate, and each is parsed to its end before another.
OneAtATime ==
    \A r, s \in Talker : r # s => thread[r].at = "idle" \/ thread[s].at = "idle"

AlternateSpec == Init /\ [][Next /\ OneAtATime']_vars
=============================================================================
