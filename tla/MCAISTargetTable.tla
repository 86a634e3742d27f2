-------------------------- MODULE MCAISTargetTable --------------------------
(* Places on a line, in miles from latitude and longitude 0; what is no place is a mile off. *)
EXTENDS AISTargetTable

None == 99
Away(a, b) == IF a < b THEN b - a ELSE a - b
MCDistance == [q \in (Place \union {NoPlace}) \X Place |-> IF q[1] = None THEN 1 ELSE Away(q[1], q[2])]

Limits(amount, range, maxAmount, maxRange) ==
    [limitAmount |-> amount, limitRange |-> range, maxAmount |-> maxAmount,
     maxRange |-> maxRange]

AllKinds == {Limits(FALSE, FALSE, 2, 0), Limits(TRUE, FALSE, 2, 0),
             Limits(FALSE, TRUE, 2, 1), Limits(TRUE, TRUE, 2, 1)}
=============================================================================
