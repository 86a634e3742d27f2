----------------------------- MODULE MCDisplay ------------------------------
EXTENDS Display

On(port, slots, mmsis) == [port |-> port, slots |-> slots, ships |-> mmsis]

\* Three sources of a type; two of each of two types; a position with two sources and another type;
\* two ships.
MCTraffics == {On("ProcessedDataPort", {1} \X {1, 2, 3}, {}),
               On("ProcessedDataPort", {1, 2} \X {1, 2}, {}),
               On("SimpleProtocolPort", {<<1, 1>>, <<1, 2>>, <<2, 1>>}, {}),
               On("AISTargetPort", {}, {1, 2})}
=============================================================================
