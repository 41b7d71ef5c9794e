----------------------------- MODULE MCProtocol -----------------------------
EXTENDS Protocol

\* Packets of machine 0 overtake each other, those of the others do not.
Reordering == [m \in Node |-> IF m = 0 THEN 2 ELSE 1]

\* At most one packet in each direction: lost, repeated, late, not reordered.
InOrder == [m \in Node |-> 1]
=============================================================================
