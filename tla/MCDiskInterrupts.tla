-------------------------- MODULE MCDiskInterrupts --------------------------
EXTENDS DiskInterrupts

Bytes(s) == [k \in 0 .. Len(s) - 1 |-> s[k + 1]]

\* Bytes that overlap themselves: a search that does not step back far
\* enough misses them.
Oxen == [sz |-> 4, old_data |-> Bytes(<<0, 0, 1, 0>>),
         new_data |-> Bytes(<<1, 1, 0, 0>>)]

\* Bytes that the first patch can create and destroy.
Respawn == [sz |-> 3, old_data |-> Bytes(<<0, 0, 1>>),
            new_data |-> Bytes(<<0, 1, 1>>)]
=============================================================================
