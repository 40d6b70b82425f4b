----------------------------- MODULE MCNVirtFifo -----------------------------
EXTENDS NVirtFifo
CONSTANTS A, B
Both == {A, B}
OneEach == [h \in Both |-> 1]
TwoOne == [h \in Both |-> IF h = A THEN 2 ELSE 1]
TwoNone == [h \in Both |-> IF h = A THEN 2 ELSE 0]
=============================================================================
