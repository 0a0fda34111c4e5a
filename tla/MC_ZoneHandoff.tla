--------------------------- MODULE MC_ZoneHandoff ---------------------------
\* One client with one character, or two with one each; two zones.
EXTENDS ZoneHandoff

CONSTANTS k1, k2, ann, bob, city, woods

Alone == [k \in {k1} |-> ann]
Pair  == [k \in {k1, k2} |-> IF k = k1 THEN ann ELSE bob]
=============================================================================
