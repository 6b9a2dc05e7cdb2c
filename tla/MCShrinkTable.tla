--------------------------- MODULE MCShrinkTable ---------------------------
EXTENDS ShrinkTable, TLC
CONSTANTS m1, m2, m3
Symm == Permutations(Mac)
=============================================================================
