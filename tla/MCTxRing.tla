------------------------------ MODULE MCTxRing ------------------------------
EXTENDS TxRing
CONSTANTS s1, s2
=============================================================================
