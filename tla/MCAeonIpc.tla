----------------------------- MODULE MCAeonIpc -----------------------------
EXTENDS AeonIpc
CONSTANTS p1, p2
=============================================================================
