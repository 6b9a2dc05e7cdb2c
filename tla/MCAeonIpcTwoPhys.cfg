SPECIFICATION Spec
CONSTANTS
  p1 = p1
  p2 = p2
  Phy = {p1, p2}
  MaxPolls = 3
  FwMayFail = FALSE
  FwPrompt = TRUE
INVARIANT SuccessMeansServiced
