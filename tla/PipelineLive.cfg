SPECIFICATION FairSpec
CONSTANTS
  Plans = {p1, p2, p3}
  NoPlan = NoPlan
  MaxAttempts = 1
  Window = 2
  TestCases = TRUE
  DocsWriter = TRUE
  Faults = {"error"}
  Inputs = {"/fix"}
  Disciplined = TRUE
CHECK_DEADLOCK FALSE
PROPERTIES
  RunsEnd
  CommandHeeded
  MergeFinishes
