SPECIFICATION Spec
CONSTANTS
  Plans = {p1, p2, p3, p4}
  NoPlan = NoPlan
  MaxAttempts = 2
  Window = 2
  TestCases = FALSE
  DocsWriter = FALSE
  Faults = {"crash", "watcher"}
  Inputs = {"/fix"}
  Disciplined = TRUE
SYMMETRY PlanSymmetry
CHECK_DEADLOCK FALSE
PROPERTIES
  ResumeKeepsBudget
