SPECIFICATION Spec
CONSTANTS
  Plans = {p1, p2, p3, p4}
  NoPlan = NoPlan
  MaxAttempts = 3
  Window = 2
  TestCases = FALSE
  DocsWriter = FALSE
  Faults = {"foreign"}
  Inputs = {"/rerun-plan"}
  Disciplined = TRUE
SYMMETRY PlanSymmetry
CHECK_DEADLOCK FALSE
INVARIANTS
  EscalationEarned
  OwnBranchKnown
  StageInputsReady
