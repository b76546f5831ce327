SPECIFICATION Spec
CONSTANTS
  Plans = {p1, p2, p3, p4}
  NoPlan = NoPlan
  MaxAttempts = 1
  Window = 2
  TestCases = FALSE
  DocsWriter = FALSE
  Faults = {"error", "ado"}
  Inputs = {"/fix", "dashboard", "cli", "untag", "analyse", "abandon"}
  Disciplined = FALSE
SYMMETRY PlanSymmetry
CHECK_DEADLOCK FALSE
INVARIANTS
  DocsAfterMerge
