SPECIFICATION Spec
CONSTANTS
  Plans = {p1, p2, p3, p4}
  NoPlan = NoPlan
  MaxAttempts = 2
  Window = 2
  TestCases = FALSE
  DocsWriter = FALSE
  Faults = {"crash", "error"}
  Inputs = {"/rerun-plan", "continue", "untag"}
  Disciplined = TRUE
SYMMETRY PlanSymmetry
CHECK_DEADLOCK FALSE
INVARIANTS
  TypeOK
  BudgetInv
  BudgetRespected
  CodeMatchesPlan
  NeverStranded
PROPERTIES
  FailureKeepsProgress
  StagesInOrder
