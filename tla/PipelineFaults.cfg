SPECIFICATION Spec
CONSTANTS
  Plans = {p1, p2, p3, p4}
  NoPlan = NoPlan
  MaxAttempts = 1
  Window = 2
  TestCases = TRUE
  DocsWriter = TRUE
  Faults = {"crash", "error", "plain", "ado", "tag", "report", "remote", "foreign", "watcher", "empty"}
  Inputs = {"/fix"}
  Disciplined = FALSE
SYMMETRY PlanSymmetry
CHECK_DEADLOCK FALSE
INVARIANTS
  FeedbackDurable
  ReviewedCodeOnly
