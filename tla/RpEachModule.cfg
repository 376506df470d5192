\* One property, against what a script says; the script exits, so it stops.
SPECIFICATION Spec
CONSTANTS
  m1 = m1
  m2 = m2
  m3 = m3
  Modules = {m1, m2, m3}
  Plan <- MCPlan
  PollBudget = 2
CHECK_DEADLOCK FALSE
INVARIANTS
  SuccessMeansEachDriven
