\* With and without --fail-fast; the script exits, so the system stops.
SPECIFICATION FairSpec
CONSTANTS
  m1 = m1
  m2 = m2
  m3 = m3
  Modules = {m1, m2, m3}
  Plan <- MCPlan
  PollBudget = 2
CHECK_DEADLOCK FALSE
INVARIANTS
  TypeOK
  SuccessMeansNamedPassed
  OneModuleAtATime
PROPERTIES
  DriverTerminates
  ImplementsContract
