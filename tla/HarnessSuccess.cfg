\* What RunnerExpectation::success promises; the call returns, so the system stops.
SPECIFICATION Spec
CONSTANTS
  Capacity = 1
  MaxPayload = 2
  MaxOutput = 2
CHECK_DEADLOCK FALSE
INVARIANTS
  SuccessIsAccepted
