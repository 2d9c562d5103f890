CONSTANTS
  Plans <- MCPlans
  Iterations = 2
  Warmup = 1

SPECIFICATION Spec
INVARIANTS TypeOK CallsInOrder SuccessIsEarned ProgressExact ResultIsHonest
