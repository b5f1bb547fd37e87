SPECIFICATION Spec
CONSTANTS
  TICK = 4
  Frames = {0, 24, 91}
  Iterations = {0, 1, 33}
INVARIANTS SchedulerTypeOK Punctual
PROPERTIES IterationUndisturbed JudgedInTime NeverFast FalseRejectionCause
