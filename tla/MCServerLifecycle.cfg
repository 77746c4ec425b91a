SPECIFICATION ServerFairSpec
CONSTANTS
  Users = {u1, u2}
  Conns = {k1, k2, k3}
  MaxCalls = 2
  BindFails = TRUE
  AnswersCancel = TRUE
INVARIANTS DrainedMeansClosed
PROPERTIES  GraceProtectsCalls ShutdownReturns
CHECK_DEADLOCK FALSE
