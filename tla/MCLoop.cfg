SPECIFICATION FairSpec
CONSTANTS
  Tasks = {t1, t2}
  Quit = Quit
  Timers = {d1, d2}
  MaxStarts = 1
  MayStop = TRUE
INVARIANTS NoLostWakeup TimerEndsOnce
PROPERTIES RunsInOrder PostedRuns StopReturns
CHECK_DEADLOCK FALSE
