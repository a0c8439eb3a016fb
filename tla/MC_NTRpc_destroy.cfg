CONSTANTS
  t1 = t1  t2 = t2
  NoThread = NoThread
  Callers <- MCCallers1
  Destructible = TRUE
  MaxCalls = 2
  MaxOps = 3
SPECIFICATION Spec
PROPERTY TerminationReleasesWaiters
\* A hang is what this run looks for; a state with nothing left to do is
\* the end of a bounded run.
CHECK_DEADLOCK FALSE
