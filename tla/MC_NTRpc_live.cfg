CONSTANTS
  t1 = t1  t2 = t2
  NoThread = NoThread
  Callers <- MCCallers1
  Destructible = TRUE
  MaxCalls = 3
  MaxOps = 4
SPECIFICATION Spec
PROPERTY WaiterReleased
PROPERTY RefinesRpcCall
\* Once the bounds on calls and operations are used up and every thread has
\* returned, the program idles.
CHECK_DEADLOCK FALSE
