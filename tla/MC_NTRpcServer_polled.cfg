\* RPC pl, polled (AddPolled), is called by two clients whose first calls
\* both carry call uid 1.
CONSTANTS
  srv = srv  c1 = c1  c2 = c2  cb = cb  pl = pl
  Empty = Empty  NoCall = NoCall
  Rpcs <- MCRpcsPolled
  Callers <- MCCallersPolled
  Polled <- MCRpcsPolled
  LocalId <- MCLocalIdPolled
  Local = srv
  MaxCalls = 1
  MaxDrops = 0
SPECIFICATION Spec
INVARIANT ResponseToOwnCall
\* Once every call is answered, the server idles.
CHECK_DEADLOCK FALSE
