\* The server hosts RPC cb, served by a callback (Add) and called by the
\* server and client c1, and RPC pl, polled (AddPolled) and called by
\* client c2; one RpcServerThread serves both.
CONSTANTS
  srv = srv  c1 = c1  c2 = c2  cb = cb  pl = pl
  Empty = Empty  NoCall = NoCall
  Rpcs <- MCRpcs
  Callers <- MCCallers
  Polled <- MCPolled
  LocalId <- MCLocalId
  Local = srv
  MaxCalls = 1
  MaxDrops = 1
SPECIFICATION Spec
INVARIANT TypeOK
INVARIANT ResponseToOwnCall
PROPERTY EveryCallAnswered
\* Once every caller has made its calls and every call is answered, the
\* server idles.
CHECK_DEADLOCK FALSE
