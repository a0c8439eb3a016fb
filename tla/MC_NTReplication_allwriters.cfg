CONSTANTS
  srv = srv  c1 = c1  c2 = c2  n1 = n1  n2 = n2
  Server = srv
  Clients <- MCClients2
  Names <- MCNames1
  Values <- MCValues
  FlagBits = {P}
  Persistent = P
  NoValue = NoValue
  NoName = NoName
  NoConn = NoConn
  Users <- BothUsers
  MaxIds = 3
  MaxOps = 3
  MaxConnects = 1
SPECIFICATION Spec
INVARIANT EntryIdsResolve
INVARIANT ServerIdMapConsistent
\* Once the bounds on API calls and connections are used up and the
\* queues have drained, no thread has anything to do: the program idles.
CHECK_DEADLOCK FALSE
