CONSTANTS
  n1 = n1  n2 = n2  l1 = l1  l2 = l2  P = P
  Names <- MCNames1
  Values <- MCValues
  FlagBits = {P}
  Persistent = P
  NoValue = NoValue
  NoName = NoName
  NoConn = NoConn
  MaxIds = 2
  Loggers = {l1, l2}
  LoggerNames <- MCLoggerNames
  Listener = Listener
  ListenNames <- MCNames1
  Incoming <- MCIncoming
  Handshakes <- MCHandshakes
  RpcDefs <- MCRpcDefs
  MaxOps = 5
  MaxStreams = 4
SPECIFICATION Spec
INVARIANT TypeOK
INVARIANT ListenerSeesTable
INVARIANT StreamsMirrorEntries
\* Once the bound on calls and messages is used up and the notifier thread
\* has drained its queue, the program idles.
CHECK_DEADLOCK FALSE
