CONSTANTS
  n1 = n1  n2 = n2  l1 = l1  l2 = l2  P = P
  Names <- MCNames1
  Values <- MCValuesLog
  FlagBits = {P}
  Persistent = P
  NoValue = NoValue
  NoName = NoName
  NoConn = NoConn
  MaxIds = 2
  Loggers = {l1, l2}
  LoggerNames <- MCLoggerNames
  Listener = Listener
  ListenNames <- MCNames1
  Incoming = {}
  Handshakes = {}
  RpcDefs = {}
  MaxOps = 6
  MaxStreams = 4
SPECIFICATION Spec
INVARIANT LoggedWhileMatching
\* A run of API calls and logger starts and stops; a state with nothing left
\* to do is the end of a bounded run.
CHECK_DEADLOCK FALSE
