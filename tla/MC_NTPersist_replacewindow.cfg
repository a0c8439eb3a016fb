\* The periodic save with restarts: does a restart always find the last
\* successful save in fn?
CONSTANTS
    Names <- MCNames
    Values <- MCValues
    FlagBits = {P, X}
    Persistent = P
    NoValue = NoValue
    NoName = NoName
    NoConn = NoConn
    MaxIds = 2
    n1 = n1
    P = P
    X = X
    periodicSaver = periodicSaver
    userSaver = userSaver
    PeriodicSaver = periodicSaver
    UserSaver = userSaver
    Savers <- PeriodicOnly
    Inodes = {1, 2, 3, 4}
    Incoming <- MCIncoming
    MaxOps = 3
    MaxSaves = 3
    MaxFailures = 2
    MaxCrashes = 1
    Absent = Absent
    NameText <- MCNameText
    Garbage = Garbage
INIT Init
NEXT Next
PROPERTY RestartRestoresLastSave
CHECK_DEADLOCK FALSE
