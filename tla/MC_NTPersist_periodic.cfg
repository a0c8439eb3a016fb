\* The dispatcher's periodic save alone, with failing file system calls,
\* restarts, user writes and client messages between its steps.
CONSTANTS
    Names <- MCNames
    Values <- MCValues
    FlagBits = {P, X}
    Persistent = P
    NoValue = NoValue
    NoName = NoName
    NoConn = NoConn
    MaxIds = 2
    n1 = n1
    P = P
    X = X
    periodicSaver = periodicSaver
    userSaver = userSaver
    PeriodicSaver = periodicSaver
    UserSaver = userSaver
    Savers <- PeriodicOnly
    Inodes = {1, 2, 3, 4}
    Incoming <- MCIncoming
    MaxOps = 3
    MaxSaves = 3
    MaxFailures = 2
    MaxCrashes = 1
    Absent = Absent
    NameText <- MCNameText
    Garbage = Garbage
INIT Init
NEXT Next
INVARIANTS DiskMatchesWhenClean FileIsASave FnLoadsLastSave
\* The bounds end every behaviour; a state where all of them are used up
\* has no successor.
CHECK_DEADLOCK FALSE
