SPECIFICATION ServiceFairSpec
CONSTANTS
    Instances = {i1, i2}
    NoSocket = NoSocket
    ClaimsOverlap = TRUE
    StopOverlapsStart = TRUE
    Accounts = {}
    Absent = Absent
    Terminal = t
    Files <- MCFiles
    OtherFile <- MCOtherFile
    Shells <- MCShells
    MaxCrashes = 2
INVARIANTS ServiceTypeOK ServerIsReachable
PROPERTIES RefusedOnlyWhileServed SerialUnderLaunchd NoCrashLoop CleanStopStays
PROPERTY EventuallyServes
