\* After the last run the program is not started again: the system stops.
CONSTANTS
    ThreadNum = 2
    SocketNum = 1
    Degrees <- MCDegrees
    Requests <- MCRequests
    MaxRuns = 3
SPECIFICATION FairBmkSpec
CHECK_DEADLOCK FALSE
INVARIANTS
    BmkTypeOK
    AddedOnce
    ResultsCover
    FileIsCatalogue
PROPERTY BenchmarkEnds
