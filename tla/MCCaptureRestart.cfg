SPECIFICATION FairSpec
CONSTANTS
    NumSources = 2
    Concentrator = 2
    MaxQueue = 1
    MaxFrames = 1
    MaxRestarts = 1
    MaxFaults = 0
PROPERTY
    RestartResumes
CHECK_DEADLOCK FALSE
