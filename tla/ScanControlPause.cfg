CONSTANTS
    Verbs = {"scan-pause", "scan-cancel"}
    NEntries = 2
    MaxVerbs = 2
    MaxFaults = 0
SPECIFICATION FairSpec
PROPERTY CancelEndsTheScan
