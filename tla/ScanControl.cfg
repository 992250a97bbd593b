CONSTANTS
    Verbs = {"scan-now", "scan-target", "scan-pause", "scan-resume", "scan-cancel"}
    NEntries = 2
    MaxVerbs = 3
    MaxFaults = 2
SPECIFICATION FairSpec
INVARIANTS AllOrNothing OverrideIsOneShot
PROPERTY ScanNowRunsFully
