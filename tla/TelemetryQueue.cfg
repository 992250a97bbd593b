CONSTANTS
    Files = {f1}
    BatchLimit = 2
    MaxVersion = 2
    MaxVerbs = 3
    MaxFaults = 2
    MaxCrashes = 1
SPECIFICATION FairSpec
INVARIANTS NothingQueuedIsLost CoverageIsComplete
PROPERTY ContentIsReported
