CONSTANTS
    MigCmds = {m1}
    ScanCmds = {a1}
    Sessions = {s1, s2}
    None = None
    HalfOpen = FALSE
    MaxPayloads = 2
    MaxFaults = 2
SPECIFICATION FairSpec
PROPERTIES QueuedIsSettled ScanCommandCompletes
