CONSTANTS
    MigCmds = {m1, m2}
    ScanCmds = {a1}
    Sessions = {s1, s2}
    None = None
    HalfOpen = TRUE
    MaxPayloads = 2
    MaxFaults = 2
SPECIFICATION Spec
SYMMETRY DeliverySymmetry
INVARIANTS AtMostOnce ExecutedIsRecorded RecordIsTruthful NoSilentLoss
PROPERTIES ChannelSpec CompletedStays
