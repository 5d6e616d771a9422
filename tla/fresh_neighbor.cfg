\* Two boards for two slots: one is heard while the cleanup runs.
CONSTANTS
    Mac = {a, b}
    Self = self
    NoMac = NoMac
    Rssi <- Strengths
    RssiThreshold <- Threshold
    MaxNeighbors = 2
    NeighborTimeout = 2
    CleanupPeriod = 1
    MaxCleanup = 1
    ClockMod = 6
SPECIFICATION Spec
PROPERTIES FreshNeighborStays
