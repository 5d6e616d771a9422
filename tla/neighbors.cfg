\* Three boards for two slots; a clock that comes round.
CONSTANTS
    Mac = {a, b, c}
    Self = self
    NoMac = NoMac
    Rssi <- Strengths
    RssiThreshold <- Threshold
    MaxNeighbors = 2
    NeighborTimeout = 2
    CleanupPeriod = 1
    MaxCleanup = 1
    ClockMod = 6
SPECIFICATION Spec
SYMMETRY Boards
VIEW View
INVARIANTS TypeOK NoDuplicates StateIsOwn NoSilentNeighbor
