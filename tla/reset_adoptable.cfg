\* One root and one child; toggles and resets.
CONSTANTS
    Node = {n1, n2}
    RootCapable = {n1}
    Commanded = {n1}
    TcpOpen = {}
    Kernel = {k1}
    Rules = {r0}
    NoRules = r0
    NoConfig = NoConfig
    Absent = Absent
    Command <- ResetCommands
    Updating = {}
    FlashFaulty = FALSE
    MeshFaulty = TRUE
    MaxKernelSeq = 0
    MaxActivationSeq = 0
    MaxValueSeq = 3
    MaxFrames = 2
    MaxToggles = 1
    k1 = k1
    k2 = k2
    r1 = r1
SPECIFICATION Spec
PROPERTIES ResetIsAdoptable
