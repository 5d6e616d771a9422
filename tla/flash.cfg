\* Two nodes, both commanded; flash fails too.
CONSTANTS
    Node = {n1, n2}
    RootCapable = {n1, n2}
    Commanded = {n1, n2}
    TcpOpen = {n1}
    Kernel = {k1, k2}
    Rules = {r0, r1}
    NoRules = r0
    NoConfig = NoConfig
    Absent = Absent
    Command <- FlashCommands
    Updating = {}
    FlashFaulty = TRUE
    MeshFaulty = TRUE
    MaxKernelSeq = 2
    MaxActivationSeq = 1
    MaxValueSeq = 0
    MaxFrames = 1
    MaxToggles = 0
    k1 = k1
    k2 = k2
    r1 = r1
SPECIFICATION Spec
VIEW BesidesValue
PROPERTIES NvsBehindRam OnlyForward
