\* A mesh that delivers: what is commanded reaches everyone.
CONSTANTS
    Node = {n1, n2, n3}
    RootCapable = {n1}
    Commanded = {n1}
    TcpOpen = {}
    Kernel = {k1, k2}
    Rules = {r0, r1}
    NoRules = r0
    NoConfig = NoConfig
    Absent = Absent
    Command <- ConfigCommands
    Updating = {}
    FlashFaulty = FALSE
    MeshFaulty = FALSE
    MaxKernelSeq = 2
    MaxActivationSeq = 1
    MaxValueSeq = 0
    MaxFrames = 4
    MaxToggles = 0
    k1 = k1
    k2 = k2
    r1 = r1
SPECIFICATION FairSpec
PROPERTIES Propagates
